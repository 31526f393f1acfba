-------------------------- MODULE Dm2StationProofs --------------------------
(* Proofs about Dm2Station, for every layout, every choice of suites and   *)
(* any number of processes, runs and requests.                             *)
EXTENDS Dm2Station, SeqLemmas

(***************************************************************************)
(* What programs may do.  A test ends a program with "must" and "need";    *)
(* only the program itself forks, judges and copies.                       *)
(***************************************************************************)
Children == {"play_receiver", "play_speaker", "loopback_earphone", "loopback_earmic", "bt_scan",
             "dial", "protect", "key", "norflash", "finalimg", "server"}
PlainOps == {"wait", "waitchild", "block", "text", "must", "truncate", "copy", "power"}
FileOps  == {"open", "fill", "unlink", "need", "judge"}
ChildOps == {"wait", "block", "try", "text", "set", "power", "key"}
Ops == PlainOps \cup FileOps \cup ChildOps
       \cup {"make", "fork", "spawn", "path", "kill", "append", "bind", "accept", "stat", "lseek", "read",
             "send"}
Loops    == {"loopback_earphone", "loopback_earmic"}
Players  == {"play_receiver", "play_speaker"} \cup Loops
Quiet    == {"speaker", "receiver"}
Texts == {"ModemOn", "done", "Level", "WaitingForKeyPress", "KeyPress", "SWVersion", "Pass",
          "rootfsPass", "Suspending", "WakeUpSuccess", "Battery", "ON", "OFF", "WebServerReady"}
Args  == Files \cup Children \cup Quiet \cup Texts
         \cup {"none", "wifi", "script", "gsm_receiver", "aplay", "bt_power", "bt_reset",
               "hciconfig", "modprobe", "scan", "dhcp", "iperf", "brightness"}
AnyStep == [op : Ops, arg : Args]

TestStep ==
  {s \in AnyStep :
     \/ s.op \in PlainOps
     \/ s.op \in FileOps /\ s.arg \in Files
     \/ s.op = "fork" /\ s.arg \in Children
     \/ s.op = "spawn" /\ s.arg = "wifi"
     \/ s.op = "path"
     \/ s.op = "kill" /\ s.arg \in {"dial", "script"}}

Is(s, op, arg) == s.op = op /\ s.arg = arg
Resets(s, f)   == s.op \in {"unlink", "open"} /\ s.arg = f
Has(p, op, arg) == \E k \in 1 .. Len(p) : Is(p[k], op, arg)
Unreset(p, f)  == \A k \in 1 .. Len(p) : ~ Resets(p[k], f)

\* The mixer is set back in the end, and nothing can end the program before.
Recovers(p) ==
  /\ p # <<>> /\ Is(p[Len(p)], "path", "speaker")
  /\ \A k \in 1 .. Len(p) : p[k].op \notin {"must", "need"}

\* A fill follows a block.
Blocks(p) == \A k \in 1 .. Len(p) : p[k].op = "fill" => k >= 3 /\ p[k - 2].op = "block"

\* What holds of a test and of what is left of it: it waits for the children it
\* starts, kills those that may not end, and sets the mixer back; and what it
\* judges is not reset any more.
Forks(p) ==
  \A k \in 1 .. Len(p) :
    /\ Is(p[k], "fork", "dial") =>
         k + 2 <= Len(p) /\ p[k + 1].op = "wait" /\ Is(p[k + 2], "kill", "dial")
    /\ Is(p[k], "spawn", "wifi") =>
         /\ k + 3 <= Len(p) /\ p[k + 1].op = "wait"
         /\ Is(p[k + 2], "need", "wifi_log") /\ Is(p[k + 3], "kill", "script")
    /\ Is(p[k], "fork", "bt_scan") =>
         /\ k + 1 <= Len(p) /\ p[k + 1].op = "waitchild"
         /\ \A j \in k + 1 .. Len(p) : p[j].op # "fork" /\ ~ Resets(p[j], "bt_log")
Plays(p) ==
  \A k \in 1 .. Len(p) :
    /\ p[k].op = "fork" /\ p[k].arg \in Players =>
         /\ k + 1 <= Len(p) /\ p[k + 1].op = "wait"
         /\ p[k].arg \in Loops => Recovers(p)
    /\ p[k].op = "path" /\ p[k].arg \notin Quiet => k < Len(p) /\ Recovers(p)
Judges(p) ==
  \A k \in 1 .. Len(p) :
    /\ p[k].op = "fill" => p[k].arg \in {"mac", "hdq_log"}
    /\ p[k].op = "open" => p[k].arg # "bt_log"
    /\ p[k].op = "judge" => \A j \in k .. Len(p) : ~ Resets(p[j], p[k].arg)
Orderly(p) == Forks(p) /\ Plays(p) /\ Judges(p)

\* What holds of a whole test.
Whole(p) ==
  /\ \A f \in Files : (\E k \in 1 .. Len(p) : Is(p[k], "judge", f)) => ~ Unreset(p, f)
  /\ Has(p, "fork", "bt_scan") => ~ Unreset(p, "bt_log")
  /\ Has(p, "fork", "server") => p[1].op = "truncate"
  /\ Blocks(p)

\* The programs of the children, by what they are.
ChildStep(what) ==
  {s \in AnyStep :
     \/ s.op \in ChildOps
     \/ s.op = "make" /\ s.arg \in Files \ {"bt_log"}
     \/ s.op \in {"open", "fill"} /\ \/ what = "dial" /\ s.arg = "gsm-progress"
                                     \/ what = "bt_scan" /\ s.arg = "bt_log"
     \/ s.op = "open" /\ what = "script" /\ s.arg \in {"wlan-progress", "wifi_log"}
     \/ s.op = "append" /\ what = "script" /\ s.arg = "wlan-progress"
     \/ s.op \in {"bind", "accept"} /\ what = "server"
     \/ s.op \in {"stat", "lseek", "read", "send"} /\ what = "request"
     \/ s.op = "path" /\ what \in Players /\ (s.arg \in Quiet \/ what \in Loops)}

OrderlyChild(p, what) ==
  \A k \in 1 .. Len(p) :
    /\ p[k].op = "path" => k = 1
    /\ p[k].op = "lseek" => k = 1 \/ p[k - 1].op = "stat"
    /\ p[k].op = "read" => k = 1 \/ p[k - 1].op = "lseek"
    /\ p[k].op = "send" => k = 1 \/ p[k - 1].op = "read"
    /\ what = "bt_scan" =>
         /\ p[k].op \in {"set", "power", "text", "open", "fill"}
         /\ p[k].op = "open" <=> k = Len(p) - 1
         /\ p[k].op = "fill" <=> k = Len(p)

\* Steps that are in order wherever they stand.
PlainStep ==
  {s \in AnyStep :
     \/ s.op \in {"wait", "block", "text", "must"}
     \/ s.op = "need" /\ s.arg \in Files
     \/ s.op = "fork" /\ s.arg \in {"key", "norflash", "finalimg"}}
Good == {p \in Seq(TestStep) : Orderly(p) /\ Whole(p)}

Kinds == {"none", "script", "request"} \cup Children
Process == [prog : Seq(AnyStep), run : Nat, what : Kinds, fd : Nat,
            len : Int, data : Int, torn : BOOLEAN]
-----------------------------------------------------------------------------
(***************************************************************************)
(* The invariant of the machine: the processes, the files and the log.     *)
(***************************************************************************)
Main == procs[1].prog

TypesOK ==
  /\ last \in Pids /\ runs \in Nat /\ log \in Nat /\ copy \in Nat \cup {-1}
  /\ files \in [Files -> [inode : Nat, wins : SUBSET Nat]]
  /\ at \in {"loop", "popup", "run", "exited"} /\ late \in BOOLEAN /\ btpower \in BOOLEAN
ChildOK(r) == r.prog \in Seq(ChildStep(r.what)) /\ OrderlyChild(r.prog, r.what)
ProcsOK ==
  /\ procs \in [Pids -> Process]
  /\ Main \in Seq(TestStep) /\ Orderly(Main) /\ (Main # <<>> => at = "run")
  /\ procs[1].what = "none" /\ (at # "exited" => procs[1].run = runs)
  /\ \A c \in Pids \ {1} : ChildOK(procs[c])

\* The log and its server.
RequestOK(c) ==
  procs[c].what = "request" /\ ~ procs[c].torn =>
    /\ copy # -1
    /\ Does(c, "read") => procs[c].len = copy
    /\ Does(c, "send") => procs[c].len = copy /\ procs[c].data = copy
LogInv ==
  /\ copy = -1 => \A c \in Pids : procs[c].what # "server"
  /\ Has(Main, "fork", "server") => copy # -1 \/ Main[1].op = "truncate"
  /\ \A c \in Pids : RequestOK(c)

\* A child that plays sets the path before the program goes on.
MixerInv == at # "exited" /\ mixer \notin Quiet => Recovers(Main)
PlaysInv ==
  at # "exited" => \A c \in Pids \ {1} : Does(c, "path") =>
    Does(1, "wait") /\ (Step(c).arg \notin Quiet => Recovers(Main))

\* What the program is about to kill is of this run; a scan of this run opens
\* its file while the program waits for it, and an earlier one has opened another.
Awaits(p, name) ==
  \/ Len(p) >= 1 /\ Is(p[1], "kill", name)
  \/ /\ name = "dial" /\ Len(p) >= 2 /\ p[1].op = "wait" /\ Is(p[2], "kill", name)
  \/ /\ name = "script" /\ Len(p) >= 2 /\ Is(p[1], "need", "wifi_log") /\ Is(p[2], "kill", name)
  \/ /\ name = "script" /\ Len(p) >= 3 /\ p[1].op = "wait" /\ Is(p[2], "need", "wifi_log")
     /\ Is(p[3], "kill", name)
DialInv ==
  at # "exited" => \A c \in Pids \ {1} : procs[c].what = "dial" =>
    procs[c].run = runs /\ Awaits(Main, "dial")
ScriptInv ==
  at # "exited" /\ ~ late => \A c \in Pids \ {1} : procs[c].what = "script" =>
    procs[c].run = runs /\ Awaits(Main, "script")
Unopened(r) == \E k \in 1 .. Len(r.prog) : r.prog[k].op = "open"
BtScanInv ==
  at # "exited" => \A c \in Pids \ {1} : procs[c].what = "bt_scan" =>
    IF Unopened(procs[c])
    THEN /\ procs[c].run = runs /\ last = c /\ files["bt_log"] = NoFile
         /\ Does(1, "waitchild") /\ ~ Has(Main, "fork", "bt_scan")
    ELSE procs[c].fd = 1 + procs[c].run

\* What the program will judge was written in this run.
Judged(f) == Unreset(Main, f) /\ Has(Main, "judge", f)
FilesInv ==
  at # "exited" /\ ~ late => \A f \in Files : Judged(f) =>
    /\ files[f].wins \subseteq {runs}
    /\ f = "bt_log" => files[f].inode \in {0, 1 + runs}
ScanInv ==
  at # "exited" /\ Has(Main, "fork", "bt_scan") /\ Unreset(Main, "bt_log") =>
    files["bt_log"] = NoFile
VerdictInv == ~ late => verdict.run \in verdict.from

MachineInv ==
  /\ TypesOK /\ ProcsOK /\ LogInv /\ MixerInv /\ PlaysInv /\ DialInv /\ ScriptInv /\ BtScanInv
  /\ FilesInv /\ ScanInv /\ VerdictInv /\ WholeReport
-----------------------------------------------------------------------------
(***************************************************************************)
(* The invariant of the screen: the buttons, what they show and what the   *)
(* operator has touched.                                                   *)
(***************************************************************************)
Labels == Faces \cup Nat \cup Args \cup {"desc", "Fail", "PASS", "FAIL"}
Button == [rect : Rects, show : BOOLEAN, sensitive : BOOLEAN, face : Labels,
           active : BOOLEAN, cb : Callbacks, update : BOOLEAN]
Pixel  == Nat \X Labels
Ui == [button : Seq(Button), depressed : Nat, invalid : Rects, screen : [Points -> Pixel],
       abort : BOOLEAN]

\* The buttons of a program that was set up.
Built(u, suites) ==
  /\ u \in Ui /\ Len(u.button) = Dialog + Len(suites) /\ u.depressed <= Len(u.button)
  /\ \A b \in 1 .. Len(u.button) :
       /\ u.button[b].sensitive <=> b \notin {View, Dialog}
       /\ u.button[b].cb = IF b = Pass THEN "pass" ELSE IF b = Fail THEN "fail"
                           ELSE IF b \in {View, Quit, Dialog} THEN "none"
                           ELSE IF b = Popup THEN "popup"
                           ELSE IF b > Dialog THEN "popdown" ELSE "test"
  /\ \A s \in DOMAIN suites : \A t \in DOMAIN suites[s] :
       u.button[FirstOf(s) + t].face = suites[s][t]

\* The tests that are shown are those of the suite; the dialog and its items are
\* shown while the operator chooses.
ShownOf(u, s, choosing) ==
  \A b \in 1 .. Len(u.button) :
    /\ u.button[b].cb = "test" => (u.button[b].show <=> b \in TestsOf(s))
    /\ b >= Dialog => (u.button[b].show <=> choosing)
    /\ b \in {View, Pass, Quit, Fail, Popup} => u.button[b].show

UiInv ==
  /\ board \in Boards /\ suite \in DOMAIN board /\ test \in 0 .. Len(board[suite])
  /\ Built(ui, board) /\ fed \in 0 .. Len(ui.button)
  /\ at # "exited" => ShownOf(ui, suite, at = "popup")
  /\ at \in {"run", "popup"} => fed # 0 /\ ui.button[fed].show
  /\ at = "popup" => fed = Popup
  /\ drawn \in BOOLEAN /\ blocked \in BOOLEAN

\* Every point shows the topmost button there, or is known to be wrong, or a
\* child has drawn the view there.
RightAt(u, p) ==
  \/ u.screen[p] = Picture(u)[p]
  \/ Covers(u.invalid, p)
  \/ Topmost(u, p) # 0 /\ u.button[Topmost(u, p)].update
Overdrawn(u, p) == Covers(Layout.view, p) /\ u.screen[p][1] = View
Clean(u) == u.invalid = Empty /\ \A b \in 1 .. Len(u.button) : ~ u.button[b].update
PaintInv ==
  /\ \A p \in Points : RightAt(ui, p) \/ (drawn /\ Overdrawn(ui, p))
  /\ at \in {"loop", "popup"} => Clean(ui)

\* Only the button of the last press is active, and while it can be clicked it
\* is the one that the toolkit will release.
Actives(u) == {b \in 1 .. Len(u.button) : u.button[b].active}
PressInv ==
  /\ at = "loop"  => \A b \in Actives(ui) : b = ui.depressed /\ b = pressed.button /\ Listens(ui, b)
  /\ at = "popup" => ui.depressed = fed /\ \A b \in Actives(ui) : b \in Items /\ b = pressed.button
  /\ at = "run"   => ui.depressed = fed /\ Actives(ui) = {}

\* Until a test sleeps the program hears what is touched while it listens, as it
\* is touched, and nothing of what is touched while a test runs.
Seen(b) == {b} \cup IF drawn THEN {View} ELSE {}
Heard ==
  /\ Len(samples) <= 1
  /\ \A i \in 1 .. Len(samples) :
       samples[i].when = at /\ samples[i].seen \in Seen(Topmost(ui, samples[i].p))
Told == pressed.sample.when # "run" /\ pressed.sample.seen \in Seen(pressed.button)
HeardInv ==
  ~ blocked =>
    /\ at \in {"loop", "popup"} => Heard /\ (Actives(ui) # {} => Told)
    /\ at = "run" /\ samples # <<>> =>
         Main # <<>> /\ Main[1].op \in {"wait", "waitchild", "block"}
    /\ at = "run" => Blocks(Main)

OperatorInv == PressInv /\ HeardInv /\ AsPressed
-----------------------------------------------------------------------------
(***************************************************************************)
(* Loops, and the largest of a set.                                        *)
(***************************************************************************)
\* What a loop computes: every iteration is the step applied to the one before.
Ran(f, step, x) == f[0] = x /\ \A i \in 1 .. Len(step) : f[i] = step[i][f[i - 1]]

\* The loop is the function it is said to be.
LEMMA IteratesStep ==
  ASSUME NEW X, NEW x \in X, NEW step \in Seq([X -> X])
  PROVE  Iterates(step, x) \in [0 .. Len(step) -> X] /\ Ran(Iterates(step, x), step, x)
<1> DEFINE n == Len(step)
           Runs(g, m) == g \in [0 .. m -> X] /\ g[0] = x
                         /\ \A i \in 1 .. m : g[i] = step[i][g[i - 1]]
           Bad == {m \in Nat : m <= n /\ ~ \E g : Runs(g, m)}
           Loop(g) == [i \in 0 .. n |-> IF i = 0 THEN x ELSE step[i][g[i - 1]]]
<1>0. n \in Nat /\ \A i \in 1 .. n : step[i] \in [X -> X]
  OBVIOUS
<1>1. ASSUME Bad # {} PROVE FALSE
  <2>1. PICK m \in Bad : \A k \in Bad : m <= k
    BY <1>1, LeastNat
  <2>2. m # 0
    <3>1. Runs([i \in 0 .. 0 |-> x], 0)
      OBVIOUS
    <3> QED
      BY <3>1
  <2>3. m - 1 \in Nat /\ m - 1 <= n /\ m \in Nat /\ m <= n
    BY <2>2, <1>0
  <2>4. PICK g : Runs(g, m - 1)
    <3>1. ASSUME m - 1 \in Bad PROVE FALSE
      <4> HIDE DEF Bad
      <4> QED
        BY <2>1, <2>3, <3>1
    <3> QED
      BY <3>1, <2>3
  <2> DEFINE h == [i \in 0 .. m |-> IF i = m THEN step[m][g[m - 1]] ELSE g[i]]
  <2>5. step[m] \in [X -> X] /\ g[m - 1] \in X
    BY <1>0, <2>2, <2>3, <2>4
  <2>6. h \in [0 .. m -> X] /\ h[0] = x
    BY <2>2, <2>3, <2>4, <2>5
  <2>7. ASSUME NEW i \in 1 .. m PROVE h[i] = step[i][h[i - 1]]
    <3>1. i - 1 \in 0 .. m - 1 /\ i - 1 # m /\ i - 1 \in 0 .. m
      BY <2>3
    <3>2. h[i - 1] = g[i - 1]
      BY <3>1
    <3>3. CASE i = m
      BY <3>2, <3>3
    <3>4. CASE i # m
      <4>1. i \in 1 .. m - 1 /\ h[i] = g[i]
        BY <3>4, <2>3
      <4> QED
        BY <4>1, <3>2, <2>4
    <3> QED
      BY <3>3, <3>4
  <2>8. Runs(h, m)
    BY <2>6, <2>7
  <2> HIDE DEF h, Runs
  <2> QED
    BY <2>8, <2>1
<1>2. PICK g : Runs(g, n)
  BY <1>0, <1>1
<1>3. g = Loop(g)
  BY <1>0, <1>2
<1> DEFINE f == Iterates(step, x)
<1>4. f = Loop(f)
  <2>1. f = CHOOSE h : h = Loop(h)
    BY DEF Iterates
  <2> HIDE DEF f, Loop
  <2> QED
    BY <2>1, <1>3
<1>5. /\ DOMAIN f = 0 .. n /\ f[0] = x
      /\ \A i \in 1 .. n : f[i] = step[i][f[i - 1]]
  <2>1. DOMAIN Loop(f) = 0 .. n /\ Loop(f)[0] = x
        /\ \A i \in 1 .. n : Loop(f)[i] = step[i][f[i - 1]]
    <3> HIDE DEF f
    <3> QED
      BY <1>0
  <2> HIDE DEF f, Loop
  <2> QED
    BY <1>4, <2>1
<1> HIDE DEF f
<1>6. ASSUME NEW i \in 0 .. n PROVE f[i] \in X
  <2> DEFINE Off == {k \in Nat : k <= n /\ f[k] \notin X}
  <2>1. ASSUME Off # {} PROVE FALSE
    <3>1. PICK k \in Off : \A j \in Off : k <= j
      BY <2>1, LeastNat
    <3>2. k # 0 /\ k \in 1 .. n
      BY <3>1, <1>5, <1>0
    <3>3. k - 1 \in Nat /\ k - 1 <= n /\ f[k - 1] \in X
      BY <3>1, <3>2, <1>0
    <3>4. f[k] \in X
      BY <3>2, <3>3, <1>5, <1>0
    <3> QED
      BY <3>1, <3>4
  <2> QED
    BY <2>1, <1>0
<1>7. f = [i \in 0 .. n |-> f[i]]
  <2>1. f = Loop(f) /\ Loop(f) = [i \in DOMAIN Loop(f) |-> Loop(f)[i]]
    BY <1>4
  <2> HIDE DEF Loop
  <2> QED
    BY <2>1, <1>5
<1>8. f \in [0 .. n -> X]
  BY <1>6, <1>7
<1>9. Ran(f, step, x)
  BY <1>5 DEF Ran
<1> QED
  BY <1>8, <1>9 DEF f
-----------------------------------------------------------------------------
(***************************************************************************)
(* The programs.                                                           *)
(***************************************************************************)
\* A step and its parts.
LEMMA StepOf ==
  /\ \A x, y : S(x, y).op = x /\ S(x, y).arg = y
  /\ \A x : Do(x).op = x /\ Do(x).arg = "none"
  /\ \A x \in Ops, y \in Args : S(x, y) \in AnyStep
  /\ \A x \in Ops : Do(x) \in AnyStep
<1>1. \A x, y : S(x, y).op = x /\ S(x, y).arg = y
  BY DEF S
<1>2. \A x : Do(x).op = x /\ Do(x).arg = "none"
  BY DEF S, Do
<1>3. \A x \in Ops, y \in Args : S(x, y) \in AnyStep
  BY DEF S, AnyStep
<1>4. "none" \in Args
  BY DEF Args
<1>5. \A x \in Ops : Do(x) \in AnyStep
  BY <1>3, <1>4 DEF Do
<1> QED
  BY <1>1, <1>2, <1>3, <1>5

\* A program of plain steps.
LEMMA PlainGood == ASSUME NEW p \in Seq(PlainStep) PROVE p \in Good
<1>1. PlainStep \subseteq TestStep
  BY DEF PlainStep, TestStep, PlainOps, FileOps, Children
<1>2. p \in Seq(TestStep)
  BY <1>1
<1>3. \A k \in 1 .. Len(p) : p[k] \in PlainStep
  OBVIOUS
<1>4. \A k \in 1 .. Len(p) : p[k].op \in {"wait", "block", "text", "must", "need", "fork"}
                              /\ (p[k].op = "fork" => p[k].arg \in {"key", "norflash", "finalimg"})
  BY <1>3 DEF PlainStep
<1>5. Orderly(p)
  BY <1>4 DEF Orderly, Forks, Plays, Judges, Is, Players, Loops
<1>6. Whole(p)
  BY <1>4 DEF Whole, Is, Blocks, Has
<1> QED
  BY <1>2, <1>5, <1>6 DEF Good

\* The steps of the plain tests.
LEMMA PlainSteps ==
  /\ Do("wait") \in PlainStep /\ Do("block") \in PlainStep /\ Do("text") \in PlainStep
  /\ \A x \in Texts : S("text", x) \in PlainStep
  /\ \A f \in Files : S("need", f) \in PlainStep
  /\ S("must", "brightness") \in PlainStep
  /\ \A f \in {"key", "norflash", "finalimg"} : S("fork", f) \in PlainStep
<1>1. \A x \in {"wait", "block", "text", "must", "need", "fork"} : x \in Ops
  BY DEF Ops, PlainOps, FileOps
<1>2. /\ \A y \in Texts \cup Files \cup {"brightness"} : y \in Args
      /\ \A y \in {"key", "norflash", "finalimg"} : y \in Args
  BY DEF Args, Children
<1> QED
  BY <1>1, <1>2, StepOf DEF PlainStep

\* What gsm_on_test does, in both tests that call it.
LEMMA GsmOnTest ==
  LET p == gsm_on_test
  IN  /\ p \in Seq(AnyStep) /\ Len(p) <= 5 /\ Len(p) >= 5
      /\ p[1] = Do("block") /\ p[2] = S("open", "mac") /\ p[3] = S("fill", "mac")
      /\ p[4] = S("need", "mac") /\ p[5] = S("judge", "mac")
<1>1. /\ Do("block") \in AnyStep /\ S("open", "mac") \in AnyStep /\ S("fill", "mac") \in AnyStep
      /\ S("need", "mac") \in AnyStep /\ S("judge", "mac") \in AnyStep
  BY StepOf DEF Ops, PlainOps, FileOps, Args, Files
<1> QED
  BY <1>1 DEF gsm_on_test, Listing, Report

\* The steps of do_audio_receiver_test are in order.
LEMMA ReceiverGood == do_audio_receiver_test \in Good
<1> DEFINE p == do_audio_receiver_test
<1>1. /\ p \in Seq(AnyStep) /\ Len(p) <= 2 /\ Len(p) >= 2
      /\ p[1] = S("fork", "play_receiver") /\ p[2] = Do("wait")
  BY StepOf DEF do_audio_receiver_test, Ops, PlainOps, FileOps, Args, Files, Texts, Quiet, Children
<1> HIDE DEF p
<1>2. p \in Seq(TestStep)
  <2>1. \A k \in 1 .. Len(p) : p[k] \in TestStep
    BY <1>1, StepOf DEF TestStep, PlainOps, FileOps, Files, Children
  <2> QED
    BY <1>1, <2>1
<1>3. Orderly(p)
  <2>1. Forks(p)
    BY <1>1, StepOf DEF Forks, Is, Resets
  <2>2. Plays(p)
    BY <1>1, StepOf DEF Plays, Is, Players, Loops, Quiet, Recovers
  <2>3. Judges(p)
    BY <1>1, StepOf DEF Judges, Is, Resets
  <2> QED
    BY <2>1, <2>2, <2>3 DEF Orderly
<1>4. ASSUME NEW f \in Files, NEW k \in 1 .. Len(p), Is(p[k], "judge", f) PROVE ~ Unreset(p, f)
  BY <1>1, <1>4, StepOf DEF Is, Resets, Unreset
<1>5. Has(p, "fork", "bt_scan") => ~ Unreset(p, "bt_log")
  BY <1>1, StepOf DEF Has, Is, Resets, Unreset
<1>6. Whole(p)
  BY <1>1, <1>4, <1>5, StepOf DEF Whole, Is, Blocks, Has
<1> QED
  BY <1>2, <1>3, <1>6 DEF Good, p

\* The steps of do_audio_speaker_test are in order.
LEMMA SpeakerGood == do_audio_speaker_test \in Good
<1> DEFINE p == do_audio_speaker_test
<1>1. /\ p \in Seq(AnyStep) /\ Len(p) <= 2 /\ Len(p) >= 2
      /\ p[1] = S("fork", "play_speaker") /\ p[2] = Do("wait")
  BY StepOf DEF do_audio_speaker_test, Ops, PlainOps, FileOps, Args, Files, Texts, Quiet, Children
<1> HIDE DEF p
<1>2. p \in Seq(TestStep)
  <2>1. \A k \in 1 .. Len(p) : p[k] \in TestStep
    BY <1>1, StepOf DEF TestStep, PlainOps, FileOps, Files, Children
  <2> QED
    BY <1>1, <2>1
<1>3. Orderly(p)
  <2>1. Forks(p)
    BY <1>1, StepOf DEF Forks, Is, Resets
  <2>2. Plays(p)
    BY <1>1, StepOf DEF Plays, Is, Players, Loops, Quiet, Recovers
  <2>3. Judges(p)
    BY <1>1, StepOf DEF Judges, Is, Resets
  <2> QED
    BY <2>1, <2>2, <2>3 DEF Orderly
<1>4. ASSUME NEW f \in Files, NEW k \in 1 .. Len(p), Is(p[k], "judge", f) PROVE ~ Unreset(p, f)
  BY <1>1, <1>4, StepOf DEF Is, Resets, Unreset
<1>5. Has(p, "fork", "bt_scan") => ~ Unreset(p, "bt_log")
  BY <1>1, StepOf DEF Has, Is, Resets, Unreset
<1>6. Whole(p)
  BY <1>1, <1>4, <1>5, StepOf DEF Whole, Is, Blocks, Has
<1> QED
  BY <1>2, <1>3, <1>6 DEF Good, p

\* The steps of do_audio_loopback_earphone_test are in order.
LEMMA EarphoneGood == do_audio_loopback_earphone_test \in Good
<1> DEFINE p == do_audio_loopback_earphone_test
<1>1. /\ p \in Seq(AnyStep) /\ Len(p) <= 3 /\ Len(p) >= 3
      /\ p[1] = S("fork", "loopback_earphone") /\ p[2] = Do("wait")
      /\ p[3] = S("path", "speaker")
  BY StepOf DEF do_audio_loopback_earphone_test, Ops, PlainOps, FileOps, Args, Files, Texts,
     Quiet, Children
<1> HIDE DEF p
<1>2. p \in Seq(TestStep)
  <2>1. \A k \in 1 .. Len(p) : p[k] \in TestStep
    BY <1>1, StepOf DEF TestStep, PlainOps, FileOps, Files, Children
  <2> QED
    BY <1>1, <2>1
<1>3. Orderly(p)
  <2>1. Forks(p)
    BY <1>1, StepOf DEF Forks, Is, Resets
  <2>2. Plays(p)
    <3>1. Recovers(p)
      BY <1>1, StepOf DEF Is, Recovers
    <3> QED
      BY <1>1, <3>1, StepOf DEF Plays, Players, Loops, Quiet
  <2>3. Judges(p)
    BY <1>1, StepOf DEF Judges, Is, Resets
  <2> QED
    BY <2>1, <2>2, <2>3 DEF Orderly
<1>4. ASSUME NEW f \in Files, NEW k \in 1 .. Len(p), Is(p[k], "judge", f) PROVE ~ Unreset(p, f)
  BY <1>1, <1>4, StepOf DEF Is, Resets, Unreset
<1>5. Has(p, "fork", "bt_scan") => ~ Unreset(p, "bt_log")
  BY <1>1, StepOf DEF Has, Is, Resets, Unreset
<1>6. Whole(p)
  BY <1>1, <1>4, <1>5, StepOf DEF Whole, Is, Blocks, Has
<1> QED
  BY <1>2, <1>3, <1>6 DEF Good, p

\* The steps of do_audio_loopback_earmic_speaker_test are in order.
LEMMA EarmicGood == do_audio_loopback_earmic_speaker_test \in Good
<1> DEFINE p == do_audio_loopback_earmic_speaker_test
<1>1. /\ p \in Seq(AnyStep) /\ Len(p) <= 3 /\ Len(p) >= 3
      /\ p[1] = S("fork", "loopback_earmic") /\ p[2] = Do("wait") /\ p[3] = S("path", "speaker")
  BY StepOf DEF do_audio_loopback_earmic_speaker_test, Ops, PlainOps, FileOps, Args, Files, Texts,
     Quiet, Children
<1> HIDE DEF p
<1>2. p \in Seq(TestStep)
  <2>1. \A k \in 1 .. Len(p) : p[k] \in TestStep
    BY <1>1, StepOf DEF TestStep, PlainOps, FileOps, Files, Children
  <2> QED
    BY <1>1, <2>1
<1>3. Orderly(p)
  <2>1. Forks(p)
    BY <1>1, StepOf DEF Forks, Is, Resets
  <2>2. Plays(p)
    <3>1. Recovers(p)
      BY <1>1, StepOf DEF Is, Recovers
    <3> QED
      BY <1>1, <3>1, StepOf DEF Plays, Players, Loops, Quiet
  <2>3. Judges(p)
    BY <1>1, StepOf DEF Judges, Is, Resets
  <2> QED
    BY <2>1, <2>2, <2>3 DEF Orderly
<1>4. ASSUME NEW f \in Files, NEW k \in 1 .. Len(p), Is(p[k], "judge", f) PROVE ~ Unreset(p, f)
  BY <1>1, <1>4, StepOf DEF Is, Resets, Unreset
<1>5. Has(p, "fork", "bt_scan") => ~ Unreset(p, "bt_log")
  BY <1>1, StepOf DEF Has, Is, Resets, Unreset
<1>6. Whole(p)
  BY <1>1, <1>4, <1>5, StepOf DEF Whole, Is, Blocks, Has
<1> QED
  BY <1>2, <1>3, <1>6 DEF Good, p

\* The steps of do_bt_on_test are in order.
LEMMA BtOnGood == do_bt_on_test \in Good
<1> DEFINE p == do_bt_on_test
<1>1. /\ p \in Seq(AnyStep) /\ Len(p) <= 8 /\ Len(p) >= 8
      /\ p[1] = S("must", "bt_power") /\ p[2] = Do("block") /\ p[3] = S("must", "bt_reset")
      /\ p[4] = Do("power") /\ p[5] = S("block", "hciconfig") /\ p[6] = S("open", "bt_mac")
      /\ p[7] = S("need", "bt_mac") /\ p[8] = S("judge", "bt_mac")
  BY StepOf DEF do_bt_on_test, bt_mac_address, Report, Ops, PlainOps, FileOps, Args, Files, Texts,
     Quiet, Children
<1> HIDE DEF p
<1>2. p \in Seq(TestStep)
  <2>1. \A k \in 1 .. Len(p) : p[k] \in TestStep
    BY <1>1, StepOf DEF TestStep, PlainOps, FileOps, Files, Children
  <2> QED
    BY <1>1, <2>1
<1>3. Orderly(p)
  <2>1. Forks(p)
    BY <1>1, StepOf DEF Forks, Is, Resets
  <2>2. Plays(p)
    BY <1>1, StepOf DEF Plays, Is, Players, Loops, Quiet, Recovers
  <2>3. Judges(p)
    BY <1>1, StepOf DEF Judges, Is, Resets
  <2> QED
    BY <2>1, <2>2, <2>3 DEF Orderly
<1>4. ASSUME NEW f \in Files, NEW k \in 1 .. Len(p), Is(p[k], "judge", f) PROVE ~ Unreset(p, f)
  BY <1>1, <1>4, StepOf DEF Is, Resets, Unreset
<1>5. Has(p, "fork", "bt_scan") => ~ Unreset(p, "bt_log")
  BY <1>1, StepOf DEF Has, Is, Resets, Unreset
<1>6. Whole(p)
  BY <1>1, <1>4, <1>5, StepOf DEF Whole, Is, Blocks, Has
<1> QED
  BY <1>2, <1>3, <1>6 DEF Good, p

\* The steps of do_bt_scan_test are in order.
LEMMA ScanGood == do_bt_scan_test \in Good
<1> DEFINE p == do_bt_scan_test
<1>1. /\ p \in Seq(AnyStep) /\ Len(p) <= 5 /\ Len(p) >= 5
      /\ p[1] = S("unlink", "bt_log") /\ p[2] = S("fork", "bt_scan") /\ p[3] = Do("waitchild")
      /\ p[4] = S("need", "bt_log") /\ p[5] = S("judge", "bt_log")
  BY StepOf DEF do_bt_scan_test, Report, Ops, PlainOps, FileOps, Args, Files, Texts, Quiet, Children
<1> HIDE DEF p
<1>2. p \in Seq(TestStep)
  <2>1. \A k \in 1 .. Len(p) : p[k] \in TestStep
    BY <1>1, StepOf DEF TestStep, PlainOps, FileOps, Files, Children
  <2> QED
    BY <1>1, <2>1
<1>3. Orderly(p)
  <2>1. Forks(p)
    BY <1>1, StepOf DEF Forks, Is, Resets
  <2>2. Plays(p)
    BY <1>1, StepOf DEF Plays, Is, Players, Loops, Quiet, Recovers
  <2>3. Judges(p)
    BY <1>1, StepOf DEF Judges, Is, Resets
  <2> QED
    BY <2>1, <2>2, <2>3 DEF Orderly
<1>4. ASSUME NEW f \in Files, NEW k \in 1 .. Len(p), Is(p[k], "judge", f) PROVE ~ Unreset(p, f)
  BY <1>1, <1>4, StepOf DEF Is, Resets, Unreset
<1>5. Has(p, "fork", "bt_scan") => ~ Unreset(p, "bt_log")
  BY <1>1, StepOf DEF Has, Is, Resets, Unreset
<1>6. Whole(p)
  BY <1>1, <1>4, <1>5, StepOf DEF Whole, Is, Blocks, Has
<1> QED
  BY <1>2, <1>3, <1>6 DEF Good, p

\* The steps of do_gsm_dial_test are in order.
LEMMA DialGood == do_gsm_dial_test \in Good
<1> DEFINE p == do_gsm_dial_test
<1>1. /\ p \in Seq(AnyStep) /\ Len(p) <= 10 /\ Len(p) >= 10
      /\ p[1] = S("unlink", "gsm-progress") /\ p[2] = S("text", "ModemOn") /\ p[3] = Do("block")
      /\ p[4] = S("path", "gsm_receiver") /\ p[5] = S("fork", "dial") /\ p[6] = Do("wait")
      /\ p[7] = S("kill", "dial") /\ p[8] = S("judge", "gsm-progress") /\ p[9] = Do("block")
      /\ p[10] = S("path", "speaker")
  BY StepOf DEF do_gsm_dial_test, Ops, PlainOps, FileOps, Args, Files, Texts, Quiet, Children
<1> HIDE DEF p
<1>o. /\ Len(p) = 10 /\ p[1].op = "unlink" /\ p[1].arg = "gsm-progress"
      /\ p[2].op = "text" /\ p[3].op = "block" /\ p[4].op = "path" /\ p[5].op = "fork"
      /\ p[5].arg = "dial" /\ p[6].op = "wait" /\ p[7].op = "kill" /\ p[7].arg = "dial"
      /\ p[8].op = "judge" /\ p[8].arg = "gsm-progress" /\ p[9].op = "block"
      /\ p[4].arg = "gsm_receiver" /\ p[10].op = "path" /\ p[10].arg = "speaker"
  <2>1. /\ p[1].op = "unlink" /\ p[1].arg = "gsm-progress" /\ p[2].op = "text"
        /\ p[3].op = "block" /\ p[4].op = "path" /\ p[4].arg = "gsm_receiver"
    BY <1>1, StepOf
  <2>2. /\ p[5].op = "fork" /\ p[5].arg = "dial" /\ p[6].op = "wait"
        /\ p[7].op = "kill" /\ p[7].arg = "dial"
    <3>1. p[5] = S("fork", "dial") /\ p[6] = Do("wait") /\ p[7] = S("kill", "dial")
      BY <1>1
    <3> QED
      BY <3>1, StepOf
  <2>3. /\ p[8].op = "judge" /\ p[8].arg = "gsm-progress" /\ p[9].op = "block"
        /\ p[10].op = "path" /\ p[10].arg = "speaker"
    <3>1. p[8] = S("judge", "gsm-progress") /\ p[9] = Do("block") /\ p[10] = S("path", "speaker")
      BY <1>1
    <3>2. p[8].op = "judge" /\ p[8].arg = "gsm-progress"
      BY <3>1, StepOf
    <3>3. p[9].op = "block"
      BY <3>1, StepOf
    <3>4. p[10].op = "path" /\ p[10].arg = "speaker"
      BY <3>1, StepOf
    <3> QED
      BY <3>2, <3>3, <3>4
  <2>4. Len(p) = 10
    <3>1. p \in Seq(AnyStep) /\ Len(p) <= 10 /\ Len(p) >= 10
      BY <1>1
    <3> DEFINE l == Len(p)
    <3>2. l \in Nat /\ l <= 10 /\ l >= 10
      BY <3>1
    <3> HIDE DEF l
    <3>3. l = 10
      BY <3>2
    <3> QED
      BY <3>3 DEF l
  <2> QED
    BY <2>1, <2>2, <2>3, <2>4
<1>d. ASSUME NEW k \in 1 .. Len(p)
      PROVE  /\ p[k].op = "fork" => k = 5
             /\ p[k].op \notin {"spawn", "fill", "open", "must", "need"}
             /\ p[k].op = "path" => k = 4 \/ k = 10
             /\ p[k].op = "judge" => k = 8 /\ \A j \in k .. Len(p) : p[j].op # "unlink"
  <2>1. k = 1 \/ k = 2 \/ k = 3 \/ k = 4 \/ k = 5 \/ k = 6 \/ k = 7 \/ k = 8 \/ k = 9 \/ k = 10
    BY <1>o
  <2>2. \A j \in 8 .. Len(p) : j = 8 \/ j = 9 \/ j = 10
    BY <1>o
  <2>3. /\ p[k].op = "fork" => k = 5
        /\ p[k].op \notin {"spawn", "fill", "open", "must", "need"}
        /\ p[k].op = "path" => k = 4 \/ k = 10
        /\ p[k].op = "judge" => k = 8
    BY <1>o, <2>1
  <2>4. \A j \in 8 .. Len(p) : p[j].op # "unlink"
    BY <1>o, <2>2
  <2> QED
    BY <2>3, <2>4
<1>2. p \in Seq(TestStep)
  <2>1. \A k \in 1 .. Len(p) : p[k] \in TestStep
    BY <1>1, StepOf DEF TestStep, PlainOps, FileOps, Files, Children
  <2> QED
    BY <1>1, <2>1
<1>3. Orderly(p)
  <2>1. Forks(p)
    BY <1>d, <1>o DEF Forks, Is
  <2>2. Plays(p)
    <3>1. Recovers(p)
      <4>1. p # <<>>
        BY <1>1
      <4>2. Is(p[Len(p)], "path", "speaker")
        BY <1>o DEF Is
      <4> QED
        BY <4>1, <4>2, <1>d DEF Recovers
    <3>2. ASSUME NEW k \in 1 .. Len(p), p[k].op = "fork"
          PROVE  k + 1 <= Len(p) /\ p[k + 1].op = "wait"
      BY <3>2, <1>d, <1>o
    <3>3. ASSUME NEW k \in 1 .. Len(p), p[k].op = "path", p[k].arg \notin Quiet
          PROVE  k < Len(p)
      BY <3>3, <1>d, <1>o DEF Quiet
    <3> QED
      BY <3>1, <3>2, <3>3 DEF Plays
  <2>3. Judges(p)
    BY <1>d, <1>o DEF Judges, Resets
  <2> QED
    BY <2>1, <2>2, <2>3 DEF Orderly
<1>4. ASSUME NEW f \in Files, NEW k \in 1 .. Len(p), Is(p[k], "judge", f) PROVE ~ Unreset(p, f)
  <2>1. f = "gsm-progress"
    BY <1>4, <1>d, <1>o DEF Is
  <2> QED
    BY <2>1, <1>o DEF Resets, Unreset
<1>5. Has(p, "fork", "bt_scan") => ~ Unreset(p, "bt_log")
  BY <1>d, <1>o DEF Has, Is
<1>6. Whole(p)
  <2>1. Has(p, "fork", "server") => p[1].op = "truncate"
    BY <1>d, <1>o DEF Has, Is
  <2>2. Blocks(p)
    BY <1>d DEF Blocks
  <2> QED
    BY <1>4, <1>5, <2>1, <2>2 DEF Whole
<1> QED
  BY <1>2, <1>3, <1>6 DEF Good, p

\* The steps of do_gsm_on_test are in order.
LEMMA GsmGood == do_gsm_on_test \in Good
<1> DEFINE p == do_gsm_on_test
<1>1. /\ p \in Seq(AnyStep) /\ Len(p) <= 8 /\ Len(p) >= 8
      /\ p[1] = S("text", "ModemOn") /\ p[2] = Do("block") /\ p[3] = S("fork", "protect")
      /\ p[4] = Do("block") /\ p[5] = S("open", "mac") /\ p[6] = S("fill", "mac")
      /\ p[7] = S("need", "mac") /\ p[8] = S("judge", "mac")
  BY GsmOnTest, StepOf DEF do_gsm_on_test, Ops, PlainOps, FileOps, Args, Files, Texts, Quiet,
     Children
<1> HIDE DEF p
<1>2. p \in Seq(TestStep)
  <2>1. \A k \in 1 .. Len(p) : p[k] \in TestStep
    BY <1>1, StepOf DEF TestStep, PlainOps, FileOps, Files, Children
  <2> QED
    BY <1>1, <2>1
<1>3. Orderly(p)
  <2>1. Forks(p)
    BY <1>1, StepOf DEF Forks, Is, Resets
  <2>2. Plays(p)
    BY <1>1, StepOf DEF Plays, Is, Players, Loops, Quiet, Recovers
  <2>3. Judges(p)
    BY <1>1, StepOf DEF Judges, Is, Resets
  <2> QED
    BY <2>1, <2>2, <2>3 DEF Orderly
<1>4. ASSUME NEW f \in Files, NEW k \in 1 .. Len(p), Is(p[k], "judge", f) PROVE ~ Unreset(p, f)
  BY <1>1, <1>4, StepOf DEF Is, Resets, Unreset
<1>5. Has(p, "fork", "bt_scan") => ~ Unreset(p, "bt_log")
  BY <1>1, StepOf DEF Has, Is, Resets, Unreset
<1>6. Whole(p)
  BY <1>1, <1>4, <1>5, StepOf DEF Whole, Is, Blocks, Has
<1> QED
  BY <1>2, <1>3, <1>6 DEF Good, p

\* The steps of do_wifi_on_test are in order.
LEMMA WifiOnGood == do_wifi_on_test \in Good
<1> DEFINE p == do_wifi_on_test
<1>1. /\ p \in Seq(AnyStep) /\ Len(p) <= 6 /\ Len(p) >= 6
      /\ p[1] = S("block", "modprobe") /\ p[2] = Do("block") /\ p[3] = S("open", "mac")
      /\ p[4] = S("fill", "mac") /\ p[5] = S("need", "mac") /\ p[6] = S("judge", "mac")
  BY GsmOnTest, StepOf DEF do_wifi_on_test, Ops, PlainOps, FileOps, Args, Files, Texts, Quiet,
     Children
<1> HIDE DEF p
<1>2. p \in Seq(TestStep)
  <2>1. \A k \in 1 .. Len(p) : p[k] \in TestStep
    BY <1>1, StepOf DEF TestStep, PlainOps, FileOps, Files, Children
  <2> QED
    BY <1>1, <2>1
<1>3. Orderly(p)
  <2>1. Forks(p)
    BY <1>1, StepOf DEF Forks, Is, Resets
  <2>2. Plays(p)
    BY <1>1, StepOf DEF Plays, Is, Players, Loops, Quiet, Recovers
  <2>3. Judges(p)
    BY <1>1, StepOf DEF Judges, Is, Resets
  <2> QED
    BY <2>1, <2>2, <2>3 DEF Orderly
<1>4. ASSUME NEW f \in Files, NEW k \in 1 .. Len(p), Is(p[k], "judge", f) PROVE ~ Unreset(p, f)
  BY <1>1, <1>4, StepOf DEF Is, Resets, Unreset
<1>5. Has(p, "fork", "bt_scan") => ~ Unreset(p, "bt_log")
  BY <1>1, StepOf DEF Has, Is, Resets, Unreset
<1>6. Whole(p)
  BY <1>1, <1>4, <1>5, StepOf DEF Whole, Is, Blocks, Has
<1> QED
  BY <1>2, <1>3, <1>6 DEF Good, p

\* The steps of do_wifi_test are in order.
LEMMA WifiGood == do_wifi_test \in Good
<1> DEFINE p == do_wifi_test
<1>1. /\ p \in Seq(AnyStep) /\ Len(p) <= 7 /\ Len(p) >= 7
      /\ p[1] = Do("text") /\ p[2] = S("unlink", "wlan-progress") /\ p[3] = S("spawn", "wifi")
      /\ p[4] = Do("wait") /\ p[5] = S("need", "wifi_log") /\ p[6] = S("kill", "script")
      /\ p[7] = S("judge", "wlan-progress")
  BY StepOf DEF do_wifi_test, Ops, PlainOps, FileOps, Args, Files, Texts, Quiet, Children
<1> HIDE DEF p
<1>2. p \in Seq(TestStep)
  <2>1. \A k \in 1 .. Len(p) : p[k] \in TestStep
    BY <1>1, StepOf DEF TestStep, PlainOps, FileOps, Files, Children
  <2> QED
    BY <1>1, <2>1
<1>3. Orderly(p)
  <2>1. Forks(p)
    BY <1>1, StepOf DEF Forks, Is, Resets
  <2>2. Plays(p)
    BY <1>1, StepOf DEF Plays, Is, Players, Loops, Quiet, Recovers
  <2>3. Judges(p)
    BY <1>1, StepOf DEF Judges, Is, Resets
  <2> QED
    BY <2>1, <2>2, <2>3 DEF Orderly
<1>4. ASSUME NEW f \in Files, NEW k \in 1 .. Len(p), Is(p[k], "judge", f) PROVE ~ Unreset(p, f)
  BY <1>1, <1>4, StepOf DEF Is, Resets, Unreset
<1>5. Has(p, "fork", "bt_scan") => ~ Unreset(p, "bt_log")
  BY <1>1, StepOf DEF Has, Is, Resets, Unreset
<1>6. Whole(p)
  BY <1>1, <1>4, <1>5, StepOf DEF Whole, Is, Blocks, Has
<1> QED
  BY <1>2, <1>3, <1>6 DEF Good, p

\* The steps of do_hdq_test are in order.
LEMMA HdqGood == do_hdq_test \in Good
<1> DEFINE p == do_hdq_test
<1>1. /\ p \in Seq(AnyStep) /\ Len(p) <= 5 /\ Len(p) >= 5
      /\ p[1] = Do("block") /\ p[2] = S("open", "hdq_log") /\ p[3] = S("fill", "hdq_log")
      /\ p[4] = S("need", "hdq_log") /\ p[5] = S("judge", "hdq_log")
  BY StepOf DEF do_hdq_test, Listing, Report, Ops, PlainOps, FileOps, Args, Files, Texts, Quiet,
     Children
<1> HIDE DEF p
<1>2. p \in Seq(TestStep)
  <2>1. \A k \in 1 .. Len(p) : p[k] \in TestStep
    BY <1>1, StepOf DEF TestStep, PlainOps, FileOps, Files, Children
  <2> QED
    BY <1>1, <2>1
<1>3. Orderly(p)
  <2>1. Forks(p)
    BY <1>1, StepOf DEF Forks, Is, Resets
  <2>2. Plays(p)
    BY <1>1, StepOf DEF Plays, Is, Players, Loops, Quiet, Recovers
  <2>3. Judges(p)
    BY <1>1, StepOf DEF Judges, Is, Resets
  <2> QED
    BY <2>1, <2>2, <2>3 DEF Orderly
<1>4. ASSUME NEW f \in Files, NEW k \in 1 .. Len(p), Is(p[k], "judge", f) PROVE ~ Unreset(p, f)
  BY <1>1, <1>4, StepOf DEF Is, Resets, Unreset
<1>5. Has(p, "fork", "bt_scan") => ~ Unreset(p, "bt_log")
  BY <1>1, StepOf DEF Has, Is, Resets, Unreset
<1>6. Whole(p)
  BY <1>1, <1>4, <1>5, StepOf DEF Whole, Is, Blocks, Has
<1> QED
  BY <1>2, <1>3, <1>6 DEF Good, p

\* The steps of do_gsm_log_on_test are in order.
LEMMA LogGood == do_gsm_log_on_test \in Good
<1> DEFINE p == do_gsm_log_on_test
<1>1. /\ p \in Seq(AnyStep) /\ Len(p) <= 4 /\ Len(p) >= 4
      /\ p[1] = Do("truncate") /\ p[2] = Do("copy") /\ p[3] = S("fork", "server")
      /\ p[4] = S("text", "WebServerReady")
  BY StepOf DEF do_gsm_log_on_test, Ops, PlainOps, FileOps, Args, Files, Texts, Quiet, Children
<1> HIDE DEF p
<1>2. p \in Seq(TestStep)
  <2>1. \A k \in 1 .. Len(p) : p[k] \in TestStep
    BY <1>1, StepOf DEF TestStep, PlainOps, FileOps, Files, Children
  <2> QED
    BY <1>1, <2>1
<1>3. Orderly(p)
  <2>1. Forks(p)
    BY <1>1, StepOf DEF Forks, Is, Resets
  <2>2. Plays(p)
    BY <1>1, StepOf DEF Plays, Is, Players, Loops, Quiet, Recovers
  <2>3. Judges(p)
    BY <1>1, StepOf DEF Judges, Is, Resets
  <2> QED
    BY <2>1, <2>2, <2>3 DEF Orderly
<1>4. ASSUME NEW f \in Files, NEW k \in 1 .. Len(p), Is(p[k], "judge", f) PROVE ~ Unreset(p, f)
  BY <1>1, <1>4, StepOf DEF Is, Resets, Unreset
<1>5. Has(p, "fork", "bt_scan") => ~ Unreset(p, "bt_log")
  BY <1>1, StepOf DEF Has, Is, Resets, Unreset
<1>6. Whole(p)
  BY <1>1, <1>4, <1>5, StepOf DEF Whole, Is, Blocks, Has
<1> QED
  BY <1>2, <1>3, <1>6 DEF Good, p

\* The tests of plain steps.
LEMMA PlainTests ==
  /\ do_rgb_test \in Good
  /\ do_brightness_test \in Good
  /\ do_key911_test \in Good
  /\ do_keypower_test \in Good
  /\ do_norflash_test \in Good
  /\ do_view_version \in Good
  /\ do_dl_finalimage_test \in Good
  /\ do_suspend_test \in Good
  /\ do_battery_test \in Good
  /\ do_get_time \in Good
  /\ do_vibrator_test \in Good
<1>1. do_rgb_test \in Seq(PlainStep)
  BY PlainSteps DEF do_rgb_test, Texts
<1>2. do_brightness_test \in Seq(PlainStep)
  BY PlainSteps DEF do_brightness_test, Level, Texts
<1>3. do_key911_test \in Seq(PlainStep)
  BY PlainSteps DEF do_key911_test
<1>4. do_keypower_test \in Seq(PlainStep)
  BY PlainSteps DEF do_keypower_test
<1>5. do_norflash_test \in Seq(PlainStep)
  BY PlainSteps DEF do_norflash_test
<1>6. do_view_version \in Seq(PlainStep)
  BY PlainSteps DEF do_view_version, Texts
<1>7. do_dl_finalimage_test \in Seq(PlainStep)
  <2>1. \A k \in 1 .. 5 : Done[k] \in Files
    BY DEF Files
  <2>2. [k \in 1 .. 5 |-> S("need", Done[k])] \in Seq(PlainStep)
    BY <2>1, PlainSteps
  <2>3. /\ <<S("fork", "finalimg"), Do("wait")>> \in Seq(PlainStep)
        /\ <<S("text", "rootfsPass")>> \in Seq(PlainStep)
    BY PlainSteps DEF Texts
  <2> QED
    BY <2>2, <2>3 DEF do_dl_finalimage_test
<1>8. do_suspend_test \in Seq(PlainStep)
  BY PlainSteps DEF do_suspend_test, Texts
<1>9. do_battery_test \in Seq(PlainStep)
  BY PlainSteps DEF do_battery_test, Texts
<1>10. do_get_time \in Seq(PlainStep)
  BY PlainSteps DEF do_get_time
<1>11. do_vibrator_test \in Seq(PlainStep)
  BY PlainSteps DEF do_vibrator_test, Texts
<1> QED
  BY <1>1, <1>2, <1>3, <1>4, <1>5, <1>6, <1>7, <1>8, <1>9, <1>10, <1>11, PlainGood

\* What holds of all programs of two tables holds of all programs of both.
LEMMA JoinGood ==
  ASSUME NEW f, NEW g, \A t \in DOMAIN f : f[t] \in Good, \A t \in DOMAIN g : g[t] \in Good
  PROVE  \A t \in DOMAIN Join(f, g) : Join(f, g)[t] \in Good
BY DEF Join

\* Every program of the tables of tests is in order.
LEMMA TestsGood == \A t \in DOMAIN TestFunctions : TestFunctions[t] \in Good
<1> DEFINE OK(f) == \A t \in DOMAIN f : f[t] \in Good
<1>1. OK(audio_tests)
  BY EarmicGood, EarphoneGood, ReceiverGood, SpeakerGood DEF audio_tests
<1>2. OK(bt_tests)
  BY BtOnGood, ScanGood DEF bt_tests
<1>3. OK(gsm_tests)
  BY DialGood DEF gsm_tests
<1>4. OK(mac_address_tests)
  BY GsmGood, WifiOnGood DEF mac_address_tests
<1>5. OK(wifi_tests)
  BY WifiGood DEF wifi_tests
<1>6. OK(lcm_tests)
  BY PlainTests DEF lcm_tests
<1>7. OK(key_tests)
  BY PlainTests DEF key_tests
<1>8. OK(version_tests)
  BY PlainTests DEF version_tests
<1>9. OK(pmu_tests)
  BY HdqGood, PlainTests DEF pmu_tests
<1>10. OK(log_tests)
  BY LogGood, PlainTests DEF log_tests
<1>11. OK(log_tests_2)
  BY LogGood, PlainTests DEF log_tests_2
<1>12. OK(rtc_tests)
  BY PlainTests DEF rtc_tests
<1>13. OK(vibrator_tests)
  BY PlainTests DEF vibrator_tests
<1> HIDE DEF OK
<1>20. ASSUME NEW f, NEW g, OK(f), OK(g) PROVE OK(Join(f, g))
  BY <1>20, JoinGood DEF OK
<1> QED
  BY <1>1, <1>2, <1>3, <1>4, <1>5, <1>6, <1>7, <1>8, <1>9, <1>10, <1>11, <1>12, <1>13,
     <1>20 DEF TestFunctions, OK

\* Children of plain steps.
LEMMA PlainChild ==
  ASSUME NEW w, w # "bt_scan", NEW p \in Seq(AnyStep),
         \A k \in 1 .. Len(p) :
           \/ p[k].op \in {"wait", "text", "key"}
           \/ p[k].op = "make" /\ p[k].arg \in Files \ {"bt_log"}
  PROVE  p \in Seq(ChildStep(w)) /\ OrderlyChild(p, w)
<1>1. \A k \in 1 .. Len(p) : p[k] \in ChildStep(w)
  BY DEF ChildStep, ChildOps
<1>2. p \in Seq(ChildStep(w))
  BY <1>1
<1>3. OrderlyChild(p, w)
  BY DEF OrderlyChild
<1> QED
  BY <1>2, <1>3

\* The steps of audio_play_receiver are those of such a child.
LEMMA PlayReceiverChild ==
  ASSUME NEW p, p = audio_play_receiver
  PROVE  p \in Seq(ChildStep("play_receiver")) /\ OrderlyChild(p, "play_receiver") /\ Len(p) >= 2
<1>1. /\ p \in Seq(AnyStep) /\ Len(p) <= 2 /\ Len(p) >= 2
      /\ p[1] = S("path", "receiver") /\ p[2] = S("block", "aplay")
  BY StepOf DEF audio_play_receiver, Ops, PlainOps, FileOps, ChildOps, Args, Files, Quiet, Children
<1>2. \A k \in 1 .. Len(p) : p[k] \in ChildStep("play_receiver")
  BY <1>1, StepOf DEF ChildStep, ChildOps, Players, Loops, Quiet, Files
<1>3. p \in Seq(ChildStep("play_receiver"))
  BY <1>1, <1>2
<1>4. OrderlyChild(p, "play_receiver")
  BY <1>1, StepOf DEF OrderlyChild
<1> QED
  BY <1>1, <1>3, <1>4

\* The steps of audio_play_speaker are those of such a child.
LEMMA PlaySpeakerChild ==
  ASSUME NEW p, p = audio_play_speaker
  PROVE  p \in Seq(ChildStep("play_speaker")) /\ OrderlyChild(p, "play_speaker") /\ Len(p) >= 2
<1>1. /\ p \in Seq(AnyStep) /\ Len(p) <= 2 /\ Len(p) >= 2
      /\ p[1] = S("path", "speaker") /\ p[2] = S("block", "aplay")
  BY StepOf DEF audio_play_speaker, Ops, PlainOps, FileOps, ChildOps, Args, Files, Quiet, Children
<1>2. \A k \in 1 .. Len(p) : p[k] \in ChildStep("play_speaker")
  BY <1>1, StepOf DEF ChildStep, ChildOps, Players, Loops, Quiet, Files
<1>3. p \in Seq(ChildStep("play_speaker"))
  BY <1>1, <1>2
<1>4. OrderlyChild(p, "play_speaker")
  BY <1>1, StepOf DEF OrderlyChild
<1> QED
  BY <1>1, <1>3, <1>4

\* The steps of LoopbackEarphoneChild are those of such a child.
LEMMA LoopbackEarphoneChild ==
  ASSUME NEW p, p = <<S("path", "loopback_earphone")>>
  PROVE  p \in Seq(ChildStep("loopback_earphone")) /\ OrderlyChild(p, "loopback_earphone") /\ Len(p) >= 1
<1>1. /\ p \in Seq(AnyStep) /\ Len(p) <= 1 /\ Len(p) >= 1
      /\ p[1] = S("path", "loopback_earphone")
  BY StepOf DEF Ops, PlainOps, FileOps, ChildOps, Args, Files, Quiet, Children
<1>2. \A k \in 1 .. Len(p) : p[k] \in ChildStep("loopback_earphone")
  BY <1>1, StepOf DEF ChildStep, ChildOps, Players, Loops, Quiet, Files
<1>3. p \in Seq(ChildStep("loopback_earphone"))
  BY <1>1, <1>2
<1>4. OrderlyChild(p, "loopback_earphone")
  BY <1>1, StepOf DEF OrderlyChild
<1> QED
  BY <1>1, <1>3, <1>4

\* The steps of LoopbackEarmicChild are those of such a child.
LEMMA LoopbackEarmicChild ==
  ASSUME NEW p, p = <<S("path", "loopback_earmic")>>
  PROVE  p \in Seq(ChildStep("loopback_earmic")) /\ OrderlyChild(p, "loopback_earmic") /\ Len(p) >= 1
<1>1. /\ p \in Seq(AnyStep) /\ Len(p) <= 1 /\ Len(p) >= 1
      /\ p[1] = S("path", "loopback_earmic")
  BY StepOf DEF Ops, PlainOps, FileOps, ChildOps, Args, Files, Quiet, Children
<1>2. \A k \in 1 .. Len(p) : p[k] \in ChildStep("loopback_earmic")
  BY <1>1, StepOf DEF ChildStep, ChildOps, Players, Loops, Quiet, Files
<1>3. p \in Seq(ChildStep("loopback_earmic"))
  BY <1>1, <1>2
<1>4. OrderlyChild(p, "loopback_earmic")
  BY <1>1, StepOf DEF OrderlyChild
<1> QED
  BY <1>1, <1>3, <1>4

\* The steps of gsm_dial_test are those of such a child.
LEMMA DialChild ==
  ASSUME NEW p, p = gsm_dial_test
  PROVE  p \in Seq(ChildStep("dial")) /\ OrderlyChild(p, "dial") /\ Len(p) >= 2
<1>1. /\ p \in Seq(AnyStep) /\ Len(p) <= 2 /\ Len(p) >= 2
      /\ p[1] = S("open", "gsm-progress") /\ p[2] = S("fill", "gsm-progress")
  BY StepOf DEF gsm_dial_test, Ops, PlainOps, FileOps, ChildOps, Args, Files, Quiet, Children
<1>2. \A k \in 1 .. Len(p) : p[k] \in ChildStep("dial")
  BY <1>1, StepOf DEF ChildStep, ChildOps, Players, Loops, Quiet, Files
<1>3. p \in Seq(ChildStep("dial"))
  BY <1>1, <1>2
<1>4. OrderlyChild(p, "dial")
  BY <1>1, StepOf DEF OrderlyChild
<1> QED
  BY <1>1, <1>3, <1>4

\* The steps of setSSID are those of such a child.
LEMMA WifiChild ==
  ASSUME NEW p, p = setSSID
  PROVE  p \in Seq(ChildStep("script")) /\ OrderlyChild(p, "script") /\ Len(p) >= 2
<1>1. /\ p \in Seq(AnyStep) /\ Len(p) <= 6 /\ Len(p) >= 6
      /\ p[1] = S("open", "wlan-progress") /\ p[2] = S("try", "scan") /\ p[3] = S("try", "dhcp")
      /\ p[4] = S("open", "wifi_log") /\ p[5] = S("block", "iperf")
      /\ p[6] = S("append", "wlan-progress")
  BY StepOf DEF setSSID, Ops, PlainOps, FileOps, ChildOps, Args, Files, Quiet, Children
<1>2. \A k \in 1 .. Len(p) : p[k] \in ChildStep("script")
  BY <1>1, StepOf DEF ChildStep, ChildOps, Players, Loops, Quiet, Files
<1>3. p \in Seq(ChildStep("script"))
  BY <1>1, <1>2
<1>4. OrderlyChild(p, "script")
  BY <1>1, StepOf DEF OrderlyChild
<1> QED
  BY <1>1, <1>3, <1>4

\* The steps of Start_Server are those of such a child.
LEMMA ServerChild ==
  ASSUME NEW p, p = Start_Server
  PROVE  p \in Seq(ChildStep("server")) /\ OrderlyChild(p, "server") /\ Len(p) >= 2
<1>1. /\ p \in Seq(AnyStep) /\ Len(p) <= 2 /\ Len(p) >= 2
      /\ p[1] = Do("bind") /\ p[2] = Do("accept")
  BY StepOf DEF Start_Server, Ops, PlainOps, FileOps, ChildOps, Args, Files, Quiet, Children
<1>2. \A k \in 1 .. Len(p) : p[k] \in ChildStep("server")
  BY <1>1, StepOf DEF ChildStep, ChildOps, Players, Loops, Quiet, Files
<1>3. p \in Seq(ChildStep("server"))
  BY <1>1, <1>2
<1>4. OrderlyChild(p, "server")
  BY <1>1, StepOf DEF OrderlyChild
<1> QED
  BY <1>1, <1>3, <1>4

\* The steps of GiveResponse are those of such a child.
LEMMA RequestChild ==
  ASSUME NEW p, p = GiveResponse
  PROVE  p \in Seq(ChildStep("request")) /\ OrderlyChild(p, "request") /\ Len(p) >= 2
<1>1. /\ p \in Seq(AnyStep) /\ Len(p) <= 4 /\ Len(p) >= 4
      /\ p[1] = Do("stat") /\ p[2] = Do("lseek") /\ p[3] = Do("read") /\ p[4] = Do("send")
  BY StepOf DEF GiveResponse, Ops, PlainOps, FileOps, ChildOps, Args, Files, Quiet, Children
<1>2. \A k \in 1 .. Len(p) : p[k] \in ChildStep("request")
  BY <1>1, StepOf DEF ChildStep, ChildOps, Players, Loops, Quiet, Files
<1>3. p \in Seq(ChildStep("request"))
  BY <1>1, <1>2
<1>4. OrderlyChild(p, "request")
  BY <1>1, StepOf DEF OrderlyChild
<1> QED
  BY <1>1, <1>3, <1>4

\* The steps of bt_scan_test are those of such a child.
LEMMA ScanAgainChild ==
  LET p == bt_scan_test(TRUE) IN p \in Seq(ChildStep("bt_scan")) /\ OrderlyChild(p, "bt_scan") /\ Len(p) >= 2
<1> DEFINE p == bt_scan_test(TRUE)
<1>1. /\ p \in Seq(AnyStep) /\ Len(p) <= 2 /\ Len(p) >= 2
      /\ p[1] = S("open", "bt_log") /\ p[2] = S("fill", "bt_log")
  BY StepOf DEF bt_scan_test, Ops, PlainOps, FileOps, ChildOps, Args, Files, Quiet, Children
<1> HIDE DEF p
<1>2. \A k \in 1 .. Len(p) : p[k] \in ChildStep("bt_scan")
  BY <1>1, StepOf DEF ChildStep, ChildOps, Players, Loops, Quiet, Files
<1>3. p \in Seq(ChildStep("bt_scan"))
  BY <1>1, <1>2
<1>4. OrderlyChild(p, "bt_scan")
  BY <1>1, StepOf DEF OrderlyChild
<1>5. Len(p) >= 2
  BY <1>1
<1> QED
  BY <1>5, <1>3, <1>4 DEF p

\* The steps of bt_scan_test are those of such a child.
LEMMA ScanFirstChild ==
  LET p == bt_scan_test(FALSE) IN p \in Seq(ChildStep("bt_scan")) /\ OrderlyChild(p, "bt_scan") /\ Len(p) >= 2
<1> DEFINE p == bt_scan_test(FALSE)
<1>1. /\ p \in Seq(AnyStep) /\ Len(p) <= 5 /\ Len(p) >= 5
      /\ p[1] = S("set", "bt_power") /\ p[2] = Do("power") /\ p[3] = S("text", "bt_mac")
      /\ p[4] = S("open", "bt_log") /\ p[5] = S("fill", "bt_log")
  BY StepOf DEF bt_scan_test, Ops, PlainOps, FileOps, ChildOps, Args, Files, Quiet, Children
<1> HIDE DEF p
<1>2. \A k \in 1 .. Len(p) : p[k] \in ChildStep("bt_scan")
  BY <1>1, StepOf DEF ChildStep, ChildOps, Players, Loops, Quiet, Files
<1>3. p \in Seq(ChildStep("bt_scan"))
  BY <1>1, <1>2
<1>4. OrderlyChild(p, "bt_scan")
  BY <1>1, StepOf DEF OrderlyChild
<1>5. Len(p) >= 2
  BY <1>1
<1> QED
  BY <1>5, <1>3, <1>4 DEF p

\* Every child runs what its kind may run, in order.
LEMMA ChildrenGood ==
  /\ \A f \in Children, b \in BOOLEAN :
       /\ Child(f, b) \in Seq(ChildStep(f)) /\ OrderlyChild(Child(f, b), f)
       /\ Len(Child(f, b)) >= IF f = "bt_scan" THEN 2 ELSE 1
  /\ \A b \in BOOLEAN :
       /\ Child("wifi", b) \in Seq(ChildStep("script"))
       /\ OrderlyChild(Child("wifi", b), "script") /\ Len(Child("wifi", b)) >= 1
<1>0. ASSUME NEW b \in BOOLEAN
      PROVE  /\ Child("wifi", b) \in Seq(ChildStep("script"))
             /\ OrderlyChild(Child("wifi", b), "script") /\ Len(Child("wifi", b)) >= 1
  <2>1. Child("wifi", b) = setSSID
    BY DEF Child
  <2> QED
    BY <2>1, WifiChild
<1> DEFINE OK(f, b) == /\ Child(f, b) \in Seq(ChildStep(f)) /\ OrderlyChild(Child(f, b), f)
                       /\ Len(Child(f, b)) >= IF f = "bt_scan" THEN 2 ELSE 1
<1> SUFFICES ASSUME NEW b \in BOOLEAN, NEW f \in Children PROVE OK(f, b)
  BY <1>0
<1>1. CASE f \in Players
  BY <1>1, PlayReceiverChild, PlaySpeakerChild, LoopbackEarphoneChild, LoopbackEarmicChild
     DEF Child, Players, Loops
<1>2. CASE f \in {"dial", "server"}
  BY <1>2, DialChild, ServerChild DEF Child
<1>3. CASE f = "bt_scan"
  <2>1. b = TRUE \/ b = FALSE
    OBVIOUS
  <2>2. CASE b = TRUE
    <3>1. Child(f, b) = bt_scan_test(TRUE)
      BY <1>3, <2>2 DEF Child
    <3> QED
      BY <1>3, <3>1, ScanAgainChild
  <2>3. CASE b = FALSE
    <3>1. Child(f, b) = bt_scan_test(FALSE)
      BY <1>3, <2>3 DEF Child
    <3> QED
      BY <1>3, <3>1, ScanFirstChild
  <2> QED
    BY <2>1, <2>2, <2>3
<1>4. CASE f \in {"protect", "key", "norflash", "finalimg"}
  <2> DEFINE p == Child(f, b)
  <2>1. \A k \in 1 .. 5 : S("make", Done[k]) \in AnyStep
    <3>1. \A k \in 1 .. 5 : Done[k] \in Args
      BY DEF Args, Files
    <3> QED
      BY <3>1, StepOf DEF Ops, ChildOps
  <2>2. CASE f = "finalimg"
    <3>0. \A k \in 1 .. 5 : Done[k] \in Files \ {"bt_log"}
      BY DEF Done, Files
    <3>1. /\ p \in Seq(AnyStep) /\ Len(p) >= 1
          /\ \A k \in 1 .. Len(p) : p[k].op = "make" /\ p[k].arg \in Files \ {"bt_log"}
      BY <2>1, <2>2, <3>0, StepOf DEF Child, dl_finalimg_test
    <3> HIDE DEF p
    <3> QED
      BY <3>1, PlainChild, <2>2 DEF p
  <2>3. CASE f = "key"
    <3> DEFINE a == <<S("text", "WaitingForKeyPress")>>
               c == [k \in 1 .. 2 * 8 |-> IF k % 2 = 1 THEN Do("key") ELSE S("text", "KeyPress")]
    <3>0. S("text", "WaitingForKeyPress") \in AnyStep
      BY StepOf DEF Ops, ChildOps, Args, Texts
    <3>1. /\ a \in Seq(AnyStep) /\ Len(a) >= 1
          /\ \A k \in 1 .. Len(a) : a[k].op \in {"text", "key"}
      BY <3>0, StepOf
    <3>2. S("text", "KeyPress") \in AnyStep /\ Do("key") \in AnyStep
      BY StepOf DEF Ops, ChildOps, Args, Texts
    <3>3. /\ c \in Seq(AnyStep) /\ \A k \in 1 .. Len(c) : c[k].op \in {"text", "key"}
      BY <3>2, StepOf
    <3>4. p = a \o c
      BY <2>3 DEF Child, key_press
    <3> HIDE DEF a, c, p
    <3>5. p \in Seq(AnyStep) /\ Len(p) >= 1 /\ \A k \in 1 .. Len(p) : p[k].op \in {"text", "key"}
      BY <3>1, <3>3, <3>4
    <3> QED
      BY <3>5, PlainChild, <2>3 DEF p
  <2>4. CASE f = "protect"
    <3>1. p = gsm_on_protect_block
      BY <2>4 DEF Child
    <3>2. p \in Seq(AnyStep) /\ Len(p) >= 1
      BY <3>1, StepOf DEF gsm_on_protect_block, Ops, ChildOps, Args, Texts, Files
    <3>3. \A k \in 1 .. Len(p) :
            \/ p[k].op \in {"wait", "text"}
            \/ p[k].op = "make" /\ p[k].arg \in {"nor_check_done", "nor-done"}
      BY <3>1, StepOf DEF gsm_on_protect_block
    <3> HIDE DEF p
    <3> QED
      BY <3>2, <3>3, PlainChild, <2>4 DEF p, Files
  <2>5. CASE f = "norflash"
    <3>1. p = norflash_test
      BY <2>5 DEF Child
    <3>a. /\ S("make", "nor_check_done") \in AnyStep /\ S("make", "nor-done") \in AnyStep
          /\ Do("wait") \in AnyStep /\ S("text", "Pass") \in AnyStep
      BY StepOf DEF Ops, ChildOps, Args, Texts, Files
    <3>2. p \in Seq(AnyStep) /\ Len(p) >= 1
      BY <3>1, <3>a DEF norflash_test
    <3>3. \A k \in 1 .. Len(p) :
            \/ p[k].op \in {"wait", "text"}
            \/ p[k].op = "make" /\ p[k].arg \in {"nor_check_done", "nor-done"}
      BY <3>1, StepOf DEF norflash_test
    <3> HIDE DEF p
    <3> QED
      BY <3>2, <3>3, PlainChild, <2>5 DEF p, Files
  <2> QED
    BY <1>4, <2>2, <2>3, <2>4, <2>5
<1> QED
  BY <1>1, <1>2, <1>3, <1>4 DEF Children, Players, Loops
-----------------------------------------------------------------------------
(***************************************************************************)
(* What is left of a program after a step.                                 *)
(***************************************************************************)
\* What is left of a program.
LEMMA TailOf ==
  ASSUME NEW X, NEW p \in Seq(X), p # <<>>
  PROVE  /\ Tail(p) \in Seq(X) /\ Len(p) \in Nat \ {0} /\ Len(Tail(p)) = Len(p) - 1
         /\ Head(p) = p[1] /\ p[1] \in X
         /\ \A k \in 1 .. Len(p) - 1 : Tail(p)[k] = p[k + 1]
OBVIOUS

\* ... has what the program had, but for its first step.
LEMMA TailHas ==
  ASSUME NEW X, NEW p \in Seq(X), p # <<>>, NEW op, NEW arg
  PROVE  Has(p, op, arg) <=> Is(p[1], op, arg) \/ Has(Tail(p), op, arg)
<1>1. ASSUME Has(Tail(p), op, arg) PROVE Has(p, op, arg)
  <2>1. PICK k \in 1 .. Len(p) - 1 : Is(Tail(p)[k], op, arg)
    BY <1>1, TailOf DEF Has
  <2>2. k + 1 \in 1 .. Len(p) /\ p[k + 1] = Tail(p)[k]
    BY TailOf
  <2> QED
    BY <2>1, <2>2 DEF Has
<1>2. ASSUME Has(p, op, arg), ~ Is(p[1], op, arg) PROVE Has(Tail(p), op, arg)
  <2>1. PICK k \in 1 .. Len(p) : Is(p[k], op, arg)
    BY <1>2 DEF Has
  <2>2. k - 1 \in 1 .. Len(Tail(p)) /\ Tail(p)[k - 1] = p[k]
    BY <1>2, <2>1, TailOf
  <2> QED
    BY <2>1, <2>2 DEF Has
<1>3. Is(p[1], op, arg) => Has(p, op, arg)
  BY TailOf DEF Has
<1> QED
  BY <1>1, <1>2, <1>3

\* What is not reset in a program is not reset in the rest of it.
LEMMA TailUnreset ==
  ASSUME NEW X, NEW p \in Seq(X), p # <<>>, NEW f
  PROVE  Unreset(p, f) <=> ~ Resets(p[1], f) /\ Unreset(Tail(p), f)
<1>1. ASSUME Unreset(p, f), NEW k \in 1 .. Len(Tail(p)) PROVE ~ Resets(Tail(p)[k], f)
  <2>1. k + 1 \in 1 .. Len(p) /\ p[k + 1] = Tail(p)[k]
    BY TailOf
  <2> QED
    BY <1>1, <2>1 DEF Unreset
<1>2. ASSUME ~ Resets(p[1], f), Unreset(Tail(p), f), NEW k \in 1 .. Len(p) PROVE ~ Resets(p[k], f)
  <2>1. CASE k # 1
    <3>1. k - 1 \in 1 .. Len(Tail(p)) /\ Tail(p)[k - 1] = p[k]
      BY <2>1, TailOf
    <3> QED
      BY <1>2, <3>1 DEF Unreset
  <2> QED
    BY <1>2, <2>1
<1>3. Unreset(p, f) => ~ Resets(p[1], f)
  BY TailOf DEF Unreset
<1> QED
  BY <1>1, <1>2, <1>3 DEF Unreset

\* ... and is as much in order as the program was.
LEMMA TailRecovers ==
  ASSUME NEW X, NEW p \in Seq(X), p # <<>>, Recovers(p)
  PROVE  Recovers(Tail(p)) \/ (Tail(p) = <<>> /\ Is(p[1], "path", "speaker"))
<1> DEFINE q == Tail(p)
           n == Len(p)
<1>1. /\ q \in Seq(X) /\ n \in Nat \ {0} /\ Len(q) = n - 1
      /\ \A k \in 1 .. n - 1 : q[k] = p[k + 1]
  BY TailOf
<1>2. CASE n = 1
  <2>1. q = <<>>
    <3> HIDE DEF q, n
    <3>1. q \in Seq(X) /\ Len(q) <= 0
      BY <1>1, <1>2
    <3> QED
      BY <3>1
  <2> QED
    BY <1>2, <2>1 DEF Recovers
<1>3. CASE n # 1
  <2>1. q # <<>> /\ q[Len(q)] = p[n]
    <3> HIDE DEF q, n
    <3>1. Len(q) = n - 1 /\ n - 1 \in 1 .. n - 1 /\ n \in Nat
      BY <1>1, <1>3
    <3>2. q[n - 1] = p[n]
      BY <1>1, <3>1
    <3>3. q # <<>>
      BY <3>1
    <3> QED
      BY <3>1, <3>2, <3>3
  <2>2. \A k \in 1 .. Len(q) : q[k].op \notin {"must", "need"}
    <3>1. \A k \in 1 .. n : p[k].op \notin {"must", "need"}
      BY DEF Recovers
    <3> HIDE DEF q, n
    <3> QED
      BY <1>1, <3>1
  <2> QED
    BY <2>1, <2>2 DEF Recovers
<1> QED
  BY <1>2, <1>3

\* The rest of an orderly program is orderly.
LEMMA TailOrderly ==
  ASSUME NEW p \in Seq(TestStep), p # <<>>, Orderly(p)
  PROVE  Tail(p) \in Seq(TestStep) /\ Orderly(Tail(p))
<1> DEFINE q == Tail(p)
           n == Len(p)
<1>1. /\ q \in Seq(TestStep) /\ n \in Nat \ {0} /\ Len(q) = n - 1
      /\ \A k \in 1 .. n - 1 : q[k] = p[k + 1]
  BY TailOf
<1>r. Recovers(p) /\ n > 1 => Recovers(q)
  <2>1. n > 1 => q # <<>>
    <3> HIDE DEF q, n
    <3> QED
      BY <1>1
  <2> QED
    BY <2>1, TailRecovers
<1> HIDE DEF q
<1>2. Forks(q)
  <2> SUFFICES ASSUME NEW k \in 1 .. Len(q)
               PROVE  /\ Is(q[k], "fork", "dial") =>
                           k + 2 <= Len(q) /\ q[k + 1].op = "wait" /\ Is(q[k + 2], "kill", "dial")
                      /\ Is(q[k], "spawn", "wifi") =>
                           /\ k + 3 <= Len(q) /\ q[k + 1].op = "wait"
                           /\ Is(q[k + 2], "need", "wifi_log") /\ Is(q[k + 3], "kill", "script")
                      /\ Is(q[k], "fork", "bt_scan") =>
                           /\ k + 1 <= Len(q) /\ q[k + 1].op = "waitchild"
                           /\ \A j \in k + 1 .. Len(q) : q[j].op # "fork" /\ ~ Resets(q[j], "bt_log")
    BY DEF Forks
  <2>1. k + 1 \in 1 .. n /\ q[k] = p[k + 1]
    BY <1>1
  <2>2. Forks(p)
    BY DEF Orderly
  <2>a. /\ \A j \in 1 .. Len(q) : q[j] = p[j + 1]
        /\ n = Len(p) /\ k + 1 \in 1 .. Len(p) /\ k \in Nat /\ Len(q) = n - 1 /\ n \in Nat
    BY <1>1, <2>1
  <2> HIDE DEF n
  <2>3. ASSUME Is(q[k], "fork", "dial")
        PROVE  k + 2 <= Len(q) /\ q[k + 1].op = "wait" /\ Is(q[k + 2], "kill", "dial")
    <3>1. /\ (k + 1) + 2 <= Len(p) /\ p[(k + 1) + 1].op = "wait"
          /\ Is(p[(k + 1) + 2], "kill", "dial")
      BY <2>1, <2>2, <2>3, <2>a DEF Forks
    <3>2. k + 1 \in 1 .. Len(q) /\ k + 2 \in 1 .. Len(q) /\ (k + 1) + 2 = (k + 2) + 1
      BY <3>1, <2>a
    <3>3. q[k + 1] = p[(k + 1) + 1] /\ q[k + 2] = p[(k + 1) + 2]
      BY <3>2, <2>a
    <3> QED
      BY <3>1, <3>2, <3>3
  <2>4. ASSUME Is(q[k], "spawn", "wifi")
        PROVE  /\ k + 3 <= Len(q) /\ q[k + 1].op = "wait"
               /\ Is(q[k + 2], "need", "wifi_log") /\ Is(q[k + 3], "kill", "script")
    <3>1. /\ (k + 1) + 3 <= Len(p) /\ p[(k + 1) + 1].op = "wait"
          /\ Is(p[(k + 1) + 2], "need", "wifi_log") /\ Is(p[(k + 1) + 3], "kill", "script")
      BY <2>1, <2>2, <2>4, <2>a DEF Forks
    <3>2. /\ k + 1 \in 1 .. Len(q) /\ k + 2 \in 1 .. Len(q) /\ k + 3 \in 1 .. Len(q)
          /\ (k + 1) + 2 = (k + 2) + 1 /\ (k + 1) + 3 = (k + 3) + 1
      BY <3>1, <2>a
    <3>3. q[k + 1] = p[(k + 1) + 1] /\ q[k + 2] = p[(k + 1) + 2] /\ q[k + 3] = p[(k + 1) + 3]
      BY <3>2, <2>a
    <3> QED
      BY <3>1, <3>2, <3>3
  <2>5. ASSUME Is(q[k], "fork", "bt_scan")
        PROVE  /\ k + 1 <= Len(q) /\ q[k + 1].op = "waitchild"
               /\ \A j \in k + 1 .. Len(q) : q[j].op # "fork" /\ ~ Resets(q[j], "bt_log")
    <3>1. /\ (k + 1) + 1 <= Len(p) /\ p[(k + 1) + 1].op = "waitchild"
          /\ \A j \in (k + 1) + 1 .. Len(p) : p[j].op # "fork" /\ ~ Resets(p[j], "bt_log")
      BY <2>1, <2>2, <2>5, <2>a DEF Forks
    <3>2. ASSUME NEW j \in k + 1 .. Len(q) PROVE q[j].op # "fork" /\ ~ Resets(q[j], "bt_log")
      <4>1. j \in 1 .. Len(q) /\ j + 1 \in (k + 1) + 1 .. Len(p)
        BY <2>a
      <4>2. q[j] = p[j + 1]
        BY <4>1, <2>a
      <4> QED
        BY <4>1, <4>2, <3>1
    <3>3. k + 1 \in 1 .. Len(q)
      BY <3>1, <2>a
    <3>4. q[k + 1] = p[(k + 1) + 1]
      BY <3>3, <2>a
    <3> QED
      BY <3>1, <3>2, <3>3, <3>4
  <2> QED
    BY <2>3, <2>4, <2>5
<1>3. Plays(q)
  <2> SUFFICES ASSUME NEW k \in 1 .. Len(q)
               PROVE  /\ q[k].op = "fork" /\ q[k].arg \in Players =>
                           /\ k + 1 <= Len(q) /\ q[k + 1].op = "wait"
                           /\ q[k].arg \in Loops => Recovers(q)
                      /\ q[k].op = "path" /\ q[k].arg \notin Quiet => k < Len(q) /\ Recovers(q)
    BY DEF Plays
  <2>1. k + 1 \in 1 .. n /\ q[k] = p[k + 1] /\ Plays(p)
    BY <1>1 DEF Orderly
  <2>2. q[k].op = "path" /\ q[k].arg \notin Quiet => k < Len(q) /\ Recovers(q)
    BY <2>1, <1>1, <1>r DEF Plays
  <2>3. q[k].op = "fork" /\ q[k].arg \in Players =>
          /\ k + 1 <= Len(q) /\ q[k + 1].op = "wait"
          /\ q[k].arg \in Loops => Recovers(q)
    BY <2>1, <1>1, <1>r DEF Plays
  <2> QED
    BY <2>2, <2>3
<1>4. Judges(q)
  <2> SUFFICES ASSUME NEW k \in 1 .. Len(q)
               PROVE  /\ q[k].op = "fill" => q[k].arg \in {"mac", "hdq_log"}
                      /\ q[k].op = "open" => q[k].arg # "bt_log"
                      /\ q[k].op = "judge" => \A j \in k .. Len(q) : ~ Resets(q[j], q[k].arg)
    BY DEF Judges
  <2>1. k + 1 \in 1 .. n /\ q[k] = p[k + 1] /\ Judges(p)
    BY <1>1 DEF Orderly
  <2>2. ASSUME q[k].op = "judge", NEW j \in k .. Len(q) PROVE ~ Resets(q[j], q[k].arg)
    <3>1. j + 1 \in k + 1 .. n /\ q[j] = p[j + 1]
      BY <1>1
    <3> QED
      BY <3>1, <2>1, <2>2 DEF Judges
  <2> QED
    BY <2>1, <2>2 DEF Judges
<1> QED
  BY <1>1, <1>2, <1>3, <1>4 DEF q, Orderly

\* The rest of an orderly child's program is orderly.
LEMMA TailOrderlyChild ==
  ASSUME NEW w, NEW p \in Seq(ChildStep(w)), p # <<>>, OrderlyChild(p, w)
  PROVE  Tail(p) \in Seq(ChildStep(w)) /\ OrderlyChild(Tail(p), w)
<1> DEFINE q == Tail(p)
           n == Len(p)
<1>1. /\ q \in Seq(ChildStep(w)) /\ n \in Nat \ {0} /\ Len(q) = n - 1
      /\ \A k \in 1 .. n - 1 : q[k] = p[k + 1]
  BY TailOf
<1> HIDE DEF q
<1>2. ASSUME NEW k \in 1 .. Len(q)
      PROVE  /\ q[k].op = "path" => k = 1
             /\ q[k].op = "lseek" => k = 1 \/ q[k - 1].op = "stat"
             /\ q[k].op = "read" => k = 1 \/ q[k - 1].op = "lseek"
             /\ q[k].op = "send" => k = 1 \/ q[k - 1].op = "read"
             /\ w = "bt_scan" =>
                  /\ q[k].op \in {"set", "power", "text", "open", "fill"}
                  /\ q[k].op = "open" <=> k = Len(q) - 1
                  /\ q[k].op = "fill" <=> k = Len(q)
  <2>1. k + 1 \in 1 .. n /\ q[k] = p[k + 1] /\ (k # 1 => q[k - 1] = p[k])
    BY <1>1
  <2> QED
    BY <2>1, <1>1 DEF OrderlyChild
<1>3. OrderlyChild(q, w)
  BY <1>2 DEF OrderlyChild
<1> QED
  BY <1>1, <1>3 DEF q
-----------------------------------------------------------------------------
(***************************************************************************)
(* The steps of the processes.                                             *)
(***************************************************************************)
\* A process of the program: its steps are those of a test.
LEMMA Heads ==
  ASSUME ProcsOK, NEW i \in Pids, procs[i].prog # <<>>
  PROVE  /\ procs[i] \in Process /\ procs[i].prog \in Seq(AnyStep)
         /\ Step(i) = procs[i].prog[1]
         /\ i = 1 => Step(1) \in TestStep /\ at = "run" /\ procs[1].run = runs
         /\ i # 1 => Step(i) \in ChildStep(procs[i].what)
<1>1. procs[i] \in Process /\ procs[i].prog \in Seq(AnyStep)
  BY DEF ProcsOK, Process
<1>2. Step(i) = procs[i].prog[1]
  BY <1>1, TailOf DEF Step
<1>3. CASE i = 1
  <2>1. Main \in Seq(TestStep) /\ Main # <<>> /\ at = "run" /\ procs[1].run = runs
    BY <1>3 DEF ProcsOK, Main
  <2>2. Main[1] \in TestStep
    BY <2>1, TailOf
  <2> QED
    BY <1>1, <1>2, <1>3, <2>1, <2>2 DEF Main
<1>4. CASE i # 1
  <2>1. procs[i].prog \in Seq(ChildStep(procs[i].what))
    BY <1>4 DEF ProcsOK, ChildOK
  <2> QED
    BY <1>1, <1>2, <1>4, <2>1, TailOf
<1> QED
  BY <1>3, <1>4

\* What a process loses in a step: its first step or its whole program, and with
\* it, if it is a child, its life.
Moved(i) ==
  /\ procs' \in [Pids -> Process] /\ \A c \in Pids \ {i} : procs'[c] = procs[c]
  /\ procs'[i].prog \in {Tail(procs[i].prog), <<>>}
  /\ \/ /\ i = 1 \/ procs'[i].prog # <<>>
        /\ procs'[i].what = procs[i].what /\ procs'[i].run = procs[i].run
        /\ procs'[i].fd = procs[i].fd /\ procs'[i].len = procs[i].len
        /\ procs'[i].data = procs[i].data /\ procs'[i].torn = procs[i].torn
     \/ i # 1 /\ procs'[i] = Gone
Onward(i) == Moved(i) /\ procs'[i].prog = Tail(procs[i].prog)

\* A process that has ended.
LEMMA GoneIs ==
  /\ Gone \in Process /\ Gone.prog = <<>> /\ Gone.what = "none"
  /\ \A X : <<>> \in Seq(X)
<1>1. Gone \in Process
  BY DEF Gone, Process, Kinds
<1>2. Gone.prog = <<>> /\ Gone.what = "none"
  BY DEF Gone
<1> QED
  BY <1>1, <1>2

\* The next step of a process, or its end.
LEMMA ThenMoves ==
  ASSUME ProcsOK, NEW i \in Pids, procs[i].prog # <<>>, procs' = Then(i)
  PROVE  Onward(i)
<1>1. procs \in [Pids -> Process] /\ procs[i].prog \in Seq(AnyStep)
  BY DEF ProcsOK, Process
<1> DEFINE rest == [procs[i] EXCEPT !.prog = Tail(procs[i].prog)]
<1>2. Tail(procs[i].prog) \in Seq(AnyStep)
  BY <1>1, TailOf
<1>3. /\ rest \in Process /\ rest.prog = Tail(procs[i].prog) /\ rest.what = procs[i].what
      /\ rest.run = procs[i].run /\ rest.fd = procs[i].fd /\ rest.len = procs[i].len
      /\ rest.data = procs[i].data /\ rest.torn = procs[i].torn
  BY <1>1, <1>2 DEF Process
<1>4. procs' = [procs EXCEPT ![i] = IF i # 1 /\ rest.prog = <<>> THEN Gone ELSE rest]
  BY DEF Then
<1> HIDE DEF rest
<1>5. procs' \in [Pids -> Process] /\ \A c \in Pids \ {i} : procs'[c] = procs[c]
  BY <1>1, <1>3, <1>4, GoneIs
<1>6. CASE i # 1 /\ rest.prog = <<>>
  BY <1>1, <1>3, <1>4, <1>5, <1>6, GoneIs DEF Onward, Moved
<1>7. CASE ~ (i # 1 /\ rest.prog = <<>>)
  BY <1>1, <1>3, <1>4, <1>5, <1>7 DEF Onward, Moved
<1> QED
  BY <1>6, <1>7

\* A process that gives up.
LEMMA StopsMoves ==
  ASSUME ProcsOK, NEW i \in Pids, procs[i].prog # <<>>, procs' = Stops(i)
  PROVE  Moved(i) /\ procs'[i].prog = <<>>
<1>1. procs \in [Pids -> Process]
  BY DEF ProcsOK
<1>2. CASE i # 1
  <2>1. procs' = [procs EXCEPT ![i] = Gone]
    BY <1>2 DEF Stops
  <2>2. procs' \in [Pids -> Process]
    BY <1>1, <2>1, GoneIs
  <2> QED
    BY <1>1, <1>2, <2>1, <2>2, GoneIs DEF Moved
<1>3. CASE i = 1
  <2>1. procs' = [procs EXCEPT ![1] = [procs[1] EXCEPT !.prog = <<>>]]
    BY <1>3 DEF Stops
  <2>2. [procs[1] EXCEPT !.prog = <<>>] \in Process
    <3>1. procs[1] \in Process /\ <<>> \in Seq(AnyStep)
      BY <1>1, <1>3
    <3> QED
      BY <3>1 DEF Process
  <2>3. procs' \in [Pids -> Process]
    BY <1>1, <2>1, <2>2
  <2>4. /\ procs'[i].prog = <<>> /\ procs'[i].what = procs[i].what
        /\ procs'[i].run = procs[i].run
        /\ procs'[i].fd = procs[i].fd /\ procs'[i].len = procs[i].len
        /\ procs'[i].data = procs[i].data /\ procs'[i].torn = procs[i].torn
    BY <1>1, <1>3, <2>1 DEF Process
  <2> QED
    BY <1>1, <1>3, <2>1, <2>3, <2>4 DEF Moved
<1> QED
  BY <1>2, <1>3

\* The empty program is in order.
LEMMA EmptyOK ==
  /\ <<>> \in Seq(TestStep) /\ Orderly(<<>>) /\ \A w : <<>> \in Seq(ChildStep(w)) /\ OrderlyChild(<<>>, w)
  /\ \A op, arg : ~ Has(<<>>, op, arg)
  /\ ~ Recovers(<<>>) /\ ChildOK(Gone)
<1>1. <<>> \in Seq(TestStep) /\ \A w : <<>> \in Seq(ChildStep(w))
  OBVIOUS
<1>2. Orderly(<<>>)
  BY DEF Orderly, Forks, Plays, Judges
<1>3. \A w : OrderlyChild(<<>>, w)
  BY DEF OrderlyChild
<1>4. \A op, arg : ~ Has(<<>>, op, arg)
  BY DEF Has
<1>5. ~ Recovers(<<>>)
  BY DEF Recovers
<1>6. ChildOK(Gone)
  BY <1>1, <1>3, GoneIs DEF ChildOK
<1> QED
  BY <1>1, <1>2, <1>3, <1>4, <1>5, <1>6

\* A step keeps the processes in order.
LEMMA ProcsStay ==
  ASSUME ProcsOK, NEW i \in Pids, procs[i].prog # <<>>, Moved(i), at' = at, runs' = runs
  PROVE  ProcsOK'
<1>1. procs' \in [Pids -> Process] /\ procs \in [Pids -> Process] /\ 1 \in Pids
  <2>1. 1 \in Pids
    BY StationAssumption DEF Pids
  <2> QED
    BY <2>1 DEF Moved, ProcsOK
<1>2. CASE i = 1
  <2>1. Main' \in Seq(TestStep) /\ Orderly(Main')
    <3>1. CASE Main' = Tail(Main)
      BY <1>2, <3>1, TailOrderly DEF ProcsOK, Main
    <3>2. CASE Main' = <<>>
      BY <3>2, EmptyOK
    <3> QED
      BY <1>2, <3>1, <3>2 DEF Moved, Main
  <2>2. Main' # <<>> => at' = "run"
    BY <1>2 DEF ProcsOK, Main
  <2>3. procs'[1].what = "none" /\ (at' # "exited" => procs'[1].run = runs')
    BY <1>2 DEF ProcsOK, Moved
  <2>4. \A c \in Pids \ {1} : ChildOK(procs'[c])
    BY <1>2 DEF ProcsOK, Moved
  <2> QED
    BY <1>1, <2>1, <2>2, <2>3, <2>4 DEF ProcsOK
<1>3. CASE i # 1
  <2>1. procs'[1] = procs[1]
    BY <1>1, <1>3 DEF Moved
  <2>2. ChildOK(procs'[i])
    <3>1. CASE procs'[i] = Gone
      BY <3>1, EmptyOK
    <3>2. CASE procs'[i] # Gone
      <4>1. procs'[i].prog = Tail(procs[i].prog) /\ procs'[i].what = procs[i].what
        BY <1>3, <3>2 DEF Moved
      <4>2. ChildOK(procs[i])
        BY <1>3 DEF ProcsOK
      <4> QED
        BY <4>1, <4>2, TailOrderlyChild DEF ChildOK
    <3> QED
      BY <3>1, <3>2
  <2>3. \A c \in Pids \ {1} : ChildOK(procs'[c])
    BY <2>2, <1>3 DEF ProcsOK, Moved
  <2> QED
    BY <1>1, <2>1, <2>3 DEF ProcsOK, Main
<1> QED
  BY <1>2, <1>3

\* A child that has taken a step: what it has begun with, if it is still there.
LEMMA ChildMoved ==
  ASSUME ProcsOK, NEW c \in Pids \ {1}, procs[c].prog # <<>>, Moved(c)
  PROVE  /\ 1 \in Pids /\ procs'[1] = procs[1] /\ Main' = Main
         /\ \A d \in Pids \ {c} : procs'[d] = procs[d]
         /\ procs[c].prog \in Seq(AnyStep)
         /\ \/ procs'[c] = Gone
            \/ /\ procs'[c].what = procs[c].what /\ procs'[c].run = procs[c].run
               /\ procs'[c].fd = procs[c].fd /\ procs'[c].len = procs[c].len
               /\ procs'[c].data = procs[c].data /\ procs'[c].torn = procs[c].torn
               /\ procs'[c].prog = Tail(procs[c].prog) /\ Len(procs[c].prog) >= 2
               /\ procs'[c].prog # <<>> /\ procs'[c].prog[1] = procs[c].prog[2]
               /\ Step(c)' = procs[c].prog[2]
<1>1. 1 \in Pids
  BY StationAssumption DEF Pids
<1>2. procs'[1] = procs[1] /\ Main' = Main
  BY <1>1 DEF Moved, Main
<1>3. procs[c].prog \in Seq(AnyStep)
  BY DEF ProcsOK, Process
<1>4. ASSUME procs'[c] # Gone
      PROVE  /\ procs'[c].prog = Tail(procs[c].prog) /\ Len(procs[c].prog) >= 2
             /\ procs'[c].prog # <<>> /\ procs'[c].prog[1] = procs[c].prog[2]
             /\ Step(c)' = procs[c].prog[2]
  <2> DEFINE p == procs[c].prog
             q == procs'[c].prog
  <2>1. q = Tail(p) /\ q # <<>> /\ p # <<>>
    BY <1>4 DEF Moved
  <2>2. Step(c)' = Head(q)
    BY DEF Step
  <2>3. p \in Seq(AnyStep)
    BY <1>3
  <2> HIDE DEF p, q
  <2>4. /\ q \in Seq(AnyStep) /\ Len(q) \in Nat \ {0} /\ Len(q) = Len(p) - 1 /\ Head(q) = q[1]
        /\ \A k \in 1 .. Len(p) - 1 : q[k] = p[k + 1]
    BY <2>1, <2>3, TailOf
  <2>5. Len(p) >= 2 /\ q[1] = p[2]
    BY <2>4
  <2> QED
    BY <2>1, <2>2, <2>4, <2>5 DEF p, q
<1> QED
  BY <1>1, <1>2, <1>3, <1>4 DEF Moved

\* The log does not notice a step of a child that is not its own.
LEMMA ChildLog ==
  ASSUME ProcsOK, LogInv, NEW c \in Pids \ {1}, procs[c].prog # <<>>, Moved(c), copy' = copy,
         Step(c).op \notin {"lseek", "read"}
  PROVE  LogInv'
<1>1. copy' = -1 => \A d \in Pids : procs'[d].what # "server"
  BY ChildMoved, GoneIs DEF LogInv
<1>2. Has(Main', "fork", "server") => copy' # -1 \/ Main'[1].op = "truncate"
  BY ChildMoved DEF LogInv
<1>3. ASSUME NEW d \in Pids PROVE RequestOK(d)'
  <2>1. CASE d # c
    <3>1. procs'[d] = procs[d] /\ Step(d)' = Step(d)
      BY <2>1, ChildMoved DEF Step
    <3> QED
      BY <3>1 DEF LogInv, RequestOK, Does
  <2>2. CASE d = c /\ procs'[c] = Gone
    BY <2>2, GoneIs DEF RequestOK
  <2>3. CASE d = c /\ procs'[c] # Gone
    <3>1. Step(c) = procs[c].prog[1] /\ Step(c)' = procs[c].prog[2] /\ Len(procs[c].prog) >= 2
      BY <2>3, ChildMoved, Heads
    <3>2. OrderlyChild(procs[c].prog, procs[c].what)
      BY DEF ProcsOK, ChildOK
    <3>3. 2 \in 1 .. Len(procs[c].prog)
      BY <3>1, ChildMoved
    <3>4. Step(c)'.op \notin {"read", "send"}
      BY <3>1, <3>2, <3>3 DEF OrderlyChild
    <3>5. procs'[c].what = procs[c].what /\ procs'[c].torn = procs[c].torn
      BY <2>3, ChildMoved
    <3> QED
      BY <2>3, <3>4, <3>5 DEF LogInv, RequestOK, Does
  <2> QED
    BY <2>1, <2>2, <2>3
<1> QED
  BY <1>1, <1>2, <1>3 DEF LogInv

\* ... nor do the others that make a noise.
LEMMA ChildPlays ==
  ASSUME ProcsOK, PlaysInv, NEW c \in Pids \ {1}, procs[c].prog # <<>>, Moved(c), at' = at
  PROVE  PlaysInv'
<1> SUFFICES ASSUME at' # "exited", NEW d \in Pids \ {1}, Does(d, "path")'
             PROVE  Does(1, "wait")' /\ (Step(d)'.arg \notin Quiet => Recovers(Main'))
  BY DEF PlaysInv
<1>1. d # c
  <2> SUFFICES ASSUME d = c PROVE FALSE
    OBVIOUS
  <2>1. procs'[c] # Gone
    BY GoneIs DEF Does
  <2>2. Step(c)' = procs[c].prog[2] /\ Len(procs[c].prog) >= 2 /\ procs[c].prog \in Seq(AnyStep)
    BY <2>1, ChildMoved
  <2>3. OrderlyChild(procs[c].prog, procs[c].what)
    BY DEF ProcsOK, ChildOK
  <2> QED
    BY <2>2, <2>3 DEF OrderlyChild, Does
<1>2. Does(d, "path") /\ Step(d)' = Step(d) /\ (Does(1, "wait") => Does(1, "wait")')
  BY <1>1, ChildMoved DEF Does, Step
<1> QED
  BY <1>2, ChildMoved DEF PlaysInv

\* What a program still has to open, after a step.
LEMMA TailUnopened ==
  ASSUME NEW X, NEW p \in Seq(X), p # <<>>, p[1].op # "open", NEW r, NEW s, r.prog = p,
         s.prog = Tail(p)
  PROVE  Unopened(s) <=> Unopened(r)
<1>1. /\ Len(p) \in Nat \ {0} /\ Len(Tail(p)) = Len(p) - 1
      /\ \A k \in 1 .. Len(p) - 1 : Tail(p)[k] = p[k + 1]
  BY TailOf
<1>2. ASSUME Unopened(s) PROVE Unopened(r)
  <2>1. PICK k \in 1 .. Len(p) - 1 : Tail(p)[k].op = "open"
    BY <1>1, <1>2 DEF Unopened
  <2>2. k + 1 \in 1 .. Len(p) /\ p[k + 1].op = "open"
    BY <1>1, <2>1
  <2> QED
    BY <2>2 DEF Unopened
<1>3. ASSUME Unopened(r) PROVE Unopened(s)
  <2>1. PICK k \in 1 .. Len(p) : p[k].op = "open"
    BY <1>3 DEF Unopened
  <2>2. k - 1 \in 1 .. Len(Tail(p)) /\ Tail(p)[k - 1] = p[k]
    BY <1>1, <2>1
  <2> QED
    BY <2>1, <2>2 DEF Unopened
<1> QED
  BY <1>2, <1>3

\* A child that goes on does not change what the others are.
LEMMA ChildStays ==
  ASSUME MachineInv, NEW c \in Pids \ {1}, procs[c].prog # <<>>, Moved(c),
         at' = at, runs' = runs, last' = last, late' = late,
         files["bt_log"] = NoFile => files'["bt_log"] = NoFile,
         Step(c).op = "open" => procs[c].what # "bt_scan"
  PROVE  ProcsOK' /\ PlaysInv' /\ DialInv' /\ ScriptInv' /\ BtScanInv' /\ ScanInv'
<1> USE DEF MachineInv
<1>1. ProcsOK' /\ PlaysInv'
  BY ProcsStay, ChildPlays
<1>2. DialInv'
  BY ChildMoved, GoneIs DEF DialInv
<1>3. ScriptInv'
  BY ChildMoved, GoneIs DEF ScriptInv
<1>4. BtScanInv'
  <2> SUFFICES ASSUME at' # "exited", NEW d \in Pids \ {1}, procs'[d].what = "bt_scan"
               PROVE  IF Unopened(procs'[d])
                      THEN /\ procs'[d].run = runs /\ last = d /\ files["bt_log"] = NoFile
                           /\ Does(1, "waitchild") /\ ~ Has(Main, "fork", "bt_scan")
                      ELSE procs'[d].fd = 1 + procs'[d].run
    <3>1. Does(1, "waitchild")' <=> Does(1, "waitchild")
      BY ChildMoved DEF Does, Step
    <3> QED
      BY <3>1, ChildMoved DEF BtScanInv
  <2>1. CASE d # c
    BY <2>1, ChildMoved DEF BtScanInv
  <2>2. CASE d = c
    <3>1. /\ procs[c].what = "bt_scan" /\ procs'[c].run = procs[c].run /\ procs'[c].fd = procs[c].fd
          /\ procs'[c].prog = Tail(procs[c].prog) /\ procs[c].prog \in Seq(AnyStep)
      BY <2>2, ChildMoved, GoneIs
    <3>2. procs[c].prog[1].op # "open"
      BY <3>1, Heads
    <3>3. Unopened(procs'[c]) <=> Unopened(procs[c])
      BY <3>1, <3>2, TailUnopened
    <3> QED
      BY <2>2, <3>1, <3>3 DEF BtScanInv
  <2> QED
    BY <2>1, <2>2
<1>5. ScanInv'
  BY ChildMoved DEF ScanInv
<1> QED
  BY <1>1, <1>2, <1>3, <1>4, <1>5

\* A child that only goes on.
LEMMA ChildGoes ==
  ASSUME MachineInv, NEW c \in Pids \ {1}, procs[c].prog # <<>>, Moved(c),
         Step(c).op \notin {"open", "lseek", "read"}, btpower' \in BOOLEAN,
         UNCHANGED <<at, runs, last, late, files, copy, log, mixer, replies, verdict>>
  PROVE  MachineInv'
<1>1. ProcsOK' /\ PlaysInv' /\ DialInv' /\ ScriptInv' /\ BtScanInv' /\ ScanInv'
  BY ChildStays
<1>2. LogInv'
  BY ChildLog DEF MachineInv
<1>3. Main' = Main
  BY ChildMoved DEF MachineInv
<1>4. TypesOK' /\ VerdictInv' /\ WholeReport'
  BY DEF MachineInv, TypesOK, VerdictInv, WholeReport
<1>5. MixerInv' /\ FilesInv'
  BY <1>3 DEF MachineInv, MixerInv, FilesInv, Judged
<1> QED
  BY <1>1, <1>2, <1>4, <1>5 DEF MachineInv

\* What the program loses in a step: its first step, or its whole test when it
\* cannot go on; and how a child is left as it was.
Goes ==
  /\ procs' \in [Pids -> Process] /\ (Main' = Tail(Main) \/ Main' = <<>>)
  /\ procs'[1].what = procs[1].what /\ procs'[1].run = procs[1].run
  /\ at' = at /\ runs' = runs /\ (late => late')
  /\ \/ Main' = Tail(Main)
     \/ Main[1].op = "must"
     \/ Main[1].op = "need" /\ (Main[1].arg = "wifi_log" => late')
Same(c) ==
  /\ procs'[c].prog = procs[c].prog /\ procs'[c].what = procs[c].what
  /\ procs'[c].run = procs[c].run /\ procs'[c].fd = procs[c].fd
  /\ procs'[c].len = procs[c].len /\ procs'[c].data = procs[c].data

\* A step of the program that counts down comes after what is quick.
Waits ==
  /\ Does(1, "wait") => Settled
  /\ Does(1, "waitchild") => Settled \/ procs[last] = Gone

\* The program that has taken a step.
LEMMA MainGoes ==
  ASSUME ProcsOK, Main # <<>>, Goes
  PROVE  /\ 1 \in Pids /\ at = "run" /\ procs[1].run = runs
         /\ Main \in Seq(TestStep) /\ Main[1] \in TestStep /\ Step(1) = Main[1]
         /\ Len(Main) \in Nat \ {0}
         /\ Main' = Tail(Main) =>
              /\ Len(Main') = Len(Main) - 1
              /\ \A k \in 1 .. Len(Main) - 1 : Main'[k] = Main[k + 1]
<1>1. Main \in Seq(TestStep) /\ at = "run" /\ procs[1].run = runs /\ 1 \in Pids
  BY StationAssumption DEF ProcsOK, Pids
<1>2. /\ Len(Main) \in Nat \ {0} /\ Len(Tail(Main)) = Len(Main) - 1
      /\ Head(Main) = Main[1] /\ Main[1] \in TestStep
      /\ \A k \in 1 .. Len(Main) - 1 : Tail(Main)[k] = Main[k + 1]
  BY <1>1, TailOf
<1>3. Step(1) = Main[1]
  BY <1>2 DEF Step, Main
<1>4. ASSUME Main' = Tail(Main)
      PROVE  /\ Len(Main') = Len(Main) - 1
             /\ \A k \in 1 .. Len(Main) - 1 : Main'[k] = Main[k + 1]
  BY <1>2, <1>4
<1> DEFINE m == Main
           n == Main'
<1>5. n = Tail(m) => Len(n) = Len(m) - 1 /\ \A k \in 1 .. Len(m) - 1 : n[k] = m[k + 1]
  BY <1>4
<1> HIDE DEF m, n
<1> QED
  BY <1>1, <1>2, <1>3, <1>5 DEF m, n

\* A child that is left as it was does what it did.
LEMMA SameDoes ==
  ASSUME NEW d \in Pids, Same(d)
  PROVE  /\ Step(d)' = Step(d) /\ \A op : Does(d, op)' <=> Does(d, op)
         /\ Unopened(procs'[d]) <=> Unopened(procs[d])
<1>1. Step(d)' = Step(d) /\ procs'[d].prog = procs[d].prog
  BY DEF Same, Step
<1>2. \A op : Does(d, op)' <=> Does(d, op)
  BY <1>1 DEF Does
<1>3. Unopened(procs'[d]) <=> Unopened(procs[d])
  BY <1>1 DEF Unopened
<1> QED
  BY <1>1, <1>2, <1>3

\* No process loses its order by a step of the program.
LEMMA MainProcs ==
  ASSUME ProcsOK, Main # <<>>, Goes, \A c \in Pids \ {1} : Same(c) \/ ChildOK(procs'[c])
  PROVE  ProcsOK'
<1>1. Main' \in Seq(TestStep) /\ Orderly(Main')
  BY TailOrderly, EmptyOK DEF Goes, ProcsOK
<1>2. at = "run" /\ procs[1].run = runs
  BY MainGoes
<1>3. ASSUME NEW c \in Pids \ {1} PROVE ChildOK(procs'[c])
  BY DEF ProcsOK, Same, ChildOK
<1>4. /\ procs' \in [Pids -> Process] /\ (Main' # <<>> => at' = "run")
      /\ procs'[1].what = "none" /\ (at' # "exited" => procs'[1].run = runs')
  BY <1>2 DEF Goes, ProcsOK
<1> QED
  BY <1>1, <1>3, <1>4 DEF ProcsOK

\* While the program takes a step no child has a path to set, and no scan has its
\* file to open: the program waits for them.
LEMMA NothingQuick ==
  ASSUME MachineInv, Main # <<>>, at # "exited", Waits, NEW c \in Pids \ {1}
  PROVE  /\ ~ Does(c, "path")
         /\ procs[c].what = "bt_scan" => ~ Unopened(procs[c])
<1>1. ASSUME Does(c, "path") PROVE FALSE
  <2>1. Does(1, "wait")
    BY <1>1 DEF MachineInv, PlaysInv
  <2>2. c \in Quick
    BY <1>1 DEF Quick, Does, LongSteps
  <2> QED
    BY <2>1, <2>2 DEF Waits, Settled
<1>2. ASSUME procs[c].what = "bt_scan", Unopened(procs[c]) PROVE FALSE
  <2>1. Does(1, "waitchild") /\ last = c
    BY <1>2 DEF MachineInv, BtScanInv
  <2> DEFINE p == procs[c].prog
  <2>2. p \in Seq(AnyStep) /\ OrderlyChild(p, "bt_scan")
    BY <1>2 DEF MachineInv, ProcsOK, ChildOK, Process
  <2>3. PICK k \in 1 .. Len(p) : p[k].op = "open"
    BY <1>2 DEF Unopened
  <2>p. p = procs[c].prog
    OBVIOUS
  <2> HIDE DEF p
  <2>4. Len(p) \in Nat /\ k = Len(p) - 1 /\ 1 \in 1 .. Len(p)
    BY <2>2, <2>3 DEF OrderlyChild
  <2>5. p[1].op \in {"set", "power", "text", "open", "fill"} /\ p[1].op # "fill"
    BY <2>2, <2>4 DEF OrderlyChild
  <2>6. p # <<>> /\ Head(p) = p[1]
    BY <2>2, <2>4
  <2>7. procs[c].prog # <<>> /\ Step(c).op \in {"set", "power", "text", "open"}
    BY <2>5, <2>6, <2>p DEF Step
  <2>8. c \in Quick /\ procs[c] # Gone
    BY <2>7, GoneIs DEF Quick, LongSteps
  <2> QED
    BY <2>1, <2>8 DEF Waits, Settled
<1> QED
  BY <1>1, <1>2

\* What the invariants of the machine say of a child.
Kept(c) ==
  /\ Does(c, "path") => Does(1, "wait") /\ (Step(c).arg \notin Quiet => Recovers(Main))
  /\ procs[c].what = "dial" => procs[c].run = runs /\ Awaits(Main, "dial")
  /\ ~ late => (procs[c].what = "script" => procs[c].run = runs /\ Awaits(Main, "script"))
  /\ procs[c].what = "bt_scan" =>
       IF Unopened(procs[c])
       THEN /\ procs[c].run = runs /\ last = c /\ files["bt_log"] = NoFile
            /\ Does(1, "waitchild") /\ ~ Has(Main, "fork", "bt_scan")
       ELSE procs[c].fd = 1 + procs[c].run

\* A child that is left as it was, while the program takes a step that does not
\* kill it.
LEMMA MainKeeps ==
  ASSUME MachineInv, Main # <<>>, Goes, Waits, NEW c \in Pids \ {1},
         Same(c), procs[c].what \in {"dial", "script"} => ~ Is(Main[1], "kill", procs[c].what)
  PROVE  Kept(c)'
<1>0. /\ at = "run" /\ 1 \in Pids /\ Main \in Seq(TestStep) /\ Len(Main) \in Nat \ {0}
      /\ Main' = Tail(Main) =>
           /\ Len(Main') = Len(Main) - 1
           /\ \A k \in 1 .. Len(Main) - 1 : Main'[k] = Main[k + 1]
  BY MainGoes DEF MachineInv
<1>1. ~ Does(c, "path")' /\ (procs'[c].what = "bt_scan" => ~ Unopened(procs'[c]))
  BY <1>0, NothingQuick, SameDoes DEF Same
<1>2. ASSUME procs'[c].what = "dial" PROVE procs'[c].run = runs' /\ Awaits(Main', "dial")
  <2>1. procs[c].what = "dial" /\ procs[c].run = runs /\ Awaits(Main, "dial")
    BY <1>0, <1>2 DEF Same, MachineInv, DialInv
  <2>2. Len(Main) >= 2 /\ Main[1].op = "wait" /\ Is(Main[2], "kill", "dial")
    BY <2>1 DEF Awaits
  <2>3. Len(Main') >= 1 /\ Main'[1] = Main[2]
    BY <1>0, <2>2 DEF Goes
  <2> QED
    BY <2>1, <2>2, <2>3 DEF Goes, Same, Awaits
<1>3. ASSUME ~ late', procs'[c].what = "script"
      PROVE  procs'[c].run = runs' /\ Awaits(Main', "script")
  <2>1. ~ late /\ procs[c].what = "script" /\ procs[c].run = runs /\ Awaits(Main, "script")
    BY <1>0, <1>3 DEF Same, MachineInv, ScriptInv, Goes
  <2>2. CASE Len(Main) >= 2 /\ Is(Main[1], "need", "wifi_log") /\ Is(Main[2], "kill", "script")
    <3>1. Len(Main') >= 1 /\ Main'[1] = Main[2]
      BY <1>0, <1>3, <2>2 DEF Goes, Is
    <3> QED
      BY <2>1, <2>2, <3>1 DEF Goes, Same, Awaits
  <2>3. CASE /\ Len(Main) >= 3 /\ Main[1].op = "wait" /\ Is(Main[2], "need", "wifi_log")
             /\ Is(Main[3], "kill", "script")
    <3>1. Len(Main') >= 2 /\ Main'[1] = Main[2] /\ Main'[2] = Main[3]
      BY <1>0, <2>3 DEF Goes
    <3> QED
      BY <2>1, <2>3, <3>1 DEF Goes, Same, Awaits
  <2> QED
    BY <2>1, <2>2, <2>3 DEF Awaits
<1>4. ASSUME procs'[c].what = "bt_scan" PROVE procs'[c].fd = 1 + procs'[c].run
  BY <1>0, <1>1, <1>4, SameDoes DEF Same, MachineInv, BtScanInv
<1> QED
  BY <1>1, <1>2, <1>3, <1>4 DEF Kept

\* A process that is gone has nothing to keep.
LEMMA GoneKept ==
  ASSUME NEW c \in Pids, procs'[c] = Gone
  PROVE  Kept(c)' /\ ChildOK(procs'[c]) /\ RequestOK(c)' /\ procs'[c].what # "server"
<1>1. procs'[c].what = "none" /\ procs'[c].prog = <<>>
  BY GoneIs
<1> QED
  BY <1>1, EmptyOK DEF Kept, RequestOK, Does

\* The mixer, while the program takes a step.
LEMMA MainMixer ==
  ASSUME MachineInv, Main # <<>>, Goes,
         mixer' = IF Main[1].op = "path" THEN Main[1].arg ELSE mixer
  PROVE  MixerInv'
<1> SUFFICES ASSUME mixer' \notin Quiet PROVE Recovers(Main')
  BY DEF MixerInv
<1>0. /\ at = "run" /\ Main \in Seq(TestStep) /\ Len(Main) \in Nat \ {0}
      /\ Main' = Tail(Main) => Len(Main') = Len(Main) - 1
  BY MainGoes DEF MachineInv
<1>1. Recovers(Main)
  <2>1. CASE Main[1].op # "path"
    BY <1>0, <2>1 DEF MachineInv, MixerInv
  <2>2. CASE Main[1].op = "path"
    BY <1>0, <2>2 DEF MachineInv, ProcsOK, Orderly, Plays
  <2> QED
    BY <2>1, <2>2
<1>2. Main' = Tail(Main)
  BY <1>0, <1>1 DEF Goes, Recovers
<1>3. ~ (Tail(Main) = <<>> /\ Is(Main[1], "path", "speaker"))
  BY DEF Is, Quiet
<1> QED
  BY <1>0, <1>1, <1>2, <1>3, TailRecovers

\* What a step of the program does to the files it may judge later: it empties
\* one, or writes of its own run.
Writes ==
  \A f \in Files :
    \/ Resets(Main[1], f) /\ files'[f].wins = {} /\ (f = "bt_log" => files'[f] = NoFile)
    \/ ~ Resets(Main[1], f) /\ files'[f] = files[f]
    \/ /\ ~ Resets(Main[1], f) /\ f # "bt_log"
       /\ files'[f].wins \subseteq files[f].wins \cup {runs}

\* What the program will judge, while it takes a step.
LEMMA MainFiles ==
  ASSUME MachineInv, Main # <<>>, Goes, Writes
  PROVE  FilesInv' /\ ScanInv'
<1>0. at = "run" /\ Main \in Seq(TestStep) /\ "bt_log" \in Files
  BY MainGoes DEF MachineInv, Files
<1>1. ASSUME ~ late', NEW f \in Files, Judged(f)'
      PROVE  /\ files'[f].wins \subseteq {runs'}
             /\ f = "bt_log" => files'[f].inode \in {0, 1 + runs'}
  <2>1. Main' = Tail(Main) /\ Unreset(Tail(Main), f) /\ Has(Tail(Main), "judge", f)
    BY <1>1, EmptyOK DEF Goes, Judged
  <2>2. CASE Resets(Main[1], f)
    <3>1. files'[f].wins = {} /\ (f = "bt_log" => files'[f] = NoFile)
      BY <2>2 DEF Writes
    <3> QED
      BY <3>1 DEF NoFile
  <2>3. CASE ~ Resets(Main[1], f)
    <3>1. Judged(f)
      BY <1>0, <2>1, <2>3, TailHas, TailUnreset DEF Judged
    <3>2. ~ late /\ runs' = runs
      BY <1>1 DEF Goes
    <3>3. files[f].wins \subseteq {runs} /\ (f = "bt_log" => files[f].inode \in {0, 1 + runs})
      BY <1>0, <3>1, <3>2 DEF MachineInv, FilesInv
    <3>4. CASE files'[f] = files[f]
      BY <3>2, <3>3, <3>4
    <3>5. CASE f # "bt_log" /\ files'[f].wins \subseteq files[f].wins \cup {runs}
      BY <3>2, <3>3, <3>5
    <3> QED
      BY <2>3, <3>4, <3>5 DEF Writes
  <2> QED
    BY <2>2, <2>3
<1>2. ASSUME Has(Main', "fork", "bt_scan"), Unreset(Main', "bt_log")
      PROVE  files'["bt_log"] = NoFile
  <2>1. /\ Main' = Tail(Main) /\ Unreset(Tail(Main), "bt_log")
        /\ Has(Tail(Main), "fork", "bt_scan")
    BY <1>2, EmptyOK DEF Goes
  <2>2. CASE Resets(Main[1], "bt_log")
    BY <1>0, <2>2 DEF Writes
  <2>3. CASE ~ Resets(Main[1], "bt_log")
    <3>1. Has(Main, "fork", "bt_scan") /\ Unreset(Main, "bt_log")
      BY <1>0, <2>1, <2>3, TailHas, TailUnreset
    <3>2. files["bt_log"] = NoFile
      BY <1>0, <3>1 DEF MachineInv, ScanInv
    <3> QED
      BY <1>0, <2>3, <3>2 DEF Writes
  <2> QED
    BY <2>2, <2>3
<1>3. FilesInv'
  BY <1>1 DEF FilesInv
<1> QED
  BY <1>2, <1>3 DEF ScanInv

\* A test announces the server once the log was copied.
LEMMA MainServer ==
  ASSUME MachineInv, Main # <<>>, Goes,
         copy' # copy => copy' # -1, Main[1].op = "truncate" => copy' # -1
  PROVE  Has(Main', "fork", "server") => copy' # -1 \/ Main'[1].op = "truncate"
<1> SUFFICES ASSUME Has(Main', "fork", "server"), copy' = -1 PROVE FALSE
  OBVIOUS
<1>1. Main \in Seq(TestStep) /\ Main' = Tail(Main)
  BY MainGoes, EmptyOK DEF MachineInv, Goes
<1>2. Has(Main, "fork", "server")
  BY <1>1, TailHas
<1> QED
  BY <1>2 DEF MachineInv, LogInv

\* The step of a test gives the machine what the invariant asks for; the children
\* that are not as they were are those it starts and kills.
LEMMA MainInv ==
  ASSUME MachineInv, Main # <<>>, Goes, Waits, Writes, TypesOK',
         mixer' = IF Main[1].op = "path" THEN Main[1].arg ELSE mixer,
         copy' # copy => copy' # -1, Main[1].op = "truncate" => copy' # -1,
         \A c \in Pids \ {1} :
           \/ Same(c) /\ (procs[c].what \in {"dial", "script"} => ~ Is(Main[1], "kill", procs[c].what))
           \/ Kept(c)' /\ ChildOK(procs'[c]) /\ (procs'[c].what = "server" => copy' # -1),
         \A c \in Pids \ {1} : RequestOK(c)',
         VerdictInv', WholeReport'
  PROVE  MachineInv'
<1>1. ProcsOK'
  BY MainProcs DEF MachineInv
<1>2. \A c \in Pids \ {1} : Kept(c)'
  BY MainKeeps
<1>3. PlaysInv' /\ DialInv' /\ ScriptInv' /\ BtScanInv'
  BY <1>2 DEF PlaysInv, DialInv, ScriptInv, BtScanInv, Kept
<1>4. LogInv'
  <2>1. procs'[1].what = "none"
    BY DEF Goes, MachineInv, ProcsOK
  <2>2. copy' = -1 => \A c \in Pids : procs'[c].what # "server"
    BY <2>1 DEF Same, MachineInv, LogInv
  <2>3. \A c \in Pids : RequestOK(c)'
    BY <2>1 DEF RequestOK
  <2> QED
    BY <2>2, <2>3, MainServer DEF LogInv
<1> QED
  BY <1>1, <1>3, <1>4, MainMixer, MainFiles DEF MachineInv

\* A step of the program alone.
LEMMA MainAlone ==
  ASSUME MachineInv, Main # <<>>, Goes, Waits, Writes,
         \A c \in Pids \ {1} : procs'[c] = procs[c],
         files' \in [Files -> [inode : Nat, wins : SUBSET Nat]],
         btpower' \in BOOLEAN, late' \in BOOLEAN, UNCHANGED <<last, log, copy, replies>>,
         mixer' = IF Main[1].op = "path" THEN Main[1].arg ELSE mixer,
         Main[1].op \notin {"truncate", "kill"}, VerdictInv'
  PROVE  MachineInv'
<1>2. \A c \in Pids \ {1} : Same(c) /\ Step(c)' = Step(c)
  BY DEF Same, Step
<1>3. \A c \in Pids \ {1} : RequestOK(c)'
  BY <1>2 DEF MachineInv, LogInv, RequestOK, Does
<1>4. TypesOK' /\ WholeReport'
  BY DEF MachineInv, TypesOK, WholeReport, Goes
<1>5. \A c \in Pids \ {1} : procs[c].what \in {"dial", "script"} => ~ Is(Main[1], "kill", procs[c].what)
  BY DEF Is
<1> QED
  BY <1>2, <1>3, <1>4, <1>5, MainInv

\* What a step of the program is.
LEMMA MainStep ==
  ASSUME MachineInv, Main # <<>>
  PROVE  /\ 1 \in Pids /\ procs[1].prog = Main /\ at = "run" /\ Step(1) = Main[1] /\ Main[1] \in TestStep
         /\ \A op : Does(1, op) <=> Main[1].op = op
<1>1. 1 \in Pids /\ Main = procs[1].prog
  BY StationAssumption DEF Pids, Main
<1>2. /\ at = "run" /\ Step(1) = Main[1] /\ Main[1] \in TestStep
  BY <1>1, Heads DEF MachineInv
<1> QED
  BY <1>1, <1>2 DEF Does

\* A step that leaves the program its rest.
LEMMA MainThen ==
  ASSUME MachineInv, Main # <<>>, procs' = Then(1), UNCHANGED <<at, runs>>, late => late'
  PROVE  Goes /\ Moved(1)
<1>1. 1 \in Pids /\ Main = procs[1].prog
  BY MainStep
<1>2. Onward(1)
  BY <1>1, ThenMoves DEF MachineInv
<1> QED
  BY <1>1, <1>2 DEF Onward, Moved, Goes, Main

\* A step that ends the program's test.
LEMMA MainStops ==
  ASSUME MachineInv, Main # <<>>, procs' = Stops(1), UNCHANGED <<at, runs>>, late => late',
         \/ Main[1].op = "must"
         \/ Main[1].op = "need" /\ (Main[1].arg = "wifi_log" => late')
  PROVE  Goes /\ Moved(1)
<1>1. 1 \in Pids /\ Main = procs[1].prog
  BY MainStep
<1>2. Moved(1) /\ procs'[1].prog = <<>>
  BY <1>1, StopsMoves DEF MachineInv
<1> QED
  BY <1>1, <1>2 DEF Moved, Goes, Main

\* The steps of the program that keep to themselves.
LEMMA MainQuiet ==
  ASSUME MachineInv, Main # <<>>, 
         Path(1) \/ Countdown(1) \/ Block(1) \/ Text(1) \/ Set(1) \/ Power(1)
  PROVE  MachineInv'
<1>0. /\ 1 \in Pids /\ at = "run" /\ Step(1) = Main[1] /\ Main[1] \in TestStep
      /\ \A op : Does(1, op) <=> Main[1].op = op
  BY MainStep
<1>1. /\ Main[1].op \in {"path", "wait", "waitchild", "block", "try", "text", "set", "must", "power"}
      /\ Main[1].op # "path" => mixer' = mixer
      /\ Main[1].op = "path" => mixer' = Main[1].arg
      /\ UNCHANGED <<at, runs, last, log, copy, replies, files, late, verdict>>
      /\ btpower' \in BOOLEAN
  BY <1>0 DEF Path, Countdown, Block, Text, Set, Power, control, finger, history, MachineInv,
     TypesOK
<1>2. procs' = Then(1) \/ (procs' = Stops(1) /\ Main[1].op = "must")
  <2>1. Main[1].op # "try"
    BY <1>0 DEF TestStep, PlainOps, FileOps
  <2> QED
    BY <1>0, <2>1 DEF Path, Countdown, Block, Text, Set, Power
<1>3. Goes /\ Moved(1)
  <2>1. at' = at /\ runs' = runs /\ late' = late
    BY <1>1
  <2>2. CASE procs' = Then(1)
    BY <2>1, <2>2, MainThen
  <2>3. CASE procs' = Stops(1) /\ Main[1].op = "must"
    BY <2>1, <2>3, MainStops
  <2> QED
    BY <1>2, <2>2, <2>3
<1>4. Waits
  <2>1. CASE Countdown(1)
    BY <2>1, <1>0 DEF Waits, Countdown
  <2>2. CASE ~ Countdown(1)
    BY <2>2, <1>0 DEF Waits, Path, Block, Text, Set, Power
  <2> QED
    BY <2>1, <2>2
<1>5. Writes
  BY <1>1 DEF Writes, Resets
<1>6. VerdictInv' /\ files' \in [Files -> [inode : Nat, wins : SUBSET Nat]] /\ late' \in BOOLEAN
  BY <1>1 DEF MachineInv, VerdictInv, TypesOK
<1> QED
  BY <1>1, <1>3, <1>4, <1>5, <1>6, MainAlone DEF Moved

\* The processes after one has taken a step.
LEMMA ThenIs ==
  ASSUME ProcsOK, NEW i \in Pids, procs[i].prog # <<>>
  PROVE  /\ Then(i) \in [Pids -> Process]
         /\ \A c \in Pids \ {i} : Then(i)[c] = procs[c]
         /\ \/ /\ i = 1 \/ Tail(procs[i].prog) # <<>>
               /\ Then(i)[i] = [procs[i] EXCEPT !.prog = Tail(procs[i].prog)]
            \/ i # 1 /\ Tail(procs[i].prog) = <<>> /\ Then(i)[i] = Gone
<1>1. procs \in [Pids -> Process] /\ procs[i].prog \in Seq(AnyStep)
  BY DEF ProcsOK, Process
<1> DEFINE rest == [procs[i] EXCEPT !.prog = Tail(procs[i].prog)]
<1>2. Tail(procs[i].prog) \in Seq(AnyStep)
  BY <1>1, TailOf
<1>3. rest \in Process /\ rest.prog = Tail(procs[i].prog)
  BY <1>1, <1>2 DEF Process
<1>4. Then(i) = [procs EXCEPT ![i] = IF i # 1 /\ rest.prog = <<>> THEN Gone ELSE rest]
  BY DEF Then
<1>5. rest = [procs[i] EXCEPT !.prog = Tail(procs[i].prog)]
  OBVIOUS
<1> HIDE DEF rest
<1>6. Then(i) \in [Pids -> Process] /\ \A c \in Pids \ {i} : Then(i)[c] = procs[c]
  BY <1>1, <1>3, <1>4, GoneIs
<1>7. Then(i)[i] = IF i # 1 /\ rest.prog = <<>> THEN Gone ELSE rest
  BY <1>1, <1>4
<1> QED
  BY <1>3, <1>5, <1>6, <1>7

\* The program's own files.
LEMMA MainFile ==
  ASSUME MachineInv, Main # <<>>, File(1) PROVE MachineInv'
<1>0. /\ 1 \in Pids /\ at = "run" /\ Step(1) = Main[1] /\ Main[1] \in TestStep
      /\ procs[1].prog = Main /\ \A op : Does(1, op) <=> Main[1].op = op
  BY MainStep
<1> DEFINE f == Main[1].arg
           n == IF files[f] = NoFile THEN 1 + runs ELSE files[f].inode
<1>1. /\ UNCHANGED <<at, runs, last, log, copy, replies, late, verdict, mixer, btpower>>
      /\ Main[1].op \in {"unlink", "open", "fill"} /\ f \in Files
  BY <1>0 DEF File, control, finger, history, TestStep, PlainOps, FileOps
<1>2. /\ Main \in Seq(TestStep) /\ 1 \in 1 .. Len(Main) /\ Judges(Main)
      /\ procs[1].run = runs /\ runs \in Nat
      /\ files \in [Files -> [inode : Nat, wins : SUBSET Nat]]
  <2>1. Main \in Seq(TestStep) /\ Judges(Main) /\ procs[1].run = runs
    BY <1>0 DEF MachineInv, ProcsOK, Orderly
  <2> QED
    BY <2>1, TailOf DEF MachineInv, TypesOK
<1>3. n \in Nat
  BY <1>1, <1>2
<1>4. /\ \A c \in Pids \ {1} : procs'[c] = procs[c]
      /\ Goes
  <2>1. CASE procs' = Then(1)
    BY <2>1, <1>1, MainThen DEF Moved
  <2>2. CASE procs' = [Then(1) EXCEPT ![1].fd = n]
    <3>1. /\ Then(1) \in [Pids -> Process] /\ \A c \in Pids \ {1} : Then(1)[c] = procs[c]
          /\ Then(1)[1] = [procs[1] EXCEPT !.prog = Tail(procs[1].prog)]
      BY <1>0, ThenIs DEF MachineInv
    <3> HIDE DEF n
    <3>2. /\ procs' \in [Pids -> Process]
          /\ \A c \in Pids \ {1} : procs'[c] = procs[c]
      <4> DEFINE t == Then(1)
                 new == [t[1] EXCEPT !.fd = n]
      <4>1. t \in [Pids -> Process] /\ t[1] \in Process /\ \A c \in Pids \ {1} : t[c] = procs[c]
        BY <3>1, <1>0
      <4>2. procs' = [t EXCEPT ![1] = new]
        BY <2>2
      <4> HIDE DEF t
      <4>3. new \in Process
        BY <4>1, <1>3 DEF Process
      <4> HIDE DEF new
      <4> QED
        BY <4>1, <4>2, <4>3
    <3>3. procs[1] \in Process
      BY <1>0 DEF MachineInv, ProcsOK
    <3>4. Then(1)[1].prog = Tail(Main) /\ Then(1)[1].what = procs[1].what /\ Then(1)[1].run = procs[1].run
      BY <3>1, <3>3, <1>0 DEF Process
    <3>5. procs'[1].prog = Tail(Main) /\ procs'[1].what = procs[1].what /\ procs'[1].run = procs[1].run
      BY <3>1, <3>4, <2>2, <1>0 DEF Process
    <3> QED
      BY <3>2, <3>5, <1>1 DEF Goes, Main
  <2> QED
    BY <1>0, <1>1, <2>1, <2>2 DEF File
<1>5. files' \in [Files -> [inode : Nat, wins : SUBSET Nat]] /\ Writes
  <2> HIDE DEF f, n
  <2>a. \A g \in Files : Resets(Main[1], g) <=> Main[1].op \in {"unlink", "open"} /\ g = f
    BY DEF Resets, f
  <2>1. CASE Main[1].op = "unlink"
    <3>1. files' = [files EXCEPT ![f] = NoFile]
      BY <2>1, <1>0 DEF File, f
    <3> QED
      BY <3>1, <2>a, <2>1, <1>1, <1>2 DEF Writes, NoFile
  <2>2. CASE Main[1].op = "open"
    <3>1. files' = [files EXCEPT ![f] = [inode |-> n, wins |-> {}]]
      BY <2>2, <1>0 DEF File, f, n
    <3>2. f # "bt_log"
      BY <2>2, <1>2 DEF Judges, f
    <3> QED
      BY <3>1, <3>2, <2>a, <2>2, <1>1, <1>2, <1>3 DEF Writes
  <2>3. CASE Main[1].op = "fill"
    <3>1. \/ files' = files
          \/ files' = [files EXCEPT ![f].wins = files[f].wins \cup {procs[1].run}]
      BY <2>3, <1>0 DEF File, f
    <3>2. f # "bt_log"
      BY <2>3, <1>2 DEF Judges, f
    <3> QED
      BY <3>1, <3>2, <2>a, <2>3, <1>1, <1>2 DEF Writes
  <2> QED
    BY <1>1, <2>1, <2>2, <2>3
<1>6. Waits
  BY <1>0, <1>1 DEF Waits
<1>7. VerdictInv' /\ btpower' \in BOOLEAN /\ late' \in BOOLEAN
  BY <1>1 DEF MachineInv, VerdictInv, TypesOK
<1> QED
  BY <1>1, <1>4, <1>5, <1>6, <1>7, MainAlone

\* The program looks for a file, and judges one.
LEMMA MainReads ==
  ASSUME MachineInv, Main # <<>>, Need(1) \/ Judge(1) PROVE MachineInv'
<1>0. /\ 1 \in Pids /\ at = "run" /\ Step(1) = Main[1] /\ Main[1] \in TestStep
      /\ procs[1].prog = Main /\ \A op : Does(1, op) <=> Main[1].op = op
  BY MainStep
<1>1. /\ UNCHANGED <<at, runs, last, log, copy, replies, mixer, btpower, files>>
      /\ Main[1].op \in {"need", "judge"} /\ late \in BOOLEAN /\ late' \in BOOLEAN /\ (late => late')
  BY <1>0 DEF Need, Judge, control, finger, history, MachineInv, TypesOK
<1>2. Goes /\ Moved(1)
  <2>1. CASE procs' = Then(1)
    BY <2>1, <1>1, MainThen
  <2>2. CASE procs' # Then(1)
    <3>1. /\ procs' = Stops(1) /\ Main[1].op = "need"
          /\ Main[1].arg = "wifi_log" => late'
      BY <2>2, <1>0 DEF Need, Judge
    <3> QED
      BY <3>1, <1>1, MainStops
  <2> QED
    BY <2>1, <2>2
<1>3. Waits /\ Writes
  BY <1>0, <1>1 DEF Waits, Writes, Resets
<1>4. VerdictInv'
  <2> SUFFICES ASSUME ~ late' PROVE verdict'.run \in verdict'.from
    BY DEF VerdictInv
  <2>1. CASE verdict' = verdict
    BY <2>1, <1>1 DEF MachineInv, VerdictInv
  <2>2. CASE verdict' # verdict
    <3> DEFINE f == Main[1].arg
    <3>1. /\ Main[1].op = "judge" /\ files[f].wins # {}
          /\ verdict' = [run |-> procs[1].run, from |-> files[f].wins]
      BY <2>2, <1>0 DEF Need, Judge
    <3>2. /\ Main \in Seq(TestStep) /\ Judges(Main) /\ procs[1].run = runs
          /\ 1 \in 1 .. Len(Main)
      <4>1. Main \in Seq(TestStep) /\ Judges(Main) /\ procs[1].run = runs
        BY <1>0 DEF MachineInv, ProcsOK, Orderly
      <4> QED
        BY <4>1, TailOf
    <3>3. f \in Files /\ Judged(f)
      BY <1>0, <3>1, <3>2 DEF Judged, Unreset, Has, Is, Judges, TestStep, PlainOps, FileOps
    <3>4. files[f].wins \subseteq {runs}
      BY <1>0, <1>1, <3>3 DEF MachineInv, FilesInv
    <3>5. runs \in files[f].wins
      BY <3>1, <3>4
    <3> QED
      BY <3>1, <3>2, <3>5
  <2> QED
    BY <2>1, <2>2
<1>5. btpower' \in BOOLEAN /\ files' \in [Files -> [inode : Nat, wins : SUBSET Nat]]
  BY <1>1 DEF MachineInv, TypesOK
<1> QED
  BY <1>1, <1>2, <1>3, <1>4, <1>5, MainAlone DEF Moved

\* The program copies the log: what is answered meanwhile is torn.
LEMMA MainCopy ==
  ASSUME MachineInv, Main # <<>>, Copy(1) PROVE MachineInv'
<1>0. /\ 1 \in Pids /\ at = "run" /\ Step(1) = Main[1] /\ Main[1] \in TestStep
      /\ procs[1].prog = Main /\ \A op : Does(1, op) <=> Main[1].op = op
  BY MainStep
<1>1. /\ UNCHANGED <<at, runs, last, log, replies, mixer, btpower, files, late, verdict>>
      /\ Main[1].op \in {"truncate", "copy"}
      /\ copy' = IF Main[1].op = "copy" THEN log ELSE 0
      /\ procs' = [c \in Pids |-> [Then(1)[c] EXCEPT !.torn = Then(1)[c].torn \/ Then(1)[c].what = "request"]]
  BY <1>0 DEF Copy, control, finger, history
<1>2. log \in Nat /\ copy' \in Nat
  BY <1>1 DEF MachineInv, TypesOK
<1>3. /\ Then(1) \in [Pids -> Process] /\ \A c \in Pids \ {1} : Then(1)[c] = procs[c]
      /\ Then(1)[1] = [procs[1] EXCEPT !.prog = Tail(Main)]
  BY <1>0, ThenIs DEF MachineInv
<1>4. ASSUME NEW c \in Pids
      PROVE  LET r == Then(1)[c] IN
             /\ procs'[c] \in Process /\ procs'[c].prog = r.prog /\ procs'[c].what = r.what
             /\ procs'[c].run = r.run /\ procs'[c].fd = r.fd
             /\ procs'[c].len = r.len /\ procs'[c].data = r.data
             /\ r.what = "request" => procs'[c].torn
  <2> DEFINE r == Then(1)[c]
  <2>1. r \in Process /\ procs'[c] = [r EXCEPT !.torn = r.torn \/ r.what = "request"]
    BY <1>1, <1>3
  <2> HIDE DEF r
  <2>2. (r.torn \/ r.what = "request") \in BOOLEAN
    OBVIOUS
  <2>3. /\ procs'[c] \in Process /\ procs'[c].prog = r.prog /\ procs'[c].what = r.what
        /\ procs'[c].run = r.run /\ procs'[c].fd = r.fd
        /\ procs'[c].len = r.len /\ procs'[c].data = r.data
        /\ procs'[c].torn = (r.torn \/ r.what = "request")
    BY <2>1, <2>2 DEF Process
  <2> QED
    BY <2>3 DEF r
<1>5. \A c \in Pids \ {1} : Same(c) /\ RequestOK(c)'
  BY <1>3, <1>4 DEF Same, RequestOK
<1>6. Goes
  <2>1. procs' \in [Pids -> Process]
    BY <1>1, <1>4
  <2>2. procs[1] \in Process
    BY <1>0 DEF MachineInv, ProcsOK
  <2> DEFINE t == Then(1)[1]
  <2>t. /\ procs'[1].prog = t.prog /\ procs'[1].what = t.what /\ procs'[1].run = t.run
        /\ t = [procs[1] EXCEPT !.prog = Tail(Main)]
    BY <1>0, <1>3, <1>4
  <2> HIDE DEF t
  <2>3. procs'[1].prog = Tail(Main) /\ procs'[1].what = procs[1].what /\ procs'[1].run = procs[1].run
    BY <2>2, <2>t DEF Process
  <2> QED
    BY <1>1, <2>1, <2>3 DEF Goes, Main
<1>7. Waits /\ Writes
  BY <1>0, <1>1 DEF Waits, Writes, Resets
<1>8. TypesOK' /\ VerdictInv' /\ WholeReport'
  BY <1>1, <1>2 DEF MachineInv, TypesOK, VerdictInv, WholeReport
<1>9. /\ \A c \in Pids \ {1} : procs[c].what \in {"dial", "script"} => ~ Is(Main[1], "kill", procs[c].what)
      /\ copy' # -1 /\ mixer' = IF Main[1].op = "path" THEN Main[1].arg ELSE mixer
  BY <1>1, <1>2 DEF Is
<1> QED
  BY <1>5, <1>6, <1>7, <1>8, <1>9, MainInv

\* The program kills.
LEMMA MainKill ==
  ASSUME MachineInv, Main # <<>>, Kill(1) PROVE MachineInv'
<1>0. /\ 1 \in Pids /\ at = "run" /\ Step(1) = Main[1] /\ Main[1] \in TestStep
      /\ procs[1].prog = Main /\ \A op : Does(1, op) <=> Main[1].op = op
  BY MainStep
<1>1. /\ UNCHANGED <<at, runs, last, log, copy, replies, mixer, btpower, files, late, verdict>>
      /\ Main[1].op = "kill"
      /\ procs' = [c \in Pids |-> IF c \in Slain(Main[1].arg) /\ c # 1 THEN Gone ELSE Then(1)[c]]
  BY <1>0 DEF Kill, control, finger, history
<1>2. /\ Then(1) \in [Pids -> Process] /\ \A c \in Pids \ {1} : Then(1)[c] = procs[c]
      /\ Then(1)[1] = [procs[1] EXCEPT !.prog = Tail(Main)]
  BY <1>0, ThenIs DEF MachineInv
<1>3. ASSUME NEW c \in Pids \ {1}
      PROVE  \/ procs'[c] = Gone
             \/ procs'[c] = procs[c] /\ ~ Is(Main[1], "kill", procs[c].what)
  BY <1>1, <1>2 DEF Slain, Is
<1>4. Goes
  <2>1. procs' \in [Pids -> Process]
    BY <1>1, <1>2, GoneIs
  <2>2. procs[1] \in Process
    BY <1>0 DEF MachineInv, ProcsOK
  <2>3. procs'[1].prog = Tail(Main) /\ procs'[1].what = procs[1].what /\ procs'[1].run = procs[1].run
    BY <1>0, <1>1, <1>2, <2>2 DEF Process
  <2> QED
    BY <1>1, <2>1, <2>3 DEF Goes, Main
<1>5. ASSUME NEW c \in Pids \ {1}
      PROVE  /\ \/ Same(c) /\ (procs[c].what \in {"dial", "script"} => ~ Is(Main[1], "kill", procs[c].what))
                \/ Kept(c)' /\ ChildOK(procs'[c]) /\ (procs'[c].what = "server" => copy' # -1)
             /\ RequestOK(c)'
  <2>1. CASE procs'[c] = Gone
    BY <2>1, GoneKept
  <2>2. CASE procs'[c] = procs[c] /\ ~ Is(Main[1], "kill", procs[c].what)
    <3>1. Same(c) /\ Step(c)' = Step(c)
      BY <2>2 DEF Same, Step
    <3> QED
      BY <3>1, <2>2, <1>1 DEF MachineInv, LogInv, RequestOK, Does
  <2> QED
    BY <1>3, <2>1, <2>2
<1>6. Waits /\ Writes
  BY <1>0, <1>1 DEF Waits, Writes, Resets
<1>7. TypesOK' /\ VerdictInv' /\ WholeReport'
  BY <1>1 DEF MachineInv, TypesOK, VerdictInv, WholeReport
<1>8. mixer' = IF Main[1].op = "path" THEN Main[1].arg ELSE mixer
  BY <1>1
<1> QED
  BY <1>1, <1>4, <1>5, <1>6, <1>7, <1>8, MainInv

\* The child that the program starts with a step.
LEMMA Born ==
  ASSUME MachineInv, Main # <<>>, Goes, Main' = Tail(Main), NEW c \in Pids \ {1},
         Main[1].op \in {"fork", "spawn"},
         procs'[c].prog = Child(Main[1].arg, btpower), procs'[c].run = runs,
         procs'[c].what = IF Main[1].op = "spawn" THEN "script" ELSE Main[1].arg,
         Main[1].op = "fork" => last' = c, files' = files, copy' = copy
  PROVE  /\ Kept(c)' /\ ChildOK(procs'[c]) /\ RequestOK(c)'
         /\ procs'[c].what = "server" => copy' # -1
<1> DEFINE p == procs'[c].prog
           what == procs'[c].what
<1>0. /\ at = "run" /\ 1 \in Pids /\ Main \in Seq(TestStep) /\ Len(Main) \in Nat \ {0}
      /\ Main[1] \in TestStep /\ Len(Main') = Len(Main) - 1
      /\ \A k \in 1 .. Len(Main) - 1 : Main'[k] = Main[k + 1]
      /\ runs' = runs /\ btpower \in BOOLEAN
  BY MainGoes DEF MachineInv, TypesOK, Goes
<1>1. /\ Forks(Main) /\ Plays(Main) /\ 1 \in 1 .. Len(Main)
  BY <1>0 DEF MachineInv, ProcsOK, Orderly
<1>2. \/ Main[1].op = "fork" /\ Main[1].arg \in Children /\ what = Main[1].arg
      \/ Main[1].op = "spawn" /\ Main[1].arg = "wifi" /\ what = "script"
  BY <1>0 DEF TestStep, PlainOps, FileOps
<1>3. /\ p \in Seq(ChildStep(what)) /\ OrderlyChild(p, what) /\ Len(p) >= 1
      /\ what = "bt_scan" => Len(p) >= 2
  <2>p. p = Child(Main[1].arg, btpower) /\ btpower \in BOOLEAN
    BY <1>0
  <2> HIDE DEF p, what
  <2>1. CASE Main[1].op = "fork" /\ Main[1].arg \in Children /\ what = Main[1].arg
    <3>1. /\ p \in Seq(ChildStep(what)) /\ OrderlyChild(p, what)
          /\ Len(p) >= IF what = "bt_scan" THEN 2 ELSE 1
      BY <2>p, <2>1, ChildrenGood
    <3>2. Len(p) \in Nat
      BY <3>1
    <3> QED
      BY <3>1, <3>2
  <2>2. CASE Main[1].op = "spawn" /\ Main[1].arg = "wifi" /\ what = "script"
    BY <2>p, <2>2, ChildrenGood
  <2> QED
    BY <1>2, <2>1, <2>2
<1>4. ChildOK(procs'[c])
  BY <1>3 DEF ChildOK
<1>5. RequestOK(c)'
  BY <1>2 DEF RequestOK, Children
<1>6. ASSUME what = "server" PROVE copy' # -1
  <2>1. Is(Main[1], "fork", "server")
    BY <1>2, <1>6 DEF Is
  <2>2. Has(Main, "fork", "server") /\ Main[1].op # "truncate"
    BY <2>1, <1>1 DEF Has, Is
  <2> QED
    BY <2>2 DEF MachineInv, LogInv
<1>7. Step(c)' = p[1] /\ p[1] \in ChildStep(what)
  <2>1. p # <<>> /\ Head(p) = p[1] /\ p[1] \in ChildStep(what)
    BY <1>3
  <2> QED
    BY <2>1 DEF Step
<1>h. Len(Main) >= 2 => Main' # <<>> /\ Main'[1] = Main[2]
  <2> DEFINE m == Main
             n == Main'
  <2>1. Len(n) = Len(m) - 1 /\ Len(m) \in Nat /\ \A k \in 1 .. Len(m) - 1 : n[k] = m[k + 1]
    BY <1>0
  <2> HIDE DEF m, n
  <2>2. ASSUME Len(m) >= 2 PROVE Len(n) >= 1 /\ n[1] = m[2]
    BY <2>1, <2>2
  <2>3. Len(m) >= 2 => n # <<>> /\ n[1] = m[2]
    BY <2>2
  <2> QED
    BY <2>3 DEF m, n
<1>i. ASSUME Len(Main) >= 2, NEW op, Main[2].op = op PROVE Does(1, op)'
  <2>1. Main' # <<>> /\ Main'[1] = Main[2] /\ Main' = procs'[1].prog
    BY <1>h, <1>i DEF Main
  <2>2. Main' \in Seq(TestStep)
    BY <1>0, TailOf
  <2>3. Head(Main') = Main[2]
    BY <2>1, <2>2
  <2> QED
    BY <2>1, <2>3, <1>i DEF Does, Step
<1>8. ASSUME Does(c, "path")'
      PROVE  Does(1, "wait")' /\ (Step(c)'.arg \notin Quiet => Recovers(Main'))
  <2>1. p[1].op = "path"
    BY <1>7, <1>8 DEF Does
  <2>2. what \in Players /\ (p[1].arg \in Quiet \/ what \in Loops)
    BY <1>7, <2>1 DEF ChildStep, ChildOps
  <2>3. Main[1].op = "fork" /\ Main[1].arg = what
    BY <1>2, <2>2 DEF Players, Loops
  <2>4. Len(Main) >= 2 /\ Main[2].op = "wait" /\ (what \in Loops => Recovers(Main))
    BY <1>0, <1>1, <2>2, <2>3 DEF Plays
  <2>5. Does(1, "wait")'
    BY <2>4, <1>i
  <2>6. ASSUME Step(c)'.arg \notin Quiet PROVE Recovers(Main')
    <3>1. Recovers(Main)
      BY <2>2, <2>4, <2>6, <1>7
    <3>2. Main' # <<>>
      BY <2>4, <1>h
    <3> QED
      BY <3>1, <3>2, <1>0, TailRecovers
  <2> QED
    BY <2>5, <2>6
<1>9. ASSUME what = "dial" PROVE procs'[c].run = runs' /\ Awaits(Main', "dial")
  <2>1. Is(Main[1], "fork", "dial")
    BY <1>2, <1>9 DEF Is
  <2>2. Len(Main) >= 3 /\ Main[2].op = "wait" /\ Is(Main[3], "kill", "dial")
    BY <1>0, <1>1, <2>1 DEF Forks
  <2>3. Len(Main') >= 2 /\ Main'[1] = Main[2] /\ Main'[2] = Main[3]
    BY <1>0, <2>2
  <2> QED
    BY <1>0, <2>2, <2>3 DEF Awaits
<1>10. ASSUME what = "script" PROVE procs'[c].run = runs' /\ Awaits(Main', "script")
  <2>1. Is(Main[1], "spawn", "wifi")
    BY <1>2, <1>10 DEF Is, Children
  <2>2. /\ Len(Main) >= 4 /\ Main[2].op = "wait"
        /\ Is(Main[3], "need", "wifi_log") /\ Is(Main[4], "kill", "script")
    BY <1>0, <1>1, <2>1 DEF Forks
  <2>3. Len(Main') >= 3 /\ Main'[1] = Main[2] /\ Main'[2] = Main[3] /\ Main'[3] = Main[4]
    BY <1>0, <2>2
  <2> QED
    BY <1>0, <2>2, <2>3 DEF Awaits
<1>11. ASSUME what = "bt_scan"
       PROVE  /\ Unopened(procs'[c]) /\ procs'[c].run = runs' /\ last' = c
              /\ files'["bt_log"] = NoFile /\ Does(1, "waitchild")'
              /\ ~ Has(Main', "fork", "bt_scan")
  <2>1. Is(Main[1], "fork", "bt_scan") /\ last' = c
    BY <1>2, <1>11 DEF Is
  <2>2. /\ Len(Main) >= 2 /\ Main[2].op = "waitchild"
        /\ \A j \in 2 .. Len(Main) : Main[j].op # "fork" /\ ~ Resets(Main[j], "bt_log")
    BY <1>0, <1>1, <2>1 DEF Forks
  <2>3. ~ Resets(Main[1], "bt_log")
    BY <2>1 DEF Is, Resets
  <2>4. Unreset(Main, "bt_log") /\ Has(Main, "fork", "bt_scan")
    BY <2>1, <2>2, <2>3, <1>1 DEF Unreset, Has
  <2>5. files["bt_log"] = NoFile
    BY <2>4, <1>0 DEF MachineInv, ScanInv
  <2>6. ~ Has(Main', "fork", "bt_scan")
    BY <2>2, <1>0 DEF Has, Is
  <2>7. Unopened(procs'[c])
    <3>1. Len(p) - 1 \in 1 .. Len(p) /\ p[Len(p) - 1].op = "open"
      BY <1>3, <1>11 DEF OrderlyChild
    <3> QED
      BY <3>1 DEF Unopened
  <2> QED
    BY <2>1, <2>2, <2>5, <2>6, <2>7, <1>0, <1>i
<1>12. Kept(c)'
  BY <1>8, <1>9, <1>10, <1>11 DEF Kept
<1> QED
  BY <1>4, <1>5, <1>6, <1>12

\* The program forks, or exits when it cannot.
LEMMA MainFork ==
  ASSUME MachineInv, Main # <<>>, Fork(1) PROVE MachineInv'
<1>0. /\ 1 \in Pids /\ at = "run" /\ Step(1) = Main[1] /\ Main[1] \in TestStep
      /\ procs[1].prog = Main /\ \A op : Does(1, op) <=> Main[1].op = op
  BY MainStep
<1>1. /\ UNCHANGED <<runs, log, copy, replies, mixer, btpower, files, late, verdict>>
      /\ Main[1].op \in {"fork", "spawn"} /\ btpower \in BOOLEAN
      /\ procs[1].run = runs /\ runs \in Nat
  BY <1>0 DEF Fork, finger, history, MachineInv, TypesOK, ProcsOK
<1>2. /\ procs \in [Pids -> Process] /\ procs[1] \in Process /\ procs[1].what = "none"
      /\ Then(1) \in [Pids -> Process] /\ \A c \in Pids \ {1} : Then(1)[c] = procs[c]
      /\ Then(1)[1] = [procs[1] EXCEPT !.prog = Tail(Main)]
  <2>1. procs \in [Pids -> Process] /\ procs[1].what = "none"
    BY DEF MachineInv, ProcsOK
  <2> QED
    BY <1>0, <2>1, ThenIs DEF MachineInv
<1>t. VerdictInv' /\ WholeReport'
  BY <1>1 DEF MachineInv, VerdictInv, WholeReport
<1>3. ASSUME NEW c \in Pids, c # 1,
             procs' = [Then(1) EXCEPT ![c] =
               [Gone EXCEPT !.prog = Child(Step(1).arg, btpower), !.run = procs[1].run,
                            !.what = IF Step(1).op = "spawn" THEN "script" ELSE Step(1).arg]],
             last' = IF Step(1).op = "fork" THEN c ELSE last, at' = at
      PROVE  MachineInv'
  <2> DEFINE prog == Child(Main[1].arg, btpower)
             what == IF Main[1].op = "spawn" THEN "script" ELSE Main[1].arg
             new  == [Gone EXCEPT !.prog = prog, !.run = runs, !.what = what]
  <2>1. prog \in Seq(AnyStep) /\ what \in Kinds
    <3>1. \/ Main[1].op = "fork" /\ Main[1].arg \in Children
          \/ Main[1].op = "spawn" /\ Main[1].arg = "wifi"
      BY <1>0, <1>1 DEF TestStep, PlainOps, FileOps
    <3>2. what \in Kinds
      BY <3>1 DEF Kinds
    <3>3. \A w : ChildStep(w) \subseteq AnyStep
      BY DEF ChildStep
    <3>4. \E w : prog \in Seq(ChildStep(w))
      BY <3>1, <1>1, ChildrenGood
    <3>5. PICK w : prog \in Seq(ChildStep(w))
      BY <3>4
    <3> HIDE DEF prog
    <3>6. prog \in Seq(AnyStep)
      BY <3>3, <3>5
    <3> QED
      BY <3>2, <3>6
  <2>2. procs' = [Then(1) EXCEPT ![c] = new]
    BY <1>0, <1>1, <1>3
  <2> HIDE DEF prog, what
  <2>3. new \in Process /\ new.prog = prog /\ new.run = runs /\ new.what = what
    BY <2>1, <1>1, GoneIs DEF Process
  <2> HIDE DEF new
  <2>4. /\ procs' \in [Pids -> Process] /\ procs'[c] = new /\ procs'[1] = Then(1)[1]
        /\ \A d \in Pids \ {1, c} : procs'[d] = procs[d]
    BY <1>0, <1>2, <1>3, <2>2, <2>3
  <2>5. Goes /\ Main' = Tail(Main)
    <3>1. procs'[1] = [procs[1] EXCEPT !.prog = Tail(Main)] /\ procs[1] \in Process
      BY <2>4, <1>2
    <3>2. procs'[1].prog = Tail(Main) /\ procs'[1].what = procs[1].what /\ procs'[1].run = procs[1].run
      BY <3>1 DEF Process
    <3> QED
      BY <3>2, <2>4, <1>1, <1>3 DEF Goes, Main
  <2>6. /\ Kept(c)' /\ ChildOK(procs'[c]) /\ RequestOK(c)'
        /\ procs'[c].what = "server" => copy' # -1
    <3>1. /\ procs'[c].prog = Child(Main[1].arg, btpower) /\ procs'[c].run = runs
          /\ procs'[c].what = IF Main[1].op = "spawn" THEN "script" ELSE Main[1].arg
          /\ Main[1].op = "fork" => last' = c
          /\ c \in Pids \ {1} /\ files' = files /\ copy' = copy
      BY <2>3, <2>4, <1>0, <1>1, <1>3 DEF prog, what
    <3> QED
      BY <3>1, <2>5, <1>1, Born
  <2>7. ASSUME NEW d \in Pids \ {1}
        PROVE  /\ \/ Same(d) /\ (procs[d].what \in {"dial", "script"} => ~ Is(Main[1], "kill", procs[d].what))
                  \/ Kept(d)' /\ ChildOK(procs'[d]) /\ (procs'[d].what = "server" => copy' # -1)
               /\ RequestOK(d)'
    <3>1. CASE d = c
      BY <3>1, <2>6
    <3>2. CASE d # c
      <4>1. procs'[d] = procs[d] /\ Same(d) /\ Step(d)' = Step(d)
        BY <3>2, <2>4 DEF Same, Step
      <4> QED
        BY <4>1, <1>1 DEF MachineInv, LogInv, RequestOK, Does, Is
    <3> QED
      BY <3>1, <3>2
  <2>8. Waits /\ Writes
    BY <1>0, <1>1 DEF Waits, Writes, Resets
  <2>9. TypesOK'
    BY <1>1, <1>3 DEF MachineInv, TypesOK
  <2>10. mixer' = IF Main[1].op = "path" THEN Main[1].arg ELSE mixer
    BY <1>1
  <2> QED
    BY <1>1, <1>t, <2>5, <2>7, <2>8, <2>9, <2>10, MainInv
<1>4. ASSUME at' = "exited", procs' = [procs EXCEPT ![1] = [procs[1] EXCEPT !.prog = <<>>]], last' = last
      PROVE  MachineInv'
  <2>1. [procs[1] EXCEPT !.prog = <<>>] \in Process
    <3>1. <<>> \in Seq(AnyStep)
      OBVIOUS
    <3> QED
      BY <3>1, <1>2 DEF Process
  <2>2. /\ procs' \in [Pids -> Process] /\ procs'[1].prog = <<>> /\ procs'[1].what = "none"
        /\ \A c \in Pids \ {1} : procs'[c] = procs[c]
    <3>1. /\ [procs[1] EXCEPT !.prog = <<>>].prog = <<>>
          /\ [procs[1] EXCEPT !.prog = <<>>].what = procs[1].what
      BY <1>2 DEF Process
    <3> QED
      BY <2>1, <3>1, <1>0, <1>2, <1>4
  <2>3. ProcsOK'
    BY <2>2, <1>4, EmptyOK DEF ProcsOK, Main, MachineInv
  <2>4. LogInv'
    <3>1. ASSUME NEW c \in Pids PROVE RequestOK(c)'
      <4>1. CASE c = 1
        BY <4>1, <2>2 DEF RequestOK
      <4>2. CASE c # 1
        <5>1. procs'[c] = procs[c] /\ Step(c)' = Step(c)
          BY <4>2, <2>2 DEF Step
        <5> QED
          BY <5>1, <1>1 DEF MachineInv, LogInv, RequestOK, Does
      <4> QED
        BY <4>1, <4>2
    <3>2. ~ Has(Main', "fork", "server")
      BY <2>2, EmptyOK DEF Main
    <3>3. copy' = -1 => \A c \in Pids : procs'[c].what # "server"
      BY <2>2, <1>1 DEF MachineInv, LogInv
    <3> QED
      BY <3>1, <3>2, <3>3 DEF LogInv
  <2>5. TypesOK'
    BY <1>1, <1>4 DEF MachineInv, TypesOK
  <2> QED
    BY <1>4, <1>t, <2>3, <2>4, <2>5 DEF MachineInv, MixerInv, PlaysInv, DialInv, ScriptInv,
       BtScanInv, FilesInv, ScanInv
<1>5. \/ \E c \in Pids :
           /\ c # 1
           /\ procs' = [Then(1) EXCEPT ![c] =
                [Gone EXCEPT !.prog = Child(Step(1).arg, btpower), !.run = procs[1].run,
                             !.what = IF Step(1).op = "spawn" THEN "script" ELSE Step(1).arg]]
           /\ last' = (IF Step(1).op = "fork" THEN c ELSE last) /\ at' = at
      \/ at' = "exited" /\ procs' = [procs EXCEPT ![1] = [procs[1] EXCEPT !.prog = <<>>]] /\ last' = last
  BY DEF Fork
<1> QED
  BY <1>3, <1>4, <1>5

\* Every step of the program itself.
LEMMA MainWorks ==
  ASSUME MachineInv, Works(1) \/ Key(1) \/ Steals(1) \/ excute_request(1)
  PROVE  MachineInv'
<1>1. 1 \in Pids /\ procs[1].prog = Main
  BY StationAssumption DEF Pids, Main
<1>2. Main # <<>>
  BY <1>1 DEF Works, Key, Steals, excute_request, Fork, Path, Countdown, Block, Text, Set, Power,
     File, Need, Kill, Judge, Copy, Bind, Respond, Does
<1>3. Main[1] \in TestStep /\ \A op : Does(1, op) <=> Main[1].op = op
  BY <1>2, MainStep
<1>4. ~ Key(1) /\ ~ Steals(1) /\ ~ excute_request(1) /\ ~ Bind(1) /\ ~ Respond(1)
  BY <1>3 DEF Key, Steals, excute_request, Bind, Respond, TestStep, PlainOps, FileOps
<1> QED
  BY <1>2, <1>4, MainQuiet, MainFile, MainReads, MainCopy, MainKill, MainFork DEF Works

\* A step that leaves a child its rest, or ends it.
LEMMA ChildThen ==
  ASSUME MachineInv, NEW c \in Pids \ {1}, procs[c].prog # <<>>,
         procs' = Then(c) \/ procs' = Stops(c)
  PROVE  Moved(c)
<1>1. ASSUME procs' = Then(c) PROVE Moved(c)
  BY <1>1, ThenMoves DEF MachineInv, Onward
<1>2. ASSUME procs' = Stops(c) PROVE Moved(c)
  BY <1>2, StopsMoves DEF MachineInv
<1> QED
  BY <1>1, <1>2

\* What a step of a child is.
LEMMA ChildStepIs ==
  ASSUME MachineInv, NEW c \in Pids \ {1}, procs[c].prog # <<>>
  PROVE  /\ Step(c) = procs[c].prog[1] /\ Step(c) \in ChildStep(procs[c].what)
         /\ procs[c].prog \in Seq(AnyStep) /\ procs[c] \in Process
         /\ \A op : Does(c, op) <=> Step(c).op = op
  BY Heads DEF MachineInv, Does

\* The steps of a child that keep to themselves.
LEMMA ChildQuiet ==
  ASSUME MachineInv, NEW c \in Pids \ {1}, procs[c].prog # <<>>,
         \/ Countdown(c) \/ Block(c) \/ Text(c) \/ Set(c) \/ Power(c) \/ Key(c) \/ Bind(c)
  PROVE  MachineInv'
<1>1. \A op : Does(c, op) <=> Step(c).op = op
  BY ChildStepIs
<1>2. /\ UNCHANGED <<at, runs, last, late, files, copy, log, mixer, replies, verdict>>
      /\ Step(c).op \notin {"open", "lseek", "read"} /\ btpower' \in BOOLEAN
  BY <1>1 DEF Countdown, Block, Text, Set, Power, Key, Bind, control, finger, history, MachineInv,
     TypesOK
<1>3. procs' = Then(c) \/ procs' = Stops(c)
  BY DEF Countdown, Block, Text, Set, Power, Key, Bind
<1> QED
  BY <1>2, <1>3, ChildThen, ChildGoes

\* A child sets the mixer.
LEMMA ChildPath ==
  ASSUME MachineInv, NEW c \in Pids \ {1}, procs[c].prog # <<>>, Path(c)
  PROVE  MachineInv'
<1>1. \A op : Does(c, op) <=> Step(c).op = op
  BY ChildStepIs
<1>2. /\ UNCHANGED <<at, runs, last, late, files, copy, log, replies, verdict, btpower>>
      /\ Step(c).op = "path" /\ mixer' = Step(c).arg /\ procs' = Then(c)
  BY <1>1 DEF Path, control, finger, history
<1>3. Moved(c)
  BY <1>2, ChildThen
<1>4. ProcsOK' /\ PlaysInv' /\ DialInv' /\ ScriptInv' /\ BtScanInv' /\ ScanInv'
  BY <1>2, <1>3, ChildStays
<1>5. LogInv' /\ Main' = Main
  BY <1>2, <1>3, ChildLog, ChildMoved DEF MachineInv
<1>6. TypesOK' /\ VerdictInv' /\ WholeReport' /\ FilesInv'
  BY <1>2, <1>5 DEF MachineInv, TypesOK, VerdictInv, WholeReport, FilesInv, Judged
<1>7. MixerInv'
  BY <1>1, <1>2, <1>5 DEF MixerInv, MachineInv, PlaysInv
<1> QED
  BY <1>4, <1>5, <1>6, <1>7 DEF MachineInv

\* A child writes to a file, or makes one.
LEMMA ChildFile ==
  ASSUME MachineInv, NEW c \in Pids \ {1}, procs[c].prog # <<>>, File(c), ~ Does(c, "open")
  PROVE  MachineInv'
<1> DEFINE f == Step(c).arg
<1>1. /\ Step(c) = procs[c].prog[1] /\ Step(c) \in ChildStep(procs[c].what)
      /\ procs[c] \in Process /\ procs[c].prog \in Seq(AnyStep)
      /\ \A op : Does(c, op) <=> Step(c).op = op
  BY ChildStepIs
<1>2. /\ UNCHANGED <<at, runs, last, late, copy, log, replies, verdict, btpower, mixer>>
      /\ procs' = Then(c)
      /\ \/ Step(c).op = "fill" /\ procs[c].what = "dial" /\ f = "gsm-progress"
         \/ Step(c).op = "fill" /\ procs[c].what = "bt_scan" /\ f = "bt_log"
         \/ Step(c).op = "append" /\ procs[c].what = "script" /\ f = "wlan-progress"
         \/ Step(c).op = "make" /\ f \in Files \ {"bt_log"}
  BY <1>1 DEF File, control, finger, history, ChildStep, ChildOps
<1>3. /\ files \in [Files -> [inode : Nat, wins : SUBSET Nat]] /\ runs \in Nat /\ procs[c].run \in Nat
      /\ f \in Files /\ "bt_log" \in Files
  BY <1>1, <1>2 DEF MachineInv, TypesOK, Process, Files
<1>4. ASSUME at # "exited", procs[c].what = "bt_scan", Step(c).op = "fill"
      PROVE  procs[c].fd = 1 + procs[c].run
  <2> DEFINE p == procs[c].prog
  <2>1. OrderlyChild(p, "bt_scan") /\ p \in Seq(AnyStep) /\ p[1].op = "fill" /\ p # <<>>
    BY <1>1, <1>4 DEF MachineInv, ProcsOK, ChildOK
  <2>p. p = procs[c].prog
    OBVIOUS
  <2> HIDE DEF p
  <2> DEFINE n == Len(p)
  <2>2. /\ n \in Nat /\ 1 \in 1 .. n /\ \A k \in 1 .. n : p[k].op = "fill" <=> k = n
        /\ \A k \in 1 .. n : p[k].op = "open" <=> k = n - 1
    BY <2>1 DEF OrderlyChild
  <2>3. p[1].op = "fill"
    BY <2>1
  <2>n. Unopened(procs[c]) <=> \E k \in 1 .. n : p[k].op = "open"
    BY <2>p DEF Unopened
  <2> HIDE DEF n
  <2>4. n = 1
    BY <2>2, <2>3
  <2>5. ~ Unopened(procs[c])
    BY <2>2, <2>4, <2>n
  <2> QED
    BY <2>5, <1>4 DEF MachineInv, BtScanInv
<1>5. /\ files' \in [Files -> [inode : Nat, wins : SUBSET Nat]]
      /\ \A g \in Files \ {f} : files'[g] = files[g]
      /\ Step(c).op = "make" => files'[f].wins = files[f].wins
      /\ Step(c).op = "append" =>
           files'[f].wins \subseteq (files[f].wins \cup {procs[c].run})
      /\ Step(c).op = "fill" =>
           \/ files' = files
           \/ /\ files[f].inode = procs[c].fd /\ files'[f].inode = files[f].inode
              /\ files'[f].wins \subseteq (files[f].wins \cup {procs[c].run})
  <2> HIDE DEF f
  <2>1. CASE Step(c).op = "fill"
    <3>1. \/ files' = files
          \/ /\ files[f].inode = procs[c].fd
             /\ files' = [files EXCEPT ![f].wins = files[f].wins \cup {procs[c].run}]
      BY <2>1, <1>1 DEF File, f
    <3> QED
      BY <3>1, <2>1, <1>3
  <2>2. CASE Step(c).op = "append"
    <3>1. PICK won \in BOOLEAN : files' = [files EXCEPT ![f] =
             [inode |-> IF files[f] = NoFile THEN 1 + runs ELSE files[f].inode,
              wins |-> IF won THEN files[f].wins \cup {procs[c].run} ELSE files[f].wins]]
      BY <2>2, <1>1 DEF File, f
    <3> QED
      BY <3>1, <2>2, <1>3
  <2>3. CASE Step(c).op = "make"
    <3>1. files' = files \/ files' = [files EXCEPT ![f].inode = 1 + runs]
      BY <2>3, <1>1 DEF File, f
    <3>2. CASE files' = files
      BY <3>2, <2>3, <1>3
    <3>3. CASE files' = [files EXCEPT ![f].inode = 1 + runs]
      BY <3>3, <2>3, <1>3
    <3> QED
      BY <3>1, <3>2, <3>3
  <2> QED
    BY <1>2, <2>1, <2>2, <2>3 DEF f
<1>6. Moved(c)
  BY <1>2, ChildThen
<1>7. Main' = Main /\ 1 \in Pids
  BY <1>6, ChildMoved DEF MachineInv
<1>8. CASE at = "exited"
  <2>1. ProcsOK' /\ LogInv'
    BY <1>2, <1>6, ProcsStay, ChildLog DEF MachineInv
  <2>2. TypesOK' /\ VerdictInv' /\ WholeReport'
    BY <1>2, <1>5 DEF MachineInv, TypesOK, VerdictInv, WholeReport
  <2> QED
    BY <1>8, <1>2, <2>1, <2>2 DEF MachineInv, MixerInv, PlaysInv, DialInv, ScriptInv, BtScanInv,
       FilesInv, ScanInv
<1>9. CASE at # "exited"
  <2>1. files["bt_log"] = NoFile => files'["bt_log"] = NoFile
    <3>1. CASE f # "bt_log"
      BY <3>1, <1>3, <1>5
    <3>2. CASE f = "bt_log"
      <4>1. procs[c].fd = 1 + procs[c].run /\ Step(c).op = "fill"
        BY <3>2, <1>2, <1>4, <1>9
      <4> QED
        BY <4>1, <3>2, <1>3, <1>5 DEF NoFile
    <3> QED
      BY <3>1, <3>2
  <2>2. ProcsOK' /\ PlaysInv' /\ DialInv' /\ ScriptInv' /\ BtScanInv' /\ ScanInv'
    BY <1>1, <1>2, <1>6, <2>1, ChildStays
  <2>3. LogInv'
    BY <1>2, <1>6, ChildLog DEF MachineInv
  <2>4. TypesOK' /\ VerdictInv' /\ WholeReport' /\ MixerInv'
    BY <1>2, <1>5, <1>7 DEF MachineInv, TypesOK, VerdictInv, WholeReport, MixerInv
  <2>5. ASSUME ~ late', NEW g \in Files, Judged(g)'
        PROVE  /\ files'[g].wins \subseteq {runs'}
               /\ g = "bt_log" => files'[g].inode \in {0, 1 + runs'}
    <3>1. /\ files[g].wins \subseteq {runs} /\ (g = "bt_log" => files[g].inode \in {0, 1 + runs})
          /\ runs' = runs /\ ~ late
      BY <2>5, <1>2, <1>7, <1>9 DEF MachineInv, FilesInv, Judged
    <3>2. CASE files'[g] = files[g]
      BY <3>1, <3>2
    <3>3. CASE g = f /\ files' # files
      <4>1. CASE Step(c).op = "make"
        BY <4>1, <3>1, <3>3, <1>2, <1>5
      <4>2. CASE Step(c).op = "append"
        <5>1. procs[c].run = runs /\ f # "bt_log"
          BY <4>2, <3>1, <1>2, <1>9 DEF MachineInv, ScriptInv
        <5> QED
          BY <5>1, <4>2, <3>1, <3>3, <1>5
      <4>3. CASE Step(c).op = "fill" /\ procs[c].what = "dial" /\ f = "gsm-progress"
        <5>1. procs[c].run = runs
          BY <4>3, <1>9 DEF MachineInv, DialInv
        <5> QED
          BY <5>1, <4>3, <3>1, <3>3, <1>5
      <4>4. CASE Step(c).op = "fill" /\ procs[c].what = "bt_scan" /\ f = "bt_log"
        <5>1. procs[c].fd = 1 + procs[c].run /\ files[f].inode \in {0, 1 + runs}
          BY <4>4, <3>1, <3>3, <1>4, <1>9
        <5>2. files[f].inode = procs[c].fd
          BY <4>4, <3>3, <1>5
        <5>3. procs[c].run = runs
          BY <5>1, <5>2, <1>3
        <5> QED
          BY <5>3, <4>4, <3>1, <3>3, <1>5
      <4> QED
        BY <1>2, <4>1, <4>2, <4>3, <4>4
    <3> QED
      BY <3>2, <3>3, <1>5
  <2>6. FilesInv'
    BY <2>5 DEF FilesInv
  <2> QED
    BY <2>2, <2>3, <2>4, <2>6 DEF MachineInv
<1> QED
  BY <1>8, <1>9

\* A child truncates the file it writes to: a scan its own, before the program
\* goes on.
LEMMA ChildOpens ==
  ASSUME MachineInv, NEW c \in Pids \ {1}, procs[c].prog # <<>>, File(c), Does(c, "open")
  PROVE  MachineInv'
<1> DEFINE f == Step(c).arg
           n == IF files[f] = NoFile THEN 1 + runs ELSE files[f].inode
           what == procs[c].what
<1>1. /\ Step(c) = procs[c].prog[1] /\ Step(c) \in ChildStep(what)
      /\ procs[c] \in Process /\ procs[c].prog \in Seq(AnyStep)
      /\ \A op : Does(c, op) <=> Step(c).op = op
  BY ChildStepIs
<1>2. /\ UNCHANGED <<at, runs, last, late, copy, log, replies, verdict, btpower, mixer>>
      /\ procs' = [Then(c) EXCEPT ![c].fd = n]
      /\ files' = [files EXCEPT ![f] = [inode |-> n, wins |-> {}]]
      /\ \/ what = "dial" /\ f = "gsm-progress"
         \/ what = "bt_scan" /\ f = "bt_log"
         \/ what = "script" /\ f \in {"wlan-progress", "wifi_log"}
  BY <1>1 DEF File, control, finger, history, ChildStep, ChildOps
<1>3. /\ files \in [Files -> [inode : Nat, wins : SUBSET Nat]] /\ runs \in Nat /\ procs[c].run \in Nat
      /\ f \in Files /\ "bt_log" \in Files
  BY <1>1, <1>2 DEF MachineInv, TypesOK, Process, Files
<1>4. n \in Nat
  BY <1>3
<1>5. /\ files' \in [Files -> [inode : Nat, wins : SUBSET Nat]]
      /\ files'[f].wins = {} /\ files'[f].inode = n
      /\ \A g \in Files \ {f} : files'[g] = files[g]
  <2> HIDE DEF f, n
  <2> QED
    BY <1>2, <1>3, <1>4
<1>6. /\ procs' \in [Pids -> Process] /\ \A d \in Pids \ {c} : procs'[d] = procs[d]
      /\ \/ procs'[c].prog = <<>> /\ procs'[c].what = "none"
         \/ /\ procs'[c].prog = Tail(procs[c].prog) /\ procs'[c].what = what
            /\ procs'[c].run = procs[c].run /\ procs'[c].fd = n
  <2> HIDE DEF n
  <2>1. /\ Then(c) \in [Pids -> Process] /\ \A d \in Pids \ {c} : Then(c)[d] = procs[d]
        /\ \/ Then(c)[c] = [procs[c] EXCEPT !.prog = Tail(procs[c].prog)]
           \/ Then(c)[c] = Gone
    BY ThenIs DEF MachineInv
  <2>2. /\ procs' \in [Pids -> Process] /\ \A d \in Pids \ {c} : procs'[d] = procs[d]
        /\ procs'[c] = [Then(c)[c] EXCEPT !.fd = n]
    BY <2>1, <1>2, <1>4 DEF Process
  <2>3. CASE Then(c)[c] = Gone
    <3>1. procs'[c].prog = <<>> /\ procs'[c].what = "none"
      BY <2>2, <2>3, GoneIs DEF Process
    <3> QED
      BY <2>2, <3>1
  <2>4. CASE Then(c)[c] = [procs[c] EXCEPT !.prog = Tail(procs[c].prog)]
    <3>1. /\ Then(c)[c].prog = Tail(procs[c].prog) /\ Then(c)[c].what = procs[c].what
          /\ Then(c)[c].run = procs[c].run /\ Then(c)[c] \in Process
      BY <2>1, <2>4, <1>1 DEF Process
    <3>2. procs'[c].prog = Tail(procs[c].prog) /\ procs'[c].what = what
            /\ procs'[c].run = procs[c].run /\ procs'[c].fd = n
      BY <2>2, <3>1, <1>4 DEF Process
    <3> QED
      BY <2>2, <3>2
  <2> QED
    BY <2>1, <2>3, <2>4
<1>7. Main' = Main /\ 1 \in Pids /\ procs'[1] = procs[1] /\ Step(1)' = Step(1)
  BY <1>6, StationAssumption DEF Main, Pids, Step
<1>8. ProcsOK'
  <2>1. ChildOK(procs'[c])
    <3>1. CASE procs'[c].prog = <<>>
      BY <3>1, EmptyOK DEF ChildOK
    <3>2. CASE procs'[c].prog = Tail(procs[c].prog) /\ procs'[c].what = what
      <4>1. ChildOK(procs[c])
        BY DEF MachineInv, ProcsOK
      <4> QED
        BY <4>1, <3>2, TailOrderlyChild DEF ChildOK
    <3> QED
      BY <1>6, <3>1, <3>2
  <2> QED
    BY <2>1, <1>2, <1>6, <1>7 DEF MachineInv, ProcsOK
<1>9. LogInv'
  <2>1. ASSUME NEW d \in Pids PROVE RequestOK(d)'
    <3>1. CASE d = c
      BY <3>1, <1>2, <1>6 DEF RequestOK
    <3>2. CASE d # c
      <4>1. procs'[d] = procs[d] /\ Step(d)' = Step(d)
        BY <3>2, <1>6 DEF Step
      <4> QED
        BY <4>1, <1>2 DEF MachineInv, LogInv, RequestOK, Does
    <3> QED
      BY <3>1, <3>2
  <2>2. copy' = -1 => \A d \in Pids : procs'[d].what # "server"
    BY <1>2, <1>6 DEF MachineInv, LogInv
  <2> QED
    BY <2>1, <2>2, <1>2, <1>7 DEF MachineInv, LogInv
<1>10. TypesOK' /\ VerdictInv' /\ WholeReport' /\ MixerInv'
  BY <1>2, <1>5, <1>7 DEF MachineInv, TypesOK, VerdictInv, WholeReport, MixerInv
<1>11. CASE at = "exited"
  BY <1>2, <1>8, <1>9, <1>10, <1>11 DEF MachineInv, PlaysInv, DialInv, ScriptInv, BtScanInv,
     FilesInv, ScanInv
<1>12. CASE at # "exited"
  <2>0. at' # "exited" /\ \A op : Does(1, op)' <=> Does(1, op)
    BY <1>2, <1>7, <1>12 DEF Does
  <2>1. what = "bt_scan" =>
          /\ procs[c].run = runs /\ last = c /\ n = 1 + runs
          /\ ~ Has(Main, "fork", "bt_scan")
    <3> SUFFICES ASSUME what = "bt_scan"
                 PROVE  /\ procs[c].run = runs /\ last = c /\ n = 1 + runs
                        /\ ~ Has(Main, "fork", "bt_scan")
      OBVIOUS
    <3>1. 1 \in 1 .. Len(procs[c].prog) /\ procs[c].prog[1].op = "open"
      BY <1>1, TailOf
    <3>2. Unopened(procs[c])
      BY <3>1 DEF Unopened
    <3>3. procs[c].run = runs /\ last = c /\ files["bt_log"] = NoFile /\ ~ Has(Main, "fork", "bt_scan")
      BY <3>2, <1>12 DEF MachineInv, BtScanInv
    <3> QED
      BY <3>3, <1>2
  <2> HIDE DEF n, f
  <2>2. PlaysInv'
    <3>1. ASSUME Does(c, "path")' PROVE FALSE
      <4>1. procs'[c].prog # <<>> /\ Head(procs'[c].prog).op = "path"
        BY <3>1 DEF Does, Step
      <4>2. procs'[c].prog = Tail(procs[c].prog)
        BY <4>1, <1>6
      <4> DEFINE p == procs[c].prog
                 q == procs'[c].prog
      <4>3. /\ p \in Seq(AnyStep) /\ p # <<>> /\ q = Tail(p) /\ q # <<>> /\ Head(q).op = "path"
            /\ OrderlyChild(p, what)
        BY <1>1, <4>1, <4>2 DEF MachineInv, ProcsOK, ChildOK
      <4> HIDE DEF p, q
      <4>4. /\ Len(p) \in Nat /\ Len(q) = Len(p) - 1 /\ q \in Seq(AnyStep)
            /\ \A k \in 1 .. Len(p) - 1 : q[k] = p[k + 1]
        BY <4>3, TailOf
      <4>5. 2 \in 1 .. Len(p) /\ Head(q) = p[2]
        BY <4>3, <4>4
      <4> QED
        BY <4>3, <4>5 DEF OrderlyChild
    <3>2. ASSUME NEW d \in Pids \ {1, c}
          PROVE  Does(d, "path")' <=> Does(d, "path") /\ Step(d)' = Step(d)
      BY <1>6 DEF Does, Step
    <3> QED
      BY <2>0, <3>1, <3>2, <1>7, <1>12, <1>6 DEF MachineInv, PlaysInv, Does, Step
  <2>3. DialInv' /\ ScriptInv'
    BY <1>2, <1>6, <1>7, <1>12 DEF MachineInv, DialInv, ScriptInv
  <2>4. BtScanInv'
    <3> SUFFICES ASSUME NEW d \in Pids \ {1}, procs'[d].what = "bt_scan"
                 PROVE  IF Unopened(procs'[d])
                        THEN /\ procs'[d].run = runs' /\ last' = d /\ files'["bt_log"] = NoFile
                             /\ Does(1, "waitchild")' /\ ~ Has(Main', "fork", "bt_scan")
                        ELSE procs'[d].fd = 1 + procs'[d].run
      BY DEF BtScanInv
    <3>1. CASE d = c
      <4>1. /\ procs'[c].prog = Tail(procs[c].prog) /\ what = "bt_scan"
            /\ procs'[c].run = procs[c].run /\ procs'[c].fd = n
        BY <3>1, <1>6
      <4> DEFINE p == procs[c].prog
                 q == procs'[c].prog
                 m == Len(p)
      <4>2. /\ p \in Seq(AnyStep) /\ p # <<>> /\ q = Tail(p) /\ p[1].op = "open"
            /\ \A k \in 1 .. Len(p) : p[k].op = "open" <=> k = Len(p) - 1
        BY <1>1, <4>1 DEF MachineInv, ProcsOK, ChildOK, OrderlyChild
      <4>q. Unopened(procs'[c]) <=> \E k \in 1 .. Len(q) : q[k].op = "open"
        BY DEF Unopened
      <4> HIDE DEF p, q
      <4>3. /\ m \in Nat \ {0} /\ Len(q) = m - 1
            /\ \A k \in 1 .. m - 1 : q[k] = p[k + 1]
        BY <4>2, TailOf
      <4>4. \A k \in 1 .. m : p[k].op = "open" <=> k = m - 1
        BY <4>2
      <4> HIDE DEF m
      <4>5. m = 2
        BY <4>2, <4>3, <4>4
      <4>6. ~ Unopened(procs'[c])
        BY <4>3, <4>4, <4>5, <4>q
      <4> QED
        BY <3>1, <4>1, <4>6, <2>1
    <3>2. CASE d # c
      <4>1. procs'[d] = procs[d] /\ (Unopened(procs'[d]) <=> Unopened(procs[d]))
        BY <3>2, <1>6 DEF Unopened
      <4>2. Unopened(procs[d]) => last = d
        BY <3>2, <4>1, <1>12 DEF MachineInv, BtScanInv
      <4>3. Unopened(procs[d]) => f # "bt_log"
        BY <4>2, <2>1, <1>2, <3>2
      <4>4. Unopened(procs[d]) => files'["bt_log"] = files["bt_log"]
        BY <4>3, <1>5, <1>3
      <4> QED
        BY <2>0, <4>1, <4>4, <1>2, <1>7, <1>12 DEF MachineInv, BtScanInv
    <3> QED
      BY <3>1, <3>2
  <2>5. FilesInv'
    <3> SUFFICES ASSUME ~ late', NEW g \in Files, Judged(g)'
                 PROVE  /\ files'[g].wins \subseteq {runs'}
                        /\ g = "bt_log" => files'[g].inode \in {0, 1 + runs'}
      BY DEF FilesInv
    <3>1. CASE g = f
      BY <3>1, <1>2, <1>5, <2>1
    <3>2. CASE g # f
      <4>1. files'[g] = files[g] /\ Judged(g) /\ ~ late
        BY <3>2, <1>2, <1>5, <1>7 DEF Judged
      <4> QED
        BY <4>1, <1>2, <1>12 DEF MachineInv, FilesInv
    <3> QED
      BY <3>1, <3>2
  <2>6. ScanInv'
    <3>1. CASE f = "bt_log"
      BY <3>1, <1>2, <1>7, <2>1 DEF ScanInv
    <3>2. CASE f # "bt_log"
      BY <3>2, <1>2, <1>3, <1>5, <1>7, <1>12 DEF MachineInv, ScanInv
    <3> QED
      BY <3>1, <3>2
  <2> QED
    BY <1>8, <1>9, <1>10, <2>2, <2>3, <2>4, <2>5, <2>6 DEF MachineInv
<1> QED
  BY <1>11, <1>12

\* A child that answers a request has nothing to do with the tests.
LEMMA Answering ==
  ASSUME MachineInv, NEW c \in Pids \ {1},
         UNCHANGED <<at, runs, last, late, files, copy, log, mixer, verdict, btpower>>,
         procs' \in [Pids -> Process], \A d \in Pids \ {c} : procs'[d] = procs[d],
         procs'[c].what = "request" \/ (procs'[c].prog = <<>> /\ procs'[c].what = "none"),
         ChildOK(procs'[c]), RequestOK(c)', WholeReport'
  PROVE  MachineInv'
<1>1. /\ 1 \in Pids /\ Main' = Main /\ procs'[1] = procs[1]
      /\ \A d \in Pids \ {c} : Step(d)' = Step(d) /\ \A op : Does(d, op)' <=> Does(d, op)
  BY StationAssumption DEF Main, Pids, Step, Does
<1>2. ProcsOK'
  BY <1>1 DEF MachineInv, ProcsOK
<1>3. LogInv'
  <2>1. ASSUME NEW d \in Pids PROVE RequestOK(d)'
    BY <1>1 DEF MachineInv, LogInv, RequestOK
  <2> QED
    BY <2>1, <1>1 DEF MachineInv, LogInv
<1>4. ~ Does(c, "path")'
  <2> SUFFICES ASSUME Does(c, "path")' PROVE FALSE
    OBVIOUS
  <2>1. procs'[c].prog # <<>> /\ Step(c)'.op = "path" /\ procs'[c].what = "request"
    BY DEF Does
  <2>2. procs'[c].prog \in Seq(ChildStep("request")) /\ Step(c)' = Head(procs'[c].prog)
    BY <2>1 DEF ChildOK, Step
  <2>3. Step(c)' \in ChildStep("request")
    BY <2>1, <2>2
  <2> QED
    BY <2>1, <2>3 DEF ChildStep, ChildOps, Players, Loops
<1>5. PlaysInv' /\ DialInv' /\ ScriptInv'
  BY <1>1, <1>4 DEF MachineInv, PlaysInv, DialInv, ScriptInv
<1>6. BtScanInv'
  <2>1. ASSUME NEW d \in Pids \ {1, c} PROVE Unopened(procs'[d]) <=> Unopened(procs[d])
    BY DEF Unopened
  <2> QED
    BY <2>1, <1>1 DEF MachineInv, BtScanInv
<1>7. TypesOK' /\ MixerInv' /\ FilesInv' /\ ScanInv' /\ VerdictInv'
  BY <1>1 DEF MachineInv, TypesOK, MixerInv, FilesInv, ScanInv, VerdictInv, Judged
<1> QED
  BY <1>2, <1>3, <1>5, <1>6, <1>7 DEF MachineInv

\* The answer: its length is that of the copy, and so is what is read.
LEMMA ChildRespond ==
  ASSUME MachineInv, NEW c \in Pids \ {1}, procs[c].prog # <<>>, Respond(c)
  PROVE  MachineInv'
<1> DEFINE r == procs[c]
<1>1. /\ Step(c) = r.prog[1] /\ Step(c) \in ChildStep(r.what)
      /\ r \in Process /\ r.prog \in Seq(AnyStep)
      /\ \A op : Does(c, op) <=> Step(c).op = op
  BY ChildStepIs
<1>2. /\ UNCHANGED <<at, runs, last, late, files, copy, log, mixer, verdict, btpower>>
      /\ Step(c).op \in {"stat", "lseek", "read", "send"} /\ r.what = "request"
  BY <1>1 DEF Respond, control, finger, history, ChildStep, ChildOps
<1>3. copy \in Nat \cup {-1} /\ procs \in [Pids -> Process] /\ RequestOK(c) /\ ChildOK(r)
  BY DEF MachineInv, TypesOK, ProcsOK, LogInv
<1>4. /\ Then(c) \in [Pids -> Process] /\ \A d \in Pids \ {c} : Then(c)[d] = procs[d]
      /\ \/ Then(c)[c] = [r EXCEPT !.prog = Tail(r.prog)] /\ Tail(r.prog) # <<>>
         \/ Then(c)[c] = Gone
  BY ThenIs DEF MachineInv
<1>r. /\ [r EXCEPT !.prog = Tail(r.prog)].prog = Tail(r.prog)
      /\ [r EXCEPT !.prog = Tail(r.prog)].what = r.what
      /\ [r EXCEPT !.prog = Tail(r.prog)].torn = r.torn
      /\ [r EXCEPT !.prog = Tail(r.prog)].len = r.len
      /\ [r EXCEPT !.prog = Tail(r.prog)].data = r.data
  BY <1>1 DEF Process
<1>s. \/ Then(c)[c].prog = <<>> /\ Then(c)[c].what = "none"
      \/ /\ Then(c)[c].prog = Tail(r.prog) /\ Tail(r.prog) # <<>>
         /\ Then(c)[c].what = r.what /\ Then(c)[c].torn = r.torn
         /\ Then(c)[c].len = r.len /\ Then(c)[c].data = r.data
  <2>1. CASE Then(c)[c] = Gone
    BY <2>1, GoneIs
  <2>2. CASE Then(c)[c] = [r EXCEPT !.prog = Tail(r.prog)] /\ Tail(r.prog) # <<>>
    BY <2>2, <1>r
  <2> QED
    BY <1>4, <2>1, <2>2
<1>5. /\ procs' \in [Pids -> Process] /\ \A d \in Pids \ {c} : procs'[d] = procs[d]
      /\ \/ procs'[c].prog = <<>> /\ procs'[c].what = "none"
         \/ /\ procs'[c].prog = Tail(r.prog) /\ procs'[c].what = r.what /\ procs'[c].torn = r.torn
            /\ procs'[c].prog # <<>>
            /\ procs'[c].len = IF Step(c).op = "lseek" THEN copy ELSE r.len
            /\ procs'[c].data = IF Step(c).op = "read" THEN Read(r.len) ELSE r.data
  <2>1. CASE procs' = Then(c) /\ Step(c).op \notin {"lseek", "read"}
    BY <2>1, <1>4, <1>r, GoneIs
  <2>2. CASE procs' = Stops(c) /\ Step(c).op \notin {"lseek", "read"}
    <3>1. Moved(c) /\ procs'[c].prog = <<>>
      BY <2>2, StopsMoves DEF MachineInv
    <3> QED
      BY <3>1, GoneIs DEF Moved
  <2>3. CASE procs' = [Then(c) EXCEPT ![c].len = copy] /\ Step(c).op = "lseek"
    <3>0. copy \in Int
      BY <1>3
    <3>1. /\ procs' \in [Pids -> Process] /\ \A d \in Pids \ {c} : procs'[d] = procs[d]
          /\ procs'[c] = [Then(c)[c] EXCEPT !.len = copy]
      BY <2>3, <3>0, <1>4 DEF Process
    <3>2. Then(c)[c] \in Process
      BY <1>4
    <3>3. /\ procs'[c].prog = Then(c)[c].prog /\ procs'[c].what = Then(c)[c].what
          /\ procs'[c].torn = Then(c)[c].torn /\ procs'[c].len = copy
          /\ procs'[c].data = Then(c)[c].data
      BY <3>1, <3>2 DEF Process
    <3> QED
      BY <2>3, <3>1, <3>3, <1>s
  <2>4. CASE procs' = [Then(c) EXCEPT ![c].data = Read(r.len)] /\ Step(c).op = "read"
    <3>0. Read(r.len) \in Int
      BY <1>1, <1>3 DEF Read, Least, Process
    <3>1. /\ procs' \in [Pids -> Process] /\ \A d \in Pids \ {c} : procs'[d] = procs[d]
          /\ procs'[c] = [Then(c)[c] EXCEPT !.data = Read(r.len)]
      BY <2>4, <3>0, <1>4 DEF Process
    <3>2. Then(c)[c] \in Process
      BY <1>4
    <3>3. /\ procs'[c].prog = Then(c)[c].prog /\ procs'[c].what = Then(c)[c].what
          /\ procs'[c].torn = Then(c)[c].torn /\ procs'[c].len = Then(c)[c].len
          /\ procs'[c].data = Read(r.len)
      BY <3>1, <3>2 DEF Process
    <3> QED
      BY <2>4, <3>1, <3>3, <1>s
  <2> QED
    BY <1>1, <2>1, <2>2, <2>3, <2>4 DEF Respond
<1>6. ChildOK(procs'[c])
  <2>1. CASE procs'[c].prog = <<>>
    BY <2>1, EmptyOK DEF ChildOK
  <2>2. CASE procs'[c].prog = Tail(r.prog) /\ procs'[c].what = r.what
    BY <2>2, <1>3, TailOrderlyChild DEF ChildOK
  <2> QED
    BY <1>5, <2>1, <2>2
<1>7. RequestOK(c)'
  <2> SUFFICES ASSUME procs'[c].what = "request", ~ procs'[c].torn
               PROVE  /\ copy' # -1
                      /\ Does(c, "read")' => procs'[c].len = copy'
                      /\ Does(c, "send")' => procs'[c].len = copy' /\ procs'[c].data = copy'
    BY DEF RequestOK
  <2>1. /\ procs'[c].prog = Tail(r.prog) /\ procs'[c].prog # <<>> /\ ~ r.torn
        /\ procs'[c].len = IF Step(c).op = "lseek" THEN copy ELSE r.len
        /\ procs'[c].data = IF Step(c).op = "read" THEN Read(r.len) ELSE r.data
    BY <1>5
  <2>2. copy # -1 /\ copy' = copy /\ (Step(c).op = "read" => r.len = copy)
    BY <2>1, <1>1, <1>2, <1>3 DEF RequestOK
  <2>3. /\ Step(c)'.op = "read" => Step(c).op = "lseek"
        /\ Step(c)'.op = "send" => Step(c).op = "read"
    <3> DEFINE p == r.prog
               q == procs'[c].prog
    <3>1. /\ p \in Seq(AnyStep) /\ p # <<>> /\ q = Tail(p) /\ q # <<>> /\ OrderlyChild(p, r.what)
          /\ Step(c) = p[1] /\ Step(c)' = Head(q)
      BY <2>1, <1>1, <1>3 DEF ChildOK, Step
    <3> HIDE DEF p, q
    <3>2. /\ Len(p) \in Nat /\ Len(q) = Len(p) - 1 /\ q \in Seq(AnyStep)
          /\ \A k \in 1 .. Len(p) - 1 : q[k] = p[k + 1]
      BY <3>1, TailOf
    <3>3. 2 \in 1 .. Len(p) /\ Head(q) = p[2]
      BY <3>1, <3>2
    <3> QED
      BY <3>1, <3>3 DEF OrderlyChild
  <2>4. Step(c).op = "read" => Read(r.len) = copy
    BY <2>2, <1>3 DEF Read, Least
  <2> QED
    BY <2>1, <2>2, <2>3, <2>4 DEF Does
<1>8. WholeReport'
  <2> SUFFICES ASSUME NEW a \in replies', ~ a.torn PROVE a.len # -1 /\ a.data = a.len
    BY DEF WholeReport
  <2>1. CASE a \in replies
    BY <2>1 DEF MachineInv, WholeReport
  <2>2. CASE a \notin replies
    <3>1. \/ Step(c).op = "stat" /\ copy = -1 /\ a = [len |-> -1, data |-> -1, torn |-> r.torn]
          \/ Step(c).op = "send" /\ a = [len |-> r.len, data |-> r.data, torn |-> r.torn]
      BY <2>2, <1>1 DEF Respond
    <3> QED
      BY <3>1, <1>1, <1>2, <1>3 DEF RequestOK
  <2> QED
    BY <2>1, <2>2
<1> QED
  BY <1>2, <1>5, <1>6, <1>7, <1>8, Answering

\* The server gives a request to a child of its own; there is a copy by then.
LEMMA ChildAccepts ==
  ASSUME MachineInv, NEW i \in Pids \ {1}, procs[i].prog # <<>>, excute_request(i)
  PROVE  MachineInv'
<1>1. /\ Step(i) \in ChildStep(procs[i].what) /\ Step(i).op = "accept"
      /\ UNCHANGED <<at, runs, last, late, files, copy, log, mixer, verdict, btpower, replies>>
  BY ChildStepIs DEF excute_request, control, finger, history
<1>2. procs[i].what = "server" /\ copy # -1
  <2>1. procs[i].what = "server"
    BY <1>1 DEF ChildStep, ChildOps
  <2> QED
    BY <2>1 DEF MachineInv, LogInv
<1>3. PICK c \in Pids : c # 1 /\ procs' = [procs EXCEPT ![c] =
        [Gone EXCEPT !.prog = GiveResponse, !.what = "request", !.torn = Does(1, "copy")]]
  BY DEF excute_request
<1> DEFINE torn == Does(1, "copy")
           new  == [Gone EXCEPT !.prog = GiveResponse, !.what = "request", !.torn = torn]
<1>4. procs' = [procs EXCEPT ![c] = new] /\ torn \in BOOLEAN
  BY <1>3 DEF Does
<1>5. /\ GiveResponse \in Seq(ChildStep("request")) /\ OrderlyChild(GiveResponse, "request")
      /\ GiveResponse # <<>> /\ Head(GiveResponse).op = "stat"
  <2>1. GiveResponse \in Seq(ChildStep("request")) /\ OrderlyChild(GiveResponse, "request")
    BY RequestChild
  <2>2. GiveResponse # <<>> /\ Head(GiveResponse).op = "stat"
    BY StepOf DEF GiveResponse
  <2> QED
    BY <2>1, <2>2
<1> HIDE DEF torn
<1>6. GiveResponse \in Seq(AnyStep)
  <2>1. ChildStep("request") \subseteq AnyStep
    BY DEF ChildStep
  <2> QED
    BY <1>5, <2>1
<1>7. new \in Process /\ new.prog = GiveResponse /\ new.what = "request"
  BY <1>4, <1>6, GoneIs DEF Process, Kinds
<1> HIDE DEF new
<1>8. /\ procs' \in [Pids -> Process] /\ \A d \in Pids \ {c} : procs'[d] = procs[d]
      /\ procs'[c] = new /\ c \in Pids \ {1}
  BY <1>3, <1>4, <1>7 DEF MachineInv, ProcsOK
<1>9. ChildOK(procs'[c])
  BY <1>5, <1>7, <1>8 DEF ChildOK
<1>10. RequestOK(c)'
  <2>1. Step(c)'.op = "stat"
    BY <1>5, <1>7, <1>8 DEF Step
  <2> QED
    BY <2>1, <1>1, <1>2 DEF RequestOK, Does
<1>11. WholeReport'
  BY <1>1 DEF MachineInv, WholeReport
<1> QED
  BY <1>1, <1>7, <1>8, <1>9, <1>10, <1>11, Answering

\* Nothing of the machine changes.
LEMMA MachineStays ==
  ASSUME MachineInv,
         UNCHANGED <<procs, last, btpower, mixer, files, log, copy, at, runs, late, verdict, replies>>
  PROVE  MachineInv'
<1>1. /\ Main' = Main
      /\ \A c \in Pids : Step(c)' = Step(c) /\ \A op : Does(c, op)' <=> Does(c, op)
  BY DEF Main, Step, Does
<1>2. TypesOK' /\ ProcsOK' /\ VerdictInv' /\ WholeReport'
  BY <1>1 DEF MachineInv, TypesOK, ProcsOK, VerdictInv, WholeReport
<1>3. LogInv' /\ MixerInv' /\ PlaysInv'
  <2>1. \A c \in Pids : RequestOK(c)'
    BY <1>1 DEF MachineInv, LogInv, RequestOK
  <2>2. 1 \in Pids
    BY StationAssumption DEF Pids
  <2> QED
    BY <1>1, <2>1, <2>2 DEF MachineInv, LogInv, MixerInv, PlaysInv
<1>4. DialInv' /\ ScriptInv' /\ BtScanInv' /\ FilesInv' /\ ScanInv'
  <2>1. 1 \in Pids
    BY StationAssumption DEF Pids
  <2> QED
    BY <1>1, <2>1 DEF MachineInv, DialInv, ScriptInv, BtScanInv, FilesInv, ScanInv, Judged
<1> QED
  BY <1>2, <1>3, <1>4 DEF MachineInv

\* Every step of a child.
LEMMA ChildWorks ==
  ASSUME MachineInv, NEW c \in Pids \ {1}, Works(c) \/ Key(c) \/ Steals(c) \/ excute_request(c)
  PROVE  MachineInv'
<1>1. procs[c].prog # <<>>
  BY DEF Works, Key, Steals, excute_request, Fork, Path, Countdown, Block, Text, Set, Power, File,
     Need, Kill, Judge, Copy, Bind, Respond, Does
<1>2. Step(c) \in ChildStep(procs[c].what) /\ \A op : Does(c, op) <=> Step(c).op = op
  BY <1>1, ChildStepIs
<1>3. ~ Fork(c) /\ ~ Need(c) /\ ~ Kill(c) /\ ~ Judge(c) /\ ~ Copy(c)
  BY <1>2 DEF Fork, Need, Kill, Judge, Copy, ChildStep, ChildOps
<1>4. CASE Steals(c)
  BY <1>4, MachineStays DEF Steals, control, machine, history
<1> QED
  BY <1>1, <1>3, <1>4, ChildQuiet, ChildPath, ChildFile, ChildOpens, ChildRespond,
     ChildAccepts DEF Works

\* Nothing of the machine changes but that a result is logged, while no test runs.
LEMMA Rests ==
  ASSUME MachineInv, UNCHANGED <<procs, last, btpower, mixer, files, copy, runs, late, verdict, replies>>,
         Main = <<>>, at # "exited", at' \in {"loop", "popup"}, log' \in Nat
  PROVE  MachineInv'
<1>1. /\ Main' = Main
      /\ \A c \in Pids : Step(c)' = Step(c) /\ \A op : Does(c, op)' <=> Does(c, op)
  BY DEF Main, Step, Does
<1>2. TypesOK' /\ ProcsOK' /\ VerdictInv' /\ WholeReport'
  BY <1>1 DEF MachineInv, TypesOK, ProcsOK, VerdictInv, WholeReport
<1>3. LogInv' /\ MixerInv' /\ PlaysInv'
  <2>1. \A c \in Pids : RequestOK(c)'
    BY <1>1 DEF MachineInv, LogInv, RequestOK
  <2>2. 1 \in Pids
    BY StationAssumption DEF Pids
  <2> QED
    BY <1>1, <2>1, <2>2 DEF MachineInv, LogInv, MixerInv, PlaysInv
<1>4. DialInv' /\ ScriptInv' /\ BtScanInv' /\ FilesInv' /\ ScanInv'
  <2>1. 1 \in Pids
    BY StationAssumption DEF Pids
  <2> QED
    BY <1>1, <2>1 DEF MachineInv, DialInv, ScriptInv, BtScanInv, FilesInv, ScanInv, Judged
<1> QED
  BY <1>2, <1>3, <1>4 DEF MachineInv

\* What is left of earlier tests when none runs: nobody the next one waits for or
\* is disturbed by.
LEMMA Leftovers ==
  ASSUME MachineInv, Main = <<>>, at # "exited"
  PROVE  /\ mixer \in Quiet
         /\ \A c \in Pids \ {1} :
              /\ ~ Does(c, "path") /\ procs[c].what # "dial"
              /\ ~ late => procs[c].what # "script"
              /\ procs[c].what = "bt_scan" => ~ Unopened(procs[c]) /\ procs[c].fd = 1 + procs[c].run
<1>1. \A name : ~ Awaits(Main, name)
  <2>1. Len(Main) <= 0
    OBVIOUS
  <2> HIDE DEF Main
  <2> QED
    BY <2>1 DEF Awaits
<1>2. \A op : ~ Does(1, op)
  BY DEF Does, Main
<1>3. mixer \in Quiet
  BY EmptyOK DEF MachineInv, MixerInv
<1> QED
  BY <1>1, <1>2, <1>3 DEF MachineInv, PlaysInv, DialInv, ScriptInv, BtScanInv

\* A test begins.
LEMMA Begins ==
  ASSUME MachineInv, Main = <<>>, at # "exited", NEW t \in DOMAIN TestFunctions, Begin(t),
         UNCHANGED <<last, btpower, mixer, files, copy, late, verdict, replies>>, log' \in Nat
  PROVE  MachineInv'
<1> DEFINE p == TestFunctions[t]
<1>1. p \in Seq(TestStep) /\ Orderly(p) /\ Whole(p)
  BY TestsGood DEF Good
<1>2. /\ procs \in [Pids -> Process] /\ 1 \in Pids /\ runs \in Nat /\ runs' = runs + 1 /\ at' = "run"
      /\ procs[1].what = "none"
  BY StationAssumption DEF MachineInv, ProcsOK, TypesOK, Begin, Pids
<1>3. p \in Seq(AnyStep)
  <2>1. TestStep \subseteq AnyStep
    BY DEF TestStep
  <2> HIDE DEF p
  <2> QED
    BY <1>1, <2>1
<1> HIDE DEF p
<1>4. /\ procs' \in [Pids -> Process] /\ \A c \in Pids \ {1} : procs'[c] = procs[c]
      /\ procs'[1].prog = p /\ procs'[1].run = runs' /\ procs'[1].what = "none"
  <2>1. procs' = [procs EXCEPT ![1].prog = p, ![1].run = runs + 1]
    BY DEF Begin, p
  <2> DEFINE mid == [procs[1] EXCEPT !.prog = p]
             next == runs + 1
             new == [mid EXCEPT !.run = next]
  <2>2. procs[1] \in Process
    BY <1>2
  <2>a. mid \in Process /\ mid.prog = p /\ mid.what = procs[1].what
    BY <1>3, <2>2 DEF Process
  <2>3. new \in Process /\ new.prog = p /\ new.run = runs + 1 /\ new.what = "none"
    <3>1. next \in Nat
      BY <1>2
    <3> HIDE DEF mid, next
    <3>2. new \in Process /\ new.prog = p /\ new.run = next /\ new.what = "none"
      BY <1>2, <2>a, <3>1 DEF Process
    <3> QED
      BY <3>2 DEF next
  <2>4. procs' = [procs EXCEPT ![1] = new]
    BY <2>1, <2>2, <1>2 DEF Process
  <2> HIDE DEF new
  <2> QED
    BY <1>2, <2>3, <2>4
<1>5. /\ Main' = p
      /\ \A c \in Pids \ {1} : Step(c)' = Step(c) /\ \A op : Does(c, op)' <=> Does(c, op)
  BY <1>4 DEF Main, Step, Does
<1>6. TypesOK' /\ ProcsOK' /\ VerdictInv' /\ WholeReport'
  BY <1>1, <1>2, <1>4, <1>5 DEF MachineInv, TypesOK, ProcsOK, VerdictInv, WholeReport
<1>7. LogInv'
  <2>1. \A c \in Pids : RequestOK(c)'
    BY <1>4, <1>5 DEF MachineInv, LogInv, RequestOK
  <2> QED
    BY <2>1, <1>1, <1>4, <1>5 DEF MachineInv, LogInv, Whole
<1>8. MixerInv' /\ PlaysInv' /\ DialInv' /\ ScriptInv' /\ BtScanInv'
  BY <1>4, <1>5, Leftovers DEF MixerInv, PlaysInv, DialInv, ScriptInv, BtScanInv
<1>9. FilesInv' /\ ScanInv'
  <2>1. \A f \in Files : ~ Judged(f)'
    BY <1>1, <1>5 DEF Judged, Whole, Has
  <2> QED
    BY <2>1, <1>1, <1>5 DEF FilesInv, ScanInv, Whole
<1> QED
  BY <1>6, <1>7, <1>8, <1>9 DEF MachineInv

\* The program exits: only scripts go on.
LEMMA Exits == ASSUME MachineInv, Exit PROVE MachineInv'
<1>1. /\ UNCHANGED <<last, btpower, mixer, files, log, copy, runs, late, verdict, replies>>
      /\ at' = "exited" /\ procs' = [c \in Pids |-> IF procs[c].what = "script" THEN procs[c] ELSE Gone]
  BY DEF Exit, finger, history
<1>2. procs \in [Pids -> Process] /\ 1 \in Pids /\ procs[1].what = "none"
  BY StationAssumption DEF MachineInv, ProcsOK, Pids
<1>3. /\ procs' \in [Pids -> Process] /\ procs'[1] = Gone
      /\ \A c \in Pids : procs'[c] = Gone \/ (procs'[c] = procs[c] /\ procs[c].what = "script")
  BY <1>1, <1>2, GoneIs
<1>4. Main' = <<>>
  BY <1>3, GoneIs DEF Main
<1>5. ProcsOK'
  BY <1>1, <1>2, <1>3, <1>4, GoneIs, EmptyOK DEF ProcsOK, MachineInv
<1>6. LogInv'
  BY <1>3, <1>4, GoneIs, EmptyOK DEF LogInv, RequestOK
<1>7. TypesOK' /\ VerdictInv' /\ WholeReport'
  BY <1>1 DEF MachineInv, TypesOK, VerdictInv, WholeReport
<1> QED
  BY <1>1, <1>5, <1>6, <1>7 DEF MachineInv, MixerInv, PlaysInv, DialInv, ScriptInv, BtScanInv,
     FilesInv, ScanInv

\* Nothing has run when the program starts.
LEMMA MachineInit == Init => MachineInv
<1> SUFFICES ASSUME Init PROVE MachineInv
  OBVIOUS
<1>1. /\ at = "loop" /\ procs = [c \in Pids |-> Gone] /\ last = 1 /\ btpower = FALSE
      /\ mixer = "speaker" /\ files = [f \in Files |-> NoFile] /\ log = 0 /\ copy = -1
      /\ runs = 0 /\ verdict = [run |-> 0, from |-> {0}] /\ late = FALSE /\ replies = {}
  BY DEF Init
<1>2. 1 \in Pids /\ \A c \in Pids : procs[c] = Gone
  BY <1>1, StationAssumption DEF Pids
<1>3. Main = <<>> /\ \A c \in Pids : procs[c].prog = <<>> /\ procs[c].what = "none"
  BY <1>2, GoneIs DEF Main
<1>4. TypesOK
  BY <1>1, <1>2 DEF TypesOK, NoFile
<1>5. ProcsOK
  <2>1. procs \in [Pids -> Process]
    BY <1>1, GoneIs
  <2>2. procs[1].run = runs
    BY <1>1, <1>2 DEF Gone
  <2> QED
    BY <2>1, <2>2, <1>2, <1>3, EmptyOK DEF ProcsOK
<1>6. LogInv
  BY <1>3, EmptyOK DEF LogInv, RequestOK
<1>7. \A c \in Pids : \A op : ~ Does(c, op)
  BY <1>3 DEF Does
<1>8. MixerInv /\ PlaysInv /\ DialInv /\ ScriptInv /\ BtScanInv
  BY <1>1, <1>3, <1>7 DEF MixerInv, PlaysInv, DialInv, ScriptInv, BtScanInv, Quiet
<1>9. FilesInv /\ ScanInv
  BY <1>3, EmptyOK DEF FilesInv, ScanInv, Judged
<1>10. VerdictInv /\ WholeReport
  BY <1>1 DEF VerdictInv, WholeReport
<1> QED
  BY <1>4, <1>5, <1>6, <1>8, <1>9, <1>10 DEF MachineInv
-----------------------------------------------------------------------------
(***************************************************************************)
(* The board and what it numbers.                                          *)
(***************************************************************************)
\* The largest of some numbers.
LEMMA MaxIs ==
  ASSUME NEW n \in Nat, NEW s, s \subseteq 0 .. n, s # {}
  PROVE  Max(s) \in s /\ \A x \in s : x <= Max(s)
<1> DEFINE Gaps == {n - x : x \in s}
<1>1. Gaps \subseteq Nat /\ Gaps # {}
  <2>1. \A x \in s : n - x \in Nat
    OBVIOUS
  <2>2. Gaps \subseteq Nat
    BY <2>1
  <2>3. PICK x \in s : TRUE
    OBVIOUS
  <2>4. n - x \in Gaps
    BY <2>3
  <2> QED
    BY <2>2, <2>4
<1>2. PICK g \in Gaps : \A h \in Gaps : g <= h
  BY <1>1, LeastNat
<1>3. PICK x \in s : g = n - x
  BY <1>2
<1>4. \A y \in s : x >= y
  <2> SUFFICES ASSUME NEW y \in s PROVE x >= y
    OBVIOUS
  <2>1. n - y \in Gaps
    OBVIOUS
  <2>2. g <= n - y
    BY <2>1, <1>2
  <2> QED
    BY <2>2, <1>3
<1>5. Max(s) \in s /\ \A y \in s : Max(s) >= y
  BY <1>3, <1>4 DEF Max
<1> QED
  BY <1>5

\* What the station was built with: suites, and where their buttons are.
LEMMA BoardIs ==
  ASSUME NEW b \in Boards
  PROVE  /\ b \in Seq(Seq(DOMAIN TestFunctions)) /\ Len(b) \in Nat \ {0}
         /\ Len(b) <= Len(Layout.item)
         /\ \A s \in 1 .. Len(b) :
              /\ b[s] \in Seq(DOMAIN TestFunctions) /\ Len(b[s]) \in Nat
              /\ Len(b[s]) <= Len(Layout.test) /\ DOMAIN b[s] = 1 .. Len(b[s])
         /\ DOMAIN b = 1 .. Len(b)
<1>1. /\ b \in Seq(Seq(DOMAIN TestFunctions)) /\ Len(b) \in 1 .. Len(Layout.item)
      /\ \A s \in DOMAIN b : Len(b[s]) <= Len(Layout.test)
  BY StationAssumption
<1>2. Layout.item \in Seq(Rects)
  BY StationAssumption
<1>3. Len(b) \in Nat \ {0} /\ Len(b) <= Len(Layout.item) /\ DOMAIN b = 1 .. Len(b)
  BY <1>1, <1>2
<1>4. ASSUME NEW s \in 1 .. Len(b)
      PROVE  /\ b[s] \in Seq(DOMAIN TestFunctions) /\ Len(b[s]) \in Nat
             /\ Len(b[s]) <= Len(Layout.test) /\ DOMAIN b[s] = 1 .. Len(b[s])
  <2>1. b[s] \in Seq(DOMAIN TestFunctions)
    BY <1>1
  <2>2. Len(b[s]) \in Nat /\ DOMAIN b[s] = 1 .. Len(b[s])
    BY <2>1
  <2> QED
    BY <1>1, <1>3, <2>1, <2>2
<1> QED
  BY <1>1, <1>3, <1>4

\* The tests of a suite follow those of the one before, between the first four
\* buttons and the popup.
LEMMA FirstIs ==
  ASSUME board \in Boards
  PROVE  /\ FirstOf(1) = 4
         /\ \A s \in 1 .. Len(board) : FirstOf(s + 1) = FirstOf(s) + Len(board[s])
         /\ \A s \in 1 .. Len(board) + 1 : FirstOf(s) \in Nat /\ FirstOf(s) >= 4
<1> DEFINE step == [i \in DOMAIN board |-> [n \in Nat |-> n + Len(board[i])]]
           n == Len(board)
           f == Iterates(step, 4)
<1>1. /\ n \in Nat \ {0} /\ DOMAIN board = 1 .. n
      /\ \A s \in 1 .. n : Len(board[s]) \in Nat
  BY BoardIs
<1>2. step \in Seq([Nat -> Nat]) /\ DOMAIN step = 1 .. n
  <2>1. DOMAIN step = 1 .. n /\ \A i \in 1 .. n : step[i] \in [Nat -> Nat]
    BY <1>1
  <2> DEFINE Sums == [Nat -> Nat]
  <2>2. step = [i \in 1 .. n |-> step[i]] /\ n \in Nat
    BY <1>1
  <2> HIDE DEF step, n
  <2>3. \A i \in 1 .. n : step[i] \in Sums
    BY <2>1
  <2> HIDE DEF Sums
  <2>4. step \in Seq(Sums)
    BY <2>2, <2>3
  <2> QED
    BY <2>1, <2>4 DEF Sums
<1>3. \A i \in 1 .. n, k \in Nat : step[i][k] = k + Len(board[i])
  BY <1>1
<1>4. /\ f \in [0 .. n -> Nat] /\ f[0] = 4
      /\ \A i \in 1 .. n : f[i] = step[i][f[i - 1]]
  <2> HIDE DEF step, n
  <2>1. Len(step) = n
    BY <1>1, <1>2
  <2> DEFINE four == 4
  <2>2. four \in Nat /\ step \in Seq([Nat -> Nat]) /\ f = Iterates(step, four)
    BY <1>2
  <2> HIDE DEF four
  <2>3. Iterates(step, four) \in [0 .. Len(step) -> Nat] /\ Ran(Iterates(step, four), step, four)
    BY <2>2, IteratesStep
  <2> HIDE DEF f
  <2>4. f \in [0 .. n -> Nat] /\ Ran(f, step, four)
    BY <2>1, <2>2, <2>3
  <2> QED
    BY <2>1, <2>4 DEF four, Ran
<1>5. \A s : FirstOf(s) = f[s - 1]
  BY DEF FirstOf
<1> HIDE DEF f, step, n
<1>6. ASSUME NEW i \in 1 .. n PROVE f[i] = f[i - 1] + Len(board[i])
  <2>1. i - 1 \in 0 .. n
    BY <1>1
  <2>2. f[i - 1] \in Nat
    BY <2>1, <1>4
  <2> QED
    BY <2>2, <1>3, <1>4
<1>7. ASSUME NEW i \in 0 .. n PROVE f[i] >= 4
  <2> DEFINE Low == {k \in Nat : k <= n /\ ~ f[k] >= 4}
  <2>1. ASSUME Low # {} PROVE FALSE
    <3>1. PICK k \in Low : \A j \in Low : k <= j
      BY <2>1, LeastNat
    <3>2. k # 0 /\ k \in 1 .. n
      BY <3>1, <1>4, <1>1
    <3>3. k - 1 \in Nat /\ k - 1 <= n /\ f[k - 1] >= 4
      BY <3>1, <3>2, <1>1
    <3>4. f[k] = f[k - 1] + Len(board[k]) /\ Len(board[k]) \in Nat /\ f[k - 1] \in Nat
      BY <3>2, <3>3, <1>1, <1>4, <1>6
    <3> QED
      BY <3>1, <3>3, <3>4
  <2> QED
    BY <2>1, <1>1
<1>8. FirstOf(1) = 4
  BY <1>4, <1>5
<1>9. ASSUME NEW s \in 1 .. n PROVE FirstOf(s + 1) = FirstOf(s) + Len(board[s])
  BY <1>1, <1>5, <1>6
<1>10. ASSUME NEW s \in 1 .. n + 1 PROVE FirstOf(s) \in Nat /\ FirstOf(s) >= 4
  <2>1. s - 1 \in 0 .. n
    BY <1>1
  <2> QED
    BY <2>1, <1>4, <1>5, <1>7
<1> QED
  BY <1>8, <1>9, <1>10 DEF n

\* How many suites a board has, and how many tests each.
LEMMA SuitesIn ==
  ASSUME board \in Boards
  PROVE  /\ Popup \in Nat /\ Popup >= 5 /\ Dialog = Popup + 1
         /\ \A s \in 1 .. Len(board) : TestsOf(s) \subseteq 5 .. Popup - 1
<1> DEFINE n == Len(board)
           Over == {k \in Nat : k < n /\ ~ FirstOf(n + 1 - k) <= FirstOf(n + 1)}
<1>1. /\ n \in Nat \ {0} /\ \A s \in 1 .. n : Len(board[s]) \in Nat
      /\ \A s \in 1 .. n : FirstOf(s + 1) = FirstOf(s) + Len(board[s])
      /\ \A s \in 1 .. n + 1 : FirstOf(s) \in Nat /\ FirstOf(s) >= 4
  BY BoardIs, FirstIs
<1>p. Popup = FirstOf(n + 1) + 1 /\ Dialog = Popup + 1
  BY DEF Popup, Dialog
<1>t. \A s : TestsOf(s) = FirstOf(s) + 1 .. FirstOf(s) + Len(board[s])
  BY DEF TestsOf
<1> HIDE DEF n
<1>2. ASSUME Over # {} PROVE FALSE
  <2>1. PICK k \in Over : \A j \in Over : k <= j
    BY <1>2, LeastNat
  <2>2. k # 0
    BY <2>1, <1>1
  <2>3. k - 1 \in Nat /\ k - 1 < n /\ k - 1 \notin Over
    <3>1. k \in Nat /\ k < n
      BY <2>1
    <3>2. k - 1 \in Nat /\ k - 1 < n /\ ~ (k <= k - 1)
      BY <3>1, <2>2, <1>1
    <3> HIDE DEF Over
    <3> QED
      BY <3>2, <2>1
  <2>4. FirstOf(n + 1 - (k - 1)) <= FirstOf(n + 1)
    BY <2>3
  <2>5. n + 1 - k \in 1 .. n /\ n + 1 - (k - 1) = (n + 1 - k) + 1
    BY <2>1, <2>2, <1>1
  <2> DEFINE s == n + 1 - k
  <2>6. /\ FirstOf(s + 1) = FirstOf(s) + Len(board[s]) /\ FirstOf(s + 1) <= FirstOf(n + 1)
        /\ Len(board[s]) \in Nat /\ s \in 1 .. n + 1 /\ n + 1 \in 1 .. n + 1
    BY <2>4, <2>5, <1>1
  <2> HIDE DEF s
  <2>p. FirstOf(s) \in Nat /\ FirstOf(n + 1) \in Nat
    BY <2>6, <1>1
  <2>7. FirstOf(s) <= FirstOf(n + 1)
    BY <2>6, <2>p
  <2> QED
    BY <2>1, <2>7 DEF s
<1>3. ASSUME NEW s \in 1 .. n PROVE FirstOf(s + 1) <= FirstOf(n + 1)
  <2>1. CASE s = n
    BY <2>1, <1>1
  <2>2. CASE s # n
    <3>1. n - s \in Nat /\ n - s < n /\ n + 1 - (n - s) = s + 1
      BY <2>2, <1>1
    <3> QED
      BY <3>1, <1>2
  <2> QED
    BY <2>1, <2>2
<1>4. n + 1 \in 1 .. n + 1
  BY <1>1
<1>5. ASSUME NEW s \in 1 .. n PROVE TestsOf(s) \subseteq 5 .. Popup - 1
  <2>1. s \in 1 .. n + 1
    BY <1>1
  <2> DEFINE a == FirstOf(s)
             l == Len(board[s])
             z == FirstOf(n + 1)
  <2>2. a \in Nat /\ a >= 4 /\ z \in Nat /\ l \in Nat
    BY <2>1, <1>1, <1>4
  <2>3. FirstOf(s + 1) = a + l /\ FirstOf(s + 1) <= z
    BY <1>1, <1>3
  <2>4. TestsOf(s) = a + 1 .. a + l /\ Popup = z + 1
    BY <1>t, <1>p
  <2> HIDE DEF a, l, z
  <2> QED
    BY <2>2, <2>3, <2>4
<1>6. Popup \in Nat /\ Popup >= 5
  <2> DEFINE z == FirstOf(n + 1)
  <2>1. z \in Nat /\ z >= 4 /\ Popup = z + 1
    BY <1>1, <1>4, <1>p
  <2> HIDE DEF z
  <2> QED
    BY <2>1
<1> QED
  BY <1>5, <1>6, <1>p DEF n
-----------------------------------------------------------------------------
(***************************************************************************)
(* How the toolkit changes a screen.                                       *)
(***************************************************************************)
\* How the toolkit may change a screen that it has not redrawn yet: a button
\* stays where it is, and whatever looks different then is marked or invalid.
Changes(v, u) ==
  /\ v \in Ui /\ Len(v.button) = Len(u.button) /\ v.screen = u.screen
  /\ u.depressed <= Len(u.button) => v.depressed <= Len(u.button)
  /\ \A p \in Points : Covers(u.invalid, p) => Covers(v.invalid, p)
  /\ \A b \in 1 .. Len(u.button) :
       /\ v.button[b].rect = u.button[b].rect /\ v.button[b].cb = u.button[b].cb
       /\ v.button[b].sensitive = u.button[b].sensitive
       /\ b \notin {View, Popup} => v.button[b].face = u.button[b].face
       /\ u.button[b].update => v.button[b].update
       /\ v.button[b].face # u.button[b].face => v.button[b].update
       /\ v.button[b].show /\ ~ u.button[b].show => v.button[b].update
       /\ u.button[b].show /\ ~ v.button[b].show =>
            \A p \in Points : Covers(u.button[b].rect, p) => Covers(v.invalid, p)
Alike(v, u) == \A b \in 1 .. Len(u.button) : v.button[b].show = u.button[b].show
Kept_active(v, u) == \A b \in 1 .. Len(u.button) : v.button[b].active = u.button[b].active
Shifted(v, u, bs, show) ==
  /\ v.depressed = u.depressed /\ v.abort = u.abort
  /\ \A b \in 1 .. Len(u.button) : /\ v.button[b].show = IF b \in bs THEN show ELSE u.button[b].show
                                   /\ v.button[b].face = u.button[b].face

\* The parts of a screen.
LEMMA UiIs ==
  ASSUME NEW u \in Ui
  PROVE  /\ Len(u.button) \in Nat /\ DOMAIN u.button = 1 .. Len(u.button)
         /\ u.button \in Seq(Button) /\ u.depressed \in Nat /\ u.invalid \in Rects
         /\ \A b \in 1 .. Len(u.button) :
              /\ u.button[b] \in Button /\ u.button[b].rect \in Rects
              /\ u.button[b].show \in BOOLEAN /\ u.button[b].sensitive \in BOOLEAN
              /\ u.button[b].active \in BOOLEAN /\ u.button[b].update \in BOOLEAN
              /\ u.button[b].face \in Labels /\ u.button[b].cb \in Callbacks
<1>1. u.button \in Seq(Button) /\ u.depressed \in Nat /\ u.invalid \in Rects
  BY DEF Ui
<1>2. Len(u.button) \in Nat /\ DOMAIN u.button = 1 .. Len(u.button)
      /\ \A b \in 1 .. Len(u.button) : u.button[b] \in Button
  BY <1>1
<1> QED
  BY <1>1, <1>2 DEF Button

\* Two changes, one after the other.
LEMMA ChangesTrans ==
  ASSUME NEW u, NEW v, NEW w, Changes(v, u), Changes(w, v)
  PROVE  Changes(w, u)
BY DEF Changes

\* A button gets a name.
LEMMA SetNameIs ==
  ASSUME NEW u \in Ui, NEW b \in 1 .. Len(u.button), NEW face \in Labels
  PROVE  LET v == oltk_button_set_name(u, b, face)
         IN  /\ v \in Ui /\ Len(v.button) = Len(u.button) /\ v.screen = u.screen
             /\ v.depressed = u.depressed /\ v.invalid = u.invalid /\ v.abort = u.abort
             /\ Alike(v, u) /\ Kept_active(v, u)
             /\ b \in {View, Popup} => Changes(v, u)
<1> DEFINE old  == u.button[b]
           new  == [[old EXCEPT !.face = face] EXCEPT !.update = TRUE]
           bs   == [u.button EXCEPT ![b] = new]
           v    == oltk_button_set_name(u, b, face)
<1>1. old \in Button /\ u.button \in Seq(Button) /\ u.button = [k \in 1 .. Len(u.button) |-> u.button[k]]
  BY UiIs
<1>2. /\ new \in Button /\ new.face = face /\ new.update /\ new.rect = old.rect /\ new.show = old.show
      /\ new.sensitive = old.sensitive /\ new.active = old.active /\ new.cb = old.cb
  <2> HIDE DEF old
  <2> QED
    BY <1>1 DEF Button
<1>3. v = [u EXCEPT !.button = bs]
  BY UiIs DEF oltk_button_set_name, Ui, Button
<1> HIDE DEF new, old, v
<1>4. bs \in Seq(Button) /\ Len(bs) = Len(u.button) /\ bs[b] = new
      /\ \A k \in 1 .. Len(u.button) : k # b => bs[k] = u.button[k]
  BY <1>1, <1>2
<1> HIDE DEF bs
<1>5. /\ v \in Ui /\ v.button = bs /\ v.depressed = u.depressed /\ v.invalid = u.invalid
      /\ v.screen = u.screen /\ v.abort = u.abort
  BY <1>3, <1>4 DEF Ui
<1>6. Alike(v, u) /\ Kept_active(v, u)
  BY <1>2, <1>4, <1>5 DEF Alike, Kept_active, old
<1>7. b \in {View, Popup} => Changes(v, u)
  BY <1>2, <1>4, <1>5 DEF Changes, old
<1> QED
  BY <1>4, <1>5, <1>6, <1>7 DEF v

\* The bounding box covers what was invalid and what is added.
LEMMA InvalidateCovers ==
  ASSUME NEW a \in Rects, NEW r \in Rects
  PROVE  /\ oltk_invalidate(a, r) \in Rects
         /\ \A p \in Points : Covers(a, p) \/ Covers(r, p) => Covers(oltk_invalidate(a, r), p)
<1> DEFINE left == Least(a.x, r.x)
           top  == Least(a.y, r.y)
           right  == Most(a.x + a.width, r.x + r.width)
           bottom == Most(a.y + a.height, r.y + r.height)
           box == [x |-> left, y |-> top, width |-> right - left, height |-> bottom - top]
<1>1. /\ a.x \in Int /\ a.y \in Int /\ a.width \in Nat /\ a.height \in Nat
      /\ r.x \in Int /\ r.y \in Int /\ r.width \in Nat /\ r.height \in Nat
  BY DEF Rects
<1>2. ASSUME NEW p \in Points PROVE p[1] \in Int /\ p[2] \in Int
  BY OltkAssumption DEF Points
<1>3. CASE a.width * a.height = 0
  <2>1. a.width = 0 \/ a.height = 0
    <3>1. SUFFICES ASSUME a.width >= 1, a.height >= 1 PROVE a.width * a.height >= 1
      BY <1>1, <1>3
    <3> DEFINE m == a.width
               n == a.height
    <3>2. m \in Nat /\ n \in Nat /\ m >= 1 /\ n >= 1
      BY <3>1, <1>1
    <3> HIDE DEF m, n
    <3>3. m * n >= 1
      BY <3>2
    <3> QED
      BY <3>3 DEF m, n
  <2>2. oltk_invalidate(a, r) = r
    BY <1>3 DEF oltk_invalidate
  <2>3. ASSUME NEW p \in Points PROVE ~ Covers(a, p)
    BY <2>1, <1>1, <1>2 DEF Covers
  <2> QED
    BY <2>2, <2>3
<1>4. CASE a.width * a.height # 0
  <2>1. oltk_invalidate(a, r) = box
    BY <1>4 DEF oltk_invalidate
  <2>2. /\ left \in Int /\ top \in Int /\ right \in Int /\ bottom \in Int
        /\ left <= a.x /\ left <= r.x /\ top <= a.y /\ top <= r.y
        /\ right >= a.x + a.width /\ right >= r.x + r.width
        /\ bottom >= a.y + a.height /\ bottom >= r.y + r.height
    BY <1>1 DEF Least, Most
  <2> HIDE DEF left, top, right, bottom
  <2>3. right - left \in Nat /\ bottom - top \in Nat
    BY <2>2, <1>1
  <2>4. box \in Rects
    BY <2>2, <2>3 DEF Rects
  <2>5. left + (right - left) = right /\ top + (bottom - top) = bottom
    BY <2>2
  <2>6. /\ box.x = left /\ box.y = top /\ box.x + box.width = right /\ box.y + box.height = bottom
    BY <2>5
  <2> HIDE DEF box
  <2>7. ASSUME NEW p \in Points, Covers(a, p) \/ Covers(r, p) PROVE Covers(box, p)
    <3>1. p[1] \in Int /\ p[2] \in Int
      BY <1>2
    <3>2. p[1] >= left /\ p[1] < right /\ p[2] >= top /\ p[2] < bottom
      <4>1. CASE Covers(a, p)
        BY <4>1, <3>1, <2>2, <1>1 DEF Covers
      <4>2. CASE Covers(r, p)
        BY <4>2, <3>1, <2>2, <1>1 DEF Covers
      <4> QED
        BY <2>7, <4>1, <4>2
    <3> QED
      BY <3>2, <2>6 DEF Covers
  <2> QED
    BY <2>1, <2>4, <2>7
<1> QED
  BY <1>3, <1>4

\* What is invalid after some buttons were hidden covers them and what was invalid.
LEMMA UncoveredIs ==
  ASSUME NEW u \in Ui, NEW bs, bs \subseteq 1 .. Len(u.button)
  PROVE  /\ Uncovered(u, bs) \in Rects
         /\ \A p \in Points : Covers(u.invalid, p) => Covers(Uncovered(u, bs), p)
         /\ \A b \in bs, p \in Points : Covers(u.button[b].rect, p) => Covers(Uncovered(u, bs), p)
<1> DEFINE n == Len(u.button)
           step == [i \in DOMAIN u.button |-> [inv \in Rects |->
                     IF i \in bs THEN oltk_invalidate(inv, u.button[i].rect) ELSE inv]]
           f == Iterates(step, u.invalid)
<1>1. /\ n \in Nat /\ DOMAIN u.button = 1 .. n /\ u.invalid \in Rects
      /\ \A i \in 1 .. n : u.button[i].rect \in Rects
  BY UiIs
<1>2. \A i \in 1 .. n : step[i] \in [Rects -> Rects]
  BY <1>1, InvalidateCovers
<1>3. DOMAIN step = 1 .. n /\ step = [i \in 1 .. n |-> step[i]]
  BY <1>1
<1>4. \A i \in 1 .. n, inv \in Rects :
        step[i][inv] = IF i \in bs THEN oltk_invalidate(inv, u.button[i].rect) ELSE inv
  BY <1>1
<1>5. Uncovered(u, bs) = f[n]
  BY DEF Uncovered
<1> HIDE DEF step, n
<1>6. step \in Seq([Rects -> Rects]) /\ Len(step) = n
  BY <1>1, <1>2, <1>3
<1>7. f \in [0 .. n -> Rects] /\ Ran(f, step, u.invalid)
  BY <1>1, <1>6, IteratesStep
<1> HIDE DEF f
<1>8. f[0] = u.invalid /\ \A i \in 1 .. n : f[i] = step[i][f[i - 1]]
  BY <1>6, <1>7 DEF Ran
<1>9. ASSUME NEW i \in 1 .. n, NEW p \in Points
      PROVE  /\ Covers(f[i - 1], p) => Covers(f[i], p)
             /\ i \in bs /\ Covers(u.button[i].rect, p) => Covers(f[i], p)
  <2>1. i - 1 \in 0 .. n
    BY <1>1
  <2>2. f[i - 1] \in Rects /\ f[i] = step[i][f[i - 1]]
    BY <2>1, <1>7, <1>8
  <2> QED
    BY <2>2, <1>1, <1>4, InvalidateCovers
<1>10. ASSUME NEW i \in 0 .. n, NEW p \in Points, Covers(f[i], p) PROVE Covers(f[n], p)
  <2> DEFINE Lost == {k \in Nat : i <= k /\ k <= n /\ ~ Covers(f[k], p)}
  <2>1. ASSUME Lost # {} PROVE FALSE
    <3>1. PICK k \in Lost : \A j \in Lost : k <= j
      BY <2>1, LeastNat
    <3>2. k # i /\ k \in 1 .. n /\ k - 1 \in Nat /\ i <= k - 1 /\ k - 1 <= n
      BY <3>1, <1>10, <1>1
    <3>3. Covers(f[k - 1], p)
      BY <3>1, <3>2
    <3>4. Covers(f[k], p)
      BY <3>2, <3>3, <1>9
    <3> QED
      BY <3>1, <3>4
  <2> QED
    BY <2>1, <1>1
<1>11. f[n] \in Rects
  BY <1>1, <1>7
<1>12. \A p \in Points : Covers(u.invalid, p) => Covers(f[n], p)
  BY <1>1, <1>8, <1>10
<1>13. ASSUME NEW b \in bs, NEW p \in Points, Covers(u.button[b].rect, p) PROVE Covers(f[n], p)
  <2>1. b \in 1 .. n
    BY DEF n
  <2>2. Covers(f[b], p)
    BY <2>1, <1>9, <1>13
  <2> QED
    BY <2>1, <2>2, <1>1, <1>10
<1> QED
  BY <1>5, <1>11, <1>12, <1>13

\* Buttons are shown or hidden.
LEMMA ShowAllIs ==
  ASSUME NEW u \in Ui, NEW bs, bs \subseteq 1 .. Len(u.button), NEW show \in BOOLEAN
  PROVE  LET v == ShowAll(u, bs, show)
         IN  Changes(v, u) /\ Kept_active(v, u) /\ Shifted(v, u, bs, show)
<1> DEFINE n == Len(u.button)
           changed == {b \in bs : u.button[b].show # show}
           To(old)  == [[old EXCEPT !.show = show] EXCEPT !.update = TRUE]
           all == [b \in 1 .. n |-> IF b \in changed THEN To(u.button[b]) ELSE u.button[b]]
           inv == IF show THEN u.invalid ELSE Uncovered(u, changed)
           v   == ShowAll(u, bs, show)
<1>1. /\ n \in Nat /\ DOMAIN u.button = 1 .. n /\ u.invalid \in Rects /\ u.button \in Seq(Button)
      /\ \A i \in 1 .. n : u.button[i] \in Button
  BY UiIs
<1>2. ASSUME NEW old \in Button
      PROVE  LET new == To(old) IN
             /\ new \in Button /\ new.face = old.face /\ new.update /\ new.rect = old.rect
             /\ new.show = show /\ new.sensitive = old.sensitive /\ new.active = old.active
             /\ new.cb = old.cb
  BY DEF Button
<1>3. v = [u EXCEPT !.button = all, !.invalid = inv]
  <2>1. \A b \in 1 .. n : [u.button[b] EXCEPT !.show = show, !.update = TRUE] = To(u.button[b])
    BY <1>1 DEF Button
  <2> QED
    BY <1>1, <2>1 DEF ShowAll, Ui
<1> HIDE DEF To, v, n
<1>4. changed \subseteq bs /\ changed \subseteq 1 .. n
  BY DEF n
<1>5. /\ inv \in Rects /\ \A p \in Points : Covers(u.invalid, p) => Covers(inv, p)
      /\ ~ show => \A b \in changed, p \in Points : Covers(u.button[b].rect, p) => Covers(inv, p)
  <2> HIDE DEF changed
  <2> QED
    BY <1>1, <1>4, UncoveredIs DEF n
<1> HIDE DEF inv
<1>6. /\ all \in Seq(Button) /\ Len(all) = n
      /\ \A b \in 1 .. n : all[b] = IF b \in changed THEN To(u.button[b]) ELSE u.button[b]
  <2>1. \A b \in 1 .. n : all[b] \in Button
    BY <1>1, <1>2
  <2> QED
    BY <2>1, <1>1
<1>7. \A b \in 1 .. n : b \in changed <=> b \in bs /\ u.button[b].show # show
  OBVIOUS
<1> HIDE DEF all, changed
<1>8. /\ v \in Ui /\ v.button = all /\ v.depressed = u.depressed /\ v.invalid = inv
      /\ v.screen = u.screen /\ v.abort = u.abort
  BY <1>3, <1>5, <1>6 DEF Ui
<1>9. Kept_active(v, u)
  BY <1>1, <1>2, <1>6, <1>8 DEF Kept_active, n
<1>10. ASSUME NEW b \in 1 .. n
       PROVE  v.button[b].show = IF b \in bs THEN show ELSE u.button[b].show
  BY <1>1, <1>2, <1>6, <1>7, <1>8, UiIs DEF n
<1>11. ASSUME NEW b \in 1 .. n
       PROVE  /\ v.button[b].rect = u.button[b].rect /\ v.button[b].cb = u.button[b].cb
              /\ v.button[b].sensitive = u.button[b].sensitive
              /\ v.button[b].face = u.button[b].face
              /\ u.button[b].update => v.button[b].update
              /\ v.button[b].show /\ ~ u.button[b].show => v.button[b].update
              /\ u.button[b].show /\ ~ v.button[b].show => b \in changed /\ ~ show
  BY <1>1, <1>2, <1>6, <1>7, <1>8
<1>12. Changes(v, u)
  BY <1>5, <1>6, <1>8, <1>11 DEF Changes, n
<1>13. Shifted(v, u, bs, show)
  BY <1>8, <1>10, <1>11 DEF Shifted, n
<1> QED
  BY <1>9, <1>12, <1>13 DEF v

\* A sample reaches a button, or leaves it.
LEMMA TouchedIs ==
  ASSUME NEW u \in Ui, NEW b \in 1 .. Len(u.button), NEW dn \in BOOLEAN
  PROVE  LET v == Touched(u, b, dn)
         IN  /\ Changes(v, u) /\ Alike(v, u) /\ v.depressed = u.depressed /\ v.abort = u.abort
             /\ \A k \in 1 .. Len(u.button) : v.button[k].active = IF k = b THEN dn ELSE u.button[k].active
             /\ \A k \in 1 .. Len(u.button) : k # b => v.button[k] = u.button[k]
             /\ v.invalid = u.invalid /\ v.button[b].face = u.button[b].face
<1> DEFINE old  == u.button[b]
           marked == old.update \/ old.active # dn
           new  == [[old EXCEPT !.active = dn] EXCEPT !.update = marked]
           bs   == [u.button EXCEPT ![b] = new]
           v    == Touched(u, b, dn)
<1>1. old \in Button /\ u.button \in Seq(Button) /\ u.button = [k \in 1 .. Len(u.button) |-> u.button[k]]
  BY UiIs
<1>m. marked \in BOOLEAN /\ (old.update => marked)
  BY <1>1 DEF Button
<1>3. v = [u EXCEPT !.button = bs]
  <2>1. /\ u.button[b] \in Button
        /\ [u.button EXCEPT ![b].active = dn] = [u.button EXCEPT ![b] = [old EXCEPT !.active = dn]]
    BY <1>1
  <2>2. [u EXCEPT !.button[b].active = dn].button = [u.button EXCEPT ![b].active = dn]
    BY DEF Ui
  <2> HIDE DEF marked
  <2>3. v = [u EXCEPT !.button[b].active = dn, !.button[b].update = marked]
    BY <1>1 DEF Touched, Ui, Button, marked
  <2> QED
    BY <2>3, UiIs DEF Ui, Button
<1> HIDE DEF marked
<1>2. /\ new \in Button /\ new.face = old.face /\ new.update = marked
      /\ new.rect = old.rect /\ new.show = old.show
      /\ new.sensitive = old.sensitive /\ new.active = dn /\ new.cb = old.cb
  <2> HIDE DEF old
  <2> QED
    BY <1>1, <1>m DEF Button
<1> HIDE DEF new, old, v
<1>4. bs \in Seq(Button) /\ Len(bs) = Len(u.button) /\ bs[b] = new
      /\ \A k \in 1 .. Len(u.button) : k # b => bs[k] = u.button[k]
  BY <1>1, <1>2
<1> HIDE DEF bs
<1>5. /\ v \in Ui /\ v.button = bs /\ v.depressed = u.depressed /\ v.invalid = u.invalid
      /\ v.screen = u.screen /\ v.abort = u.abort
  BY <1>3, <1>4 DEF Ui
<1>6. Alike(v, u) /\ \A k \in 1 .. Len(u.button) : v.button[k].active = IF k = b THEN dn ELSE u.button[k].active
  BY <1>2, <1>4, <1>5 DEF Alike, old
<1>7. Changes(v, u)
  BY <1>m, <1>2, <1>4, <1>5 DEF Changes, old
<1> QED
  BY <1>2, <1>4, <1>5, <1>6, <1>7 DEF v, old

\* No change at all.
LEMMA ChangesRefl == ASSUME NEW u \in Ui PROVE Changes(u, u) /\ Alike(u, u)
BY DEF Changes, Alike

\* What leaving a button does, if it was active.
LEMMA LeftIs ==
  ASSUME NEW u \in Ui, NEW b \in 1 .. Len(u.button)
  PROVE  LET v == Left(u, b)
         IN  /\ Changes(v, u) /\ Alike(v, u) /\ v.depressed = u.depressed /\ v.abort = u.abort
             /\ \A k \in 1 .. Len(u.button) :
                  v.button[k].active = (u.button[k].active /\ ~ (k = b /\ Listens(u, b)))
             /\ \A k \in 1 .. Len(u.button) : k # b => v.button[k] = u.button[k]
             /\ v.invalid = u.invalid
             /\ v.button[b].face = u.button[b].face
<1>1. \A k \in 1 .. Len(u.button) : u.button[k].active \in BOOLEAN
  BY UiIs
<1>2. CASE Listens(u, b)
  <2>1. Left(u, b) = Touched(u, b, FALSE)
    BY <1>2 DEF Left
  <2> DEFINE no == FALSE
             v == Touched(u, b, no)
  <2>2. no \in BOOLEAN
    OBVIOUS
  <2> HIDE DEF no
  <2>3. /\ Changes(v, u) /\ Alike(v, u) /\ v.depressed = u.depressed /\ v.abort = u.abort
        /\ \A k \in 1 .. Len(u.button) : v.button[k].active = IF k = b THEN no ELSE u.button[k].active
        /\ \A k \in 1 .. Len(u.button) : k # b => v.button[k] = u.button[k]
        /\ v.invalid = u.invalid /\ v.button[b].face = u.button[b].face
    BY <2>2, TouchedIs
  <2>4. v = Left(u, b)
    BY <2>1 DEF no
  <2> HIDE DEF v
  <2> QED
    BY <2>3, <2>4, <1>1, <1>2 DEF no
<1>3. CASE ~ Listens(u, b)
  <2>1. Left(u, b) = u
    BY <1>3 DEF Left
  <2> QED
    BY <2>1, <1>1, <1>3, ChangesRefl
<1> QED
  BY <1>2, <1>3

\* What leaving several buttons does.
LEMMA LeftAllIs ==
  ASSUME NEW u \in Ui, NEW bs, bs \subseteq 1 .. Len(u.button)
  PROVE  LET v == LeftAll(u, bs)
         IN  /\ Changes(v, u) /\ Alike(v, u) /\ v.depressed = u.depressed /\ v.abort = u.abort
             /\ \A k \in 1 .. Len(u.button) :
                  v.button[k].active = (u.button[k].active /\ ~ (k \in bs /\ Listens(u, k)))
<1> DEFINE n == Len(u.button)
           all == [b \in 1 .. n |-> IF b \in bs THEN Left(u, b).button[b] ELSE u.button[b]]
           v == LeftAll(u, bs)
<1>1. /\ n \in Nat /\ DOMAIN u.button = 1 .. n /\ u.button \in Seq(Button)
      /\ \A i \in 1 .. n : u.button[i] \in Button
  BY UiIs
<1>2. v = [u EXCEPT !.button = all]
  BY <1>1 DEF LeftAll, Ui
<1>3. ASSUME NEW b \in 1 .. n
      PROVE  LET old == u.button[b]  new == Left(u, b).button[b] IN
             /\ new \in Button /\ new.rect = old.rect /\ new.show = old.show /\ new.face = old.face
             /\ new.sensitive = old.sensitive /\ new.cb = old.cb
             /\ new.active = (old.active /\ ~ Listens(u, b)) /\ (old.update => new.update)
  <2>1. Changes(Left(u, b), u) /\ Alike(Left(u, b), u) /\ Left(u, b).button[b].face = u.button[b].face
        /\ Left(u, b).button[b].active = (u.button[b].active /\ ~ Listens(u, b))
    BY LeftIs DEF n
  <2>2. Left(u, b) \in Ui /\ b \in 1 .. Len(Left(u, b).button)
    BY <2>1 DEF Changes, n
  <2>3. Left(u, b).button[b] \in Button
    BY <2>2, UiIs
  <2> QED
    BY <2>1, <2>3 DEF Changes, Alike, n
<1> HIDE DEF v
<1>4. /\ all \in Seq(Button) /\ Len(all) = n
      /\ \A b \in 1 .. n : all[b] = IF b \in bs THEN Left(u, b).button[b] ELSE u.button[b]
  <2>1. \A b \in 1 .. n : all[b] \in Button
    BY <1>1, <1>3
  <2> HIDE DEF n
  <2> QED
    BY <2>1, <1>1
<1> HIDE DEF all, n
<1>5. /\ v \in Ui /\ v.button = all /\ v.depressed = u.depressed /\ v.invalid = u.invalid
      /\ v.screen = u.screen /\ v.abort = u.abort
  BY <1>2, <1>4 DEF Ui
<1>6. \A k \in 1 .. n : /\ v.button[k].rect = u.button[k].rect /\ v.button[k].show = u.button[k].show
                        /\ v.button[k].face = u.button[k].face /\ v.button[k].cb = u.button[k].cb
                        /\ v.button[k].sensitive = u.button[k].sensitive
                        /\ u.button[k].update => v.button[k].update
                        /\ v.button[k].active = (u.button[k].active /\ ~ (k \in bs /\ Listens(u, k)))
  <2>1. \A k \in 1 .. n : u.button[k].active \in BOOLEAN
    BY UiIs DEF n
  <2> QED
    BY <2>1, <1>3, <1>4, <1>5
<1>7. Changes(v, u) /\ Alike(v, u)
  BY <1>4, <1>5, <1>6 DEF Changes, Alike, n
<1> QED
  BY <1>5, <1>6, <1>7 DEF v, n

\* The topmost of some buttons, 0 if there is none.
LEMMA TopOf ==
  ASSUME NEW u \in Ui, NEW s, s \subseteq 1 .. Len(u.button)
  PROVE  /\ Max({0} \cup s) \in 0 .. Len(u.button)
         /\ Max({0} \cup s) = 0 \/ Max({0} \cup s) \in s
         /\ \A b \in s : b <= Max({0} \cup s)
<1> DEFINE n == Len(u.button)
           t == {0} \cup s
<1>1. n \in Nat /\ s \subseteq 1 .. n
  BY UiIs
<1> HIDE DEF n
<1>2. t \subseteq 0 .. n /\ t # {}
  BY <1>1
<1>3. Max(t) \in t /\ \A x \in t : x <= Max(t)
  BY <1>1, <1>2, MaxIs
<1> QED
  BY <1>2, <1>3 DEF n

\* The topmost button at a point is shown and covers it, and no later one does.
LEMMA TopmostIs ==
  ASSUME NEW u \in Ui, NEW p \in Points
  PROVE  LET t == Topmost(u, p)
             Over(b) == u.button[b].show /\ Covers(u.button[b].rect, p)
         IN  /\ t \in 0 .. Len(u.button) /\ (t # 0 => t \in 1 .. Len(u.button) /\ Over(t))
             /\ \A b \in 1 .. Len(u.button) : Over(b) => b <= t
<1> DEFINE s == {b \in DOMAIN u.button : u.button[b].show /\ Covers(u.button[b].rect, p)}
<1>1. DOMAIN u.button = 1 .. Len(u.button) /\ Len(u.button) \in Nat
  BY UiIs
<1>2. s \subseteq 1 .. Len(u.button) /\ \A b \in 1 .. Len(u.button) :
        b \in s <=> u.button[b].show /\ Covers(u.button[b].rect, p)
  BY <1>1
<1>3. Topmost(u, p) = Max({0} \cup s)
  BY DEF Topmost
<1> HIDE DEF s
<1>4. /\ Max({0} \cup s) \in 0 .. Len(u.button)
      /\ Max({0} \cup s) = 0 \/ Max({0} \cup s) \in s
      /\ \A b \in s : b <= Max({0} \cup s)
  BY <1>2, TopOf
<1> QED
  BY <1>2, <1>3, <1>4

\* Who handles a sample, in oltk_feed and in the loop of the popup.
LEMMA HandlerIs ==
  ASSUME NEW u \in Ui, NEW p \in Points
  PROVE  LET t == Handler(u, p)
             Over(b) == Listens(u, b) /\ Covers(u.button[b].rect, p)
         IN  /\ t \in 0 .. Len(u.button) /\ (t # 0 => t \in 1 .. Len(u.button) /\ Over(t))
             /\ \A b \in 1 .. Len(u.button) : Over(b) => b <= t
<1> DEFINE s == {b \in DOMAIN u.button : Listens(u, b) /\ Covers(u.button[b].rect, p)}
<1>1. DOMAIN u.button = 1 .. Len(u.button) /\ Len(u.button) \in Nat
  BY UiIs
<1>2. s \subseteq 1 .. Len(u.button) /\ \A b \in 1 .. Len(u.button) :
        b \in s <=> Listens(u, b) /\ Covers(u.button[b].rect, p)
  BY <1>1
<1>3. Handler(u, p) = Max({0} \cup s)
  BY DEF Handler
<1> HIDE DEF s
<1>4. /\ Max({0} \cup s) \in 0 .. Len(u.button)
      /\ Max({0} \cup s) = 0 \/ Max({0} \cup s) \in s
      /\ \A b \in s : b <= Max({0} \cup s)
  BY <1>2, TopOf
<1> QED
  BY <1>2, <1>3, <1>4

\* The item at a point listens and covers it, and no later one does.
LEMMA ItemAtIs ==
  ASSUME NEW u \in Ui, NEW items, items \subseteq 1 .. Len(u.button), NEW p \in Points
  PROVE  LET t == ItemAt(u, items, p)
             Over(b) == Listens(u, b) /\ Covers(u.button[b].rect, p)
         IN  /\ t \in 0 .. Len(u.button) /\ (t # 0 => t \in items /\ Over(t))
             /\ \A b \in items : Over(b) => b <= t
<1> DEFINE s == {b \in items : Listens(u, b) /\ Covers(u.button[b].rect, p)}
<1>2. s \subseteq 1 .. Len(u.button) /\ \A b \in items :
        b \in s <=> Listens(u, b) /\ Covers(u.button[b].rect, p)
  OBVIOUS
<1>3. ItemAt(u, items, p) = Max({0} \cup s) /\ s \subseteq items
  BY DEF ItemAt
<1> HIDE DEF s
<1>4. /\ Max({0} \cup s) \in 0 .. Len(u.button)
      /\ Max({0} \cup s) = 0 \/ Max({0} \cup s) \in s
      /\ \A b \in s : b <= Max({0} \cup s)
  BY <1>2, TopOf
<1> QED
  BY <1>2, <1>3, <1>4

\* What oltk_feed leaves before the callback and after it.
LEMMA FedIs ==
  ASSUME NEW u \in Ui, NEW b \in 0 .. Len(u.button), NEW dn \in BOOLEAN
  PROVE  LET v == Fed(u, b, dn)
         IN  /\ Changes(v, u) /\ Alike(v, u) /\ v.abort = u.abort
             /\ v.depressed = IF b = 0 THEN 0 ELSE u.depressed
             /\ \A k \in 1 .. Len(u.button) :
                  v.button[k].active = IF k = b THEN dn
                                       ELSE (u.button[k].active /\ ~ (k > b /\ Listens(u, k)))
<1> DEFINE bs == {i \in DOMAIN u.button : i > b}
           w  == LeftAll(u, bs)
           v  == Fed(u, b, dn)
<1>1. DOMAIN u.button = 1 .. Len(u.button) /\ Len(u.button) \in Nat
  BY UiIs
<1>2. bs \subseteq 1 .. Len(u.button) /\ \A k \in 1 .. Len(u.button) : k \in bs <=> k > b
  BY <1>1
<1>3. v = IF b = 0 THEN [w EXCEPT !.depressed = 0] ELSE Touched(w, b, dn)
  BY DEF Fed
<1> HIDE DEF bs
<1>4. /\ Changes(w, u) /\ Alike(w, u) /\ w.depressed = u.depressed /\ w.abort = u.abort
      /\ \A k \in 1 .. Len(u.button) : w.button[k].active = (u.button[k].active /\ ~ (k > b /\ Listens(u, k)))
  BY <1>2, LeftAllIs
<1>5. w \in Ui /\ Len(w.button) = Len(u.button)
  BY <1>4 DEF Changes
<1> HIDE DEF w, v
<1>6. CASE b = 0
  <2>1. v = [w EXCEPT !.depressed = 0]
    BY <1>3, <1>6
  <2>2. v \in Ui /\ v.button = w.button /\ v.invalid = w.invalid /\ v.screen = w.screen
        /\ v.abort = w.abort /\ v.depressed = 0
    BY <2>1, <1>5 DEF Ui
  <2>3. Changes(v, w) /\ Alike(v, w)
    BY <2>2, <1>1, <1>5 DEF Changes, Alike
  <2>4. Changes(v, u) /\ Alike(v, u)
    BY <2>3, <1>4, <1>5, ChangesTrans DEF Alike
  <2>5. \A k \in 1 .. Len(u.button) : k # b
    BY <1>6, <1>1
  <2> QED
    BY <2>2, <2>4, <2>5, <1>4, <1>6 DEF v
<1>7. CASE b # 0
  <2>1. v = Touched(w, b, dn) /\ b \in 1 .. Len(w.button)
    BY <1>3, <1>5, <1>7, <1>1
  <2>2. /\ Changes(v, w) /\ Alike(v, w) /\ v.depressed = w.depressed /\ v.abort = w.abort
        /\ \A k \in 1 .. Len(w.button) : v.button[k].active = IF k = b THEN dn ELSE w.button[k].active
    BY <2>1, <1>5, TouchedIs
  <2>3. Changes(v, u) /\ Alike(v, u)
    BY <2>2, <1>4, <1>5, ChangesTrans DEF Alike
  <2> QED
    BY <2>2, <2>3, <1>4, <1>5, <1>7 DEF v
<1> QED
  BY <1>6, <1>7

\* What oltk_feed does after a callback: the button before is left.
LEMMA DepressedIs ==
  ASSUME NEW u \in Ui, NEW b \in 0 .. Len(u.button), u.depressed <= Len(u.button)
  PROVE  LET v == Depressed(u, b)
         IN  /\ Changes(v, u) /\ Alike(v, u) /\ v.abort = u.abort
             /\ v.depressed = IF b = 0 THEN u.depressed ELSE IF u.button[b].active THEN b ELSE 0
             /\ \A k \in 1 .. Len(u.button) :
                  v.button[k].active =
                    (u.button[k].active /\ ~ (k = u.depressed /\ k # b /\ Listens(u, k)))
<1> DEFINE old == u.depressed
           w == IF old # 0 /\ old # b THEN Left(u, old) ELSE u
           to == IF w.button[b].active THEN b ELSE 0
           v == Depressed(u, b)
<1>1. Len(u.button) \in Nat /\ u.depressed \in Nat
      /\ \A k \in 1 .. Len(u.button) : u.button[k].active \in BOOLEAN
  BY UiIs
<1>2. v = IF b = 0 THEN w ELSE [w EXCEPT !.depressed = to]
  BY DEF Depressed
<1>3. /\ Changes(w, u) /\ Alike(w, u) /\ w.depressed = u.depressed /\ w.abort = u.abort
      /\ \A k \in 1 .. Len(u.button) : w.button[k].active =
           (u.button[k].active /\ ~ (k = u.depressed /\ k # b /\ Listens(u, k)))
      /\ b # 0 => w.button[b].active = u.button[b].active
  <2>1. CASE old # 0 /\ old # b
    <3>1. w = Left(u, old) /\ old \in 1 .. Len(u.button)
      BY <2>1, <1>1
    <3> HIDE DEF w
    <3>2. /\ Changes(w, u) /\ Alike(w, u) /\ w.depressed = u.depressed /\ w.abort = u.abort
          /\ \A k \in 1 .. Len(u.button) :
               w.button[k].active = (u.button[k].active /\ ~ (k = old /\ Listens(u, old)))
          /\ \A k \in 1 .. Len(u.button) : k # old => w.button[k] = u.button[k]
      BY <3>1, LeftIs
    <3> QED
      BY <3>2, <2>1, <1>1
  <2>2. CASE ~ (old # 0 /\ old # b)
    <3>1. w = u
      BY <2>2
    <3> HIDE DEF w
    <3> QED
      BY <3>1, <2>2, <1>1, ChangesRefl
  <2> QED
    BY <2>1, <2>2
<1>4. w \in Ui /\ Len(w.button) = Len(u.button)
  BY <1>3 DEF Changes
<1>5. to \in Nat /\ to <= Len(u.button) /\ (b # 0 => to = IF u.button[b].active THEN b ELSE 0)
  BY <1>1, <1>3
<1> HIDE DEF w, v, to
<1>6. CASE b = 0
  BY <1>2, <1>3, <1>6 DEF v
<1>7. CASE b # 0
  <2>1. v = [w EXCEPT !.depressed = to]
    BY <1>2, <1>7
  <2>2. v \in Ui /\ v.button = w.button /\ v.invalid = w.invalid /\ v.screen = w.screen
        /\ v.abort = w.abort /\ v.depressed = to
    BY <2>1, <1>4, <1>5 DEF Ui
  <2>3. Changes(v, w) /\ Alike(v, w)
    BY <2>2, <1>1, <1>4, <1>5 DEF Changes, Alike
  <2>4. Changes(v, u) /\ Alike(v, u)
    BY <2>3, <1>3, <1>4, ChangesTrans DEF Alike
  <2> QED
    BY <2>2, <2>4, <1>3, <1>5, <1>7 DEF v
<1> QED
  BY <1>6, <1>7

\* What a sample does to the items of the popup.
LEMMA FedItemsIs ==
  ASSUME NEW u \in Ui, NEW items, items \subseteq 1 .. Len(u.button), NEW p \in Points,
         NEW dn \in BOOLEAN
  PROVE  LET v == FedItems(u, items, p, dn)
             b == ItemAt(u, items, p)
         IN  /\ Changes(v, u) /\ Alike(v, u) /\ v.abort = u.abort /\ v.depressed = u.depressed
             /\ \A k \in 1 .. Len(u.button) :
                  v.button[k].active = IF k = b THEN dn
                                       ELSE (u.button[k].active /\ ~ (k \in items /\ Listens(u, k)))
<1> DEFINE b  == ItemAt(u, items, p)
           bs == items \ {b}
           w  == LeftAll(u, bs)
           v  == FedItems(u, items, p, dn)
<1>1. Len(u.button) \in Nat /\ b \in 0 .. Len(u.button)
  BY UiIs, ItemAtIs
<1>2. bs \subseteq 1 .. Len(u.button) /\ \A k \in 1 .. Len(u.button) : k \in bs <=> k \in items /\ k # b
  BY <1>1
<1>3. v = IF b = 0 THEN w ELSE Touched(w, b, dn)
  BY DEF FedItems
<1>b. b = ItemAt(u, items, p)
  OBVIOUS
<1> HIDE DEF bs, b
<1>4. /\ Changes(w, u) /\ Alike(w, u) /\ w.depressed = u.depressed /\ w.abort = u.abort
      /\ \A k \in 1 .. Len(u.button) :
           w.button[k].active = (u.button[k].active /\ ~ (k \in bs /\ Listens(u, k)))
  BY <1>2, LeftAllIs
<1>5. w \in Ui /\ Len(w.button) = Len(u.button)
  BY <1>4 DEF Changes
<1> HIDE DEF w, v
<1>6. CASE b = 0
  <2>5. \A k \in 1 .. Len(u.button) : k # b
    BY <1>6, <1>1
  <2>6. v = w
    BY <1>3, <1>6
  <2> QED
    BY <2>5, <2>6, <1>2, <1>4, <1>b DEF v
<1>7. CASE b # 0
  <2>1. v = Touched(w, b, dn) /\ b \in 1 .. Len(w.button)
    BY <1>3, <1>5, <1>7, <1>1
  <2>2. /\ Changes(v, w) /\ Alike(v, w) /\ v.depressed = w.depressed /\ v.abort = w.abort
        /\ \A k \in 1 .. Len(w.button) : v.button[k].active = IF k = b THEN dn ELSE w.button[k].active
    BY <2>1, <1>5, TouchedIs
  <2>3. Changes(v, u) /\ Alike(v, u)
    BY <2>2, <1>4, <1>5, ChangesTrans DEF Alike
  <2> QED
    BY <2>2, <2>3, <1>2, <1>4, <1>5, <1>7, <1>b DEF v
<1> QED
  BY <1>6, <1>7

\* Two rectangles that cover one point intersect.
LEMMA Intersects ==
  ASSUME NEW a \in Rects, NEW r \in Rects, NEW p \in Points, Covers(a, p), Covers(r, p)
  PROVE  rect_intersect(a, r)
<1>1. /\ a.x \in Int /\ a.y \in Int /\ a.width \in Nat /\ a.height \in Nat
      /\ r.x \in Int /\ r.y \in Int /\ r.width \in Nat /\ r.height \in Nat
  BY DEF Rects
<1>2. p[1] \in Int /\ p[2] \in Int
  BY OltkAssumption DEF Points
<1> QED
  BY <1>1, <1>2 DEF Covers, rect_intersect, Least, Most

\* A shown button is drawn when it has changed, or stands where something was
\* invalid, or where a button below it is drawn.
LEMMA DrawnIs ==
  ASSUME NEW u \in Ui
  PROVE  /\ \A b \in DrawnButtons(u) : b \in 1 .. Len(u.button) /\ u.button[b].show
         /\ \A b \in 1 .. Len(u.button), p \in Points :
              /\ u.button[b].show /\ Covers(u.button[b].rect, p)
              /\ \/ u.button[b].update
                 \/ Covers(u.invalid, p)
                 \/ \E k \in DrawnButtons(u) : k < b /\ Covers(u.button[k].rect, p)
              => b \in DrawnButtons(u)
<1> DEFINE n == Len(u.button)
           start == [invalid |-> u.invalid, drawn |-> {}]
           Upon(i, w) == IF Draws(u, i, w.invalid)
                         THEN [invalid |-> oltk_invalidate(w.invalid, u.button[i].rect),
                               drawn   |-> w.drawn \cup {i}]
                         ELSE w
           step == [i \in DOMAIN u.button |-> [w \in Drawing |-> Upon(i, w)]]
           f == Iterates(step, start)
<1>1. /\ n \in Nat /\ DOMAIN u.button = 1 .. n /\ u.invalid \in Rects
      /\ \A i \in 1 .. n : u.button[i].rect \in Rects
  BY UiIs
<1>2. start \in Drawing /\ start.invalid = u.invalid /\ start.drawn = {}
  BY <1>1 DEF Drawing
<1>3. DrawnButtons(u) = f[n].drawn
  BY DEF DrawnButtons
<1>4. ASSUME NEW i \in 1 .. n, NEW w \in Drawing
      PROVE  /\ Upon(i, w) \in Drawing
             /\ Upon(i, w).drawn = IF Draws(u, i, w.invalid) THEN w.drawn \cup {i} ELSE w.drawn
             /\ \A p \in Points : /\ Covers(w.invalid, p) => Covers(Upon(i, w).invalid, p)
                                  /\ Draws(u, i, w.invalid) /\ Covers(u.button[i].rect, p)
                                       => Covers(Upon(i, w).invalid, p)
  <2>1. w.invalid \in Rects /\ w.drawn \subseteq Nat /\ u.button[i].rect \in Rects
    BY <1>1 DEF Drawing
  <2> DEFINE inv == oltk_invalidate(w.invalid, u.button[i].rect)
  <2>2. /\ inv \in Rects
        /\ \A p \in Points : Covers(w.invalid, p) \/ Covers(u.button[i].rect, p) => Covers(inv, p)
    BY <2>1, InvalidateCovers
  <2> HIDE DEF inv
  <2>3. CASE Draws(u, i, w.invalid)
    <3>1. Upon(i, w) = [invalid |-> inv, drawn |-> w.drawn \cup {i}]
      BY <2>3 DEF inv
    <3> HIDE DEF Upon
    <3> QED
      BY <3>1, <2>1, <2>2, <2>3, <1>1 DEF Drawing
  <2>4. CASE ~ Draws(u, i, w.invalid)
    BY <2>4
  <2> QED
    BY <2>3, <2>4
<1>5. DOMAIN step = 1 .. n /\ step = [i \in 1 .. n |-> step[i]]
      /\ \A i \in 1 .. n : step[i] = [w \in Drawing |-> Upon(i, w)]
  <2> HIDE DEF Upon
  <2> QED
    BY <1>1
<1> HIDE DEF step, n, Upon, start
<1>6. ASSUME NEW i \in 1 .. n
      PROVE  step[i] \in [Drawing -> Drawing] /\ \A w \in Drawing : step[i][w] = Upon(i, w)
  <2>1. step[i] = [w \in Drawing |-> Upon(i, w)]
    BY <1>5
  <2>2. \A w \in Drawing : Upon(i, w) \in Drawing
    BY <1>4
  <2> QED
    BY <2>1, <2>2
<1>7. step \in Seq([Drawing -> Drawing]) /\ Len(step) = n
  BY <1>1, <1>5, <1>6
<1>8. f \in [0 .. n -> Drawing] /\ Ran(f, step, start)
  BY <1>2, <1>7, IteratesStep
<1> HIDE DEF f
<1>9. f[0] = start /\ \A i \in 1 .. n : f[i] = step[i][f[i - 1]]
  BY <1>7, <1>8 DEF Ran
<1>10. ASSUME NEW i \in 1 .. n
       PROVE  /\ f[i].drawn = IF Draws(u, i, f[i - 1].invalid) THEN f[i - 1].drawn \cup {i} ELSE f[i - 1].drawn
              /\ \A p \in Points : /\ Covers(f[i - 1].invalid, p) => Covers(f[i].invalid, p)
                                   /\ Draws(u, i, f[i - 1].invalid) /\ Covers(u.button[i].rect, p)
                                        => Covers(f[i].invalid, p)
  <2>1. i - 1 \in 0 .. n
    BY <1>1
  <2>2. f[i - 1] \in Drawing /\ f[i] = Upon(i, f[i - 1])
    BY <2>1, <1>6, <1>8, <1>9
  <2> QED
    BY <2>2, <1>4
<1> DEFINE J(i) == /\ \A k \in f[i].drawn : k \in 1 .. i /\ u.button[k].show
                   /\ \A p \in Points : Covers(u.invalid, p) => Covers(f[i].invalid, p)
                   /\ \A k \in f[i].drawn, p \in Points :
                        Covers(u.button[k].rect, p) => Covers(f[i].invalid, p)
<1>11. ASSUME NEW i \in 0 .. n PROVE J(i)
  <2> DEFINE Bad == {k \in Nat : k <= n /\ ~ J(k)}
  <2>0. J(0)
    BY <1>2, <1>9
  <2>1. ASSUME Bad # {} PROVE FALSE
    <3>1. PICK k \in Bad : \A j \in Bad : k <= j
      BY <2>1, LeastNat
    <3> HIDE DEF J
    <3>2. k # 0 /\ k \in 1 .. n /\ k - 1 \in Nat /\ k - 1 <= n
      BY <3>1, <2>0, <1>1
    <3>3. J(k - 1)
      BY <3>1, <3>2
    <3>4. J(k)
      <4>1. \A j \in f[k - 1].drawn : j \in 1 .. k /\ u.button[j].show
        BY <3>2, <3>3 DEF J
      <4>2. Draws(u, k, f[k - 1].invalid) => u.button[k].show
        BY DEF Draws
      <4>3. f[k].drawn = IF Draws(u, k, f[k - 1].invalid) THEN f[k - 1].drawn \cup {k} ELSE f[k - 1].drawn
        BY <3>2, <1>10
      <4>4. \A p \in Points : Covers(f[k - 1].invalid, p) => Covers(f[k].invalid, p)
        BY <3>2, <1>10
      <4>5. \A j \in f[k].drawn : j \in 1 .. k /\ u.button[j].show
        BY <4>1, <4>2, <4>3, <3>2
      <4>6. \A p \in Points : Covers(u.invalid, p) => Covers(f[k].invalid, p)
        BY <3>3, <4>4 DEF J
      <4>7. ASSUME NEW j \in f[k].drawn, NEW p \in Points, Covers(u.button[j].rect, p)
            PROVE  Covers(f[k].invalid, p)
        <5>1. CASE j \in f[k - 1].drawn
          BY <5>1, <4>4, <4>7, <3>3 DEF J
        <5>2. CASE j \notin f[k - 1].drawn
          <6>1. Draws(u, k, f[k - 1].invalid) /\ j = k
            BY <5>2, <4>3
          <6> QED
            BY <6>1, <3>2, <4>7, <1>10
        <5> QED
          BY <5>1, <5>2
      <4> QED
        BY <4>5, <4>6, <4>7 DEF J
    <3> QED
      BY <3>1, <3>4
  <2> QED
    BY <2>1, <1>1
<1> HIDE DEF J
<1>12. ASSUME NEW k \in 1 .. n, NEW i \in k .. n PROVE k \in f[i].drawn <=> k \in f[k].drawn
  <2> DEFINE Bad == {j \in Nat : k <= j /\ j <= n /\ ~ (k \in f[j].drawn <=> k \in f[k].drawn)}
  <2>1. ASSUME Bad # {} PROVE FALSE
    <3>1. PICK j \in Bad : \A m \in Bad : j <= m
      BY <2>1, LeastNat
    <3>2. j # k /\ j \in 1 .. n /\ j - 1 \in Nat /\ k <= j - 1 /\ j - 1 <= n
      BY <3>1, <1>1
    <3>3. k \in f[j - 1].drawn <=> k \in f[k].drawn
      BY <3>1, <3>2
    <3>4. k \in f[j].drawn <=> k \in f[k].drawn
      BY <3>2, <3>3, <1>10
    <3> QED
      BY <3>1, <3>4
  <2> QED
    BY <2>1, <1>1
<1>13. ASSUME NEW b \in f[n].drawn PROVE b \in 1 .. n /\ u.button[b].show
  <2>1. J(n)
    BY <1>1, <1>11
  <2> QED
    BY <2>1, <1>1 DEF J
<1>14. ASSUME NEW b \in 1 .. n, NEW p \in Points, u.button[b].show, Covers(u.button[b].rect, p),
              \/ u.button[b].update
              \/ Covers(u.invalid, p)
              \/ \E k \in f[n].drawn : k < b /\ Covers(u.button[k].rect, p)
       PROVE  b \in f[n].drawn
  <2>1. b - 1 \in 0 .. n /\ b \in b .. n /\ n \in b .. n
    BY <1>1
  <2>2. J(b - 1) /\ f[b - 1] \in Drawing
    BY <2>1, <1>8, <1>11
  <2>3. f[b - 1].invalid \in Rects /\ u.button[b].rect \in Rects
    BY <2>2, <1>1 DEF Drawing
  <2>4. CASE u.button[b].update
    <3>1. Draws(u, b, f[b - 1].invalid)
      BY <2>4, <1>14 DEF Draws
    <3>2. b \in f[b].drawn
      BY <3>1, <1>10
    <3> QED
      BY <3>2, <2>1, <1>12
  <2>5. CASE Covers(f[b - 1].invalid, p)
    <3>1. Draws(u, b, f[b - 1].invalid)
      BY <2>3, <2>5, <1>14, Intersects DEF Draws
    <3>2. b \in f[b].drawn
      BY <3>1, <1>10
    <3> QED
      BY <3>2, <2>1, <1>12
  <2>6. CASE Covers(u.invalid, p)
    BY <2>2, <2>5, <2>6 DEF J
  <2>7. ASSUME NEW k \in f[n].drawn, k < b, Covers(u.button[k].rect, p) PROVE b \in f[n].drawn
    <3>1. k \in 1 .. n /\ n \in k .. n /\ b - 1 \in k .. n
      BY <1>13, <2>7, <1>1
    <3>2. k \in f[b - 1].drawn
      BY <3>1, <2>7, <1>12
    <3>3. Covers(f[b - 1].invalid, p)
      BY <3>2, <2>2, <2>7 DEF J
    <3> QED
      BY <3>3, <2>5
  <2> QED
    BY <1>14, <2>4, <2>6, <2>7
<1> QED
  BY <1>3, <1>13, <1>14 DEF n

\* The topmost button depends on where the buttons are and which are shown.
LEMMA SameTop ==
  ASSUME NEW u \in Ui, NEW v \in Ui, Len(v.button) = Len(u.button), NEW p \in Points,
         \A b \in 1 .. Len(u.button) :
           v.button[b].rect = u.button[b].rect /\ v.button[b].show = u.button[b].show
  PROVE  Topmost(v, p) = Topmost(u, p)
<1>1. DOMAIN u.button = 1 .. Len(u.button) /\ DOMAIN v.button = 1 .. Len(u.button)
  BY UiIs
<1>2. {b \in DOMAIN v.button : v.button[b].show /\ Covers(v.button[b].rect, p)}
      = {b \in DOMAIN u.button : u.button[b].show /\ Covers(u.button[b].rect, p)}
  BY <1>1
<1> QED
  BY <1>2 DEF Topmost

\* A redraw puts the picture on the screen, or leaves a point alone where
\* something else than the picture was already.
LEMMA RedrawIs ==
  ASSUME NEW u \in Ui
  PROVE  LET v == oltk_redraw(u)
         IN  /\ v \in Ui /\ Len(v.button) = Len(u.button) /\ v.depressed = u.depressed
             /\ v.abort = u.abort /\ Clean(v) /\ Alike(v, u) /\ Kept_active(v, u)
             /\ \A b \in 1 .. Len(u.button) :
                  /\ v.button[b].rect = u.button[b].rect /\ v.button[b].cb = u.button[b].cb
                  /\ v.button[b].sensitive = u.button[b].sensitive
                  /\ v.button[b].face = u.button[b].face
             /\ \A p \in Points : \/ v.screen[p] = Picture(v)[p]
                                  \/ v.screen[p] = u.screen[p] /\ ~ RightAt(u, p)
<1> DEFINE n == Len(u.button)
           cleared == PointsOf(u.invalid)
           dr == DrawnButtons(u)
           On(p) == {b \in dr : Covers(u.button[b].rect, p)}
           To(old) == [old EXCEPT !.update = FALSE]
           all == [b \in 1 .. n |-> To(u.button[b])]
           scr == [p \in Points |-> IF On(p) # {} THEN Face(u, Max(On(p)))
                                    ELSE IF p \in cleared THEN Background ELSE u.screen[p]]
           v == oltk_redraw(u)
<1>1. /\ n \in Nat /\ DOMAIN u.button = 1 .. n /\ u.invalid \in Rects /\ u.button \in Seq(Button)
      /\ \A i \in 1 .. n : u.button[i] \in Button
  BY UiIs
<1>2. ASSUME NEW old \in Button
      PROVE  LET new == To(old) IN
             /\ new \in Button /\ new.face = old.face /\ ~ new.update /\ new.rect = old.rect
             /\ new.show = old.show /\ new.sensitive = old.sensitive /\ new.active = old.active
             /\ new.cb = old.cb
  BY DEF Button
<1>3. v = [u EXCEPT !.button = all, !.screen = scr, !.invalid = Empty]
  BY <1>1 DEF oltk_redraw, Ui
<1> HIDE DEF To, v
<1>4. /\ all \in Seq(Button) /\ Len(all) = n /\ \A b \in 1 .. n : all[b] = To(u.button[b])
  <2>1. \A b \in 1 .. n : all[b] \in Button
    BY <1>1, <1>2
  <2> HIDE DEF n
  <2> QED
    BY <2>1, <1>1
<1>5. ASSUME NEW b \in dr PROVE b \in 1 .. n /\ u.button[b].show
  BY DrawnIs
<1>6. ASSUME NEW p \in Points, On(p) # {}
      PROVE  Max(On(p)) = Topmost(u, p) /\ Topmost(u, p) \in 1 .. n
  <2> DEFINE m == Max(On(p))
             t == Topmost(u, p)
  <2>1. On(p) \subseteq 0 .. n
    BY <1>1, <1>5
  <2>2. m \in On(p) /\ \A x \in On(p) : x <= m
    BY <2>1, <1>1, <1>6, MaxIs
  <2>3. m \in 1 .. n /\ u.button[m].show /\ Covers(u.button[m].rect, p) /\ m \in dr
    BY <2>2, <1>5
  <2>4. /\ t \in 0 .. n /\ (t # 0 => t \in 1 .. n /\ u.button[t].show /\ Covers(u.button[t].rect, p))
        /\ m <= t
    BY <2>3, TopmostIs
  <2>a. m \in Nat /\ t \in Nat /\ m # 0 /\ t # 0
    BY <2>3, <2>4, <1>1
  <2> HIDE DEF t, m, dr
  <2>5. CASE m < t
    <3>1. t \in dr
      BY <2>3, <2>4, <2>5, <2>a, DrawnIs DEF n, dr
    <3>2. t \in On(p)
      BY <3>1, <2>4, <2>a
    <3>3. t <= m
      BY <3>2, <2>2
    <3> QED
      BY <3>3, <2>5, <2>a
  <2> QED
    BY <2>4, <2>5, <2>a DEF t, m
<1>7. scr \in [Points -> Pixel]
  <2>1. ASSUME NEW p \in Points PROVE scr[p] \in Pixel
    <3>1. CASE On(p) # {}
      <4>1. Topmost(u, p) \in 1 .. n
        BY <3>1, <1>6
      <4>2. Face(u, Topmost(u, p)) \in Pixel
        BY <4>1, <1>1, UiIs DEF Face, Pixel
      <4> QED
        BY <4>2, <3>1, <1>6
    <3>2. Background \in Pixel
      BY DEF Background, Pixel, Labels, Faces
    <3>3. u.screen[p] \in Pixel
      BY DEF Ui
    <3> HIDE DEF On, cleared
    <3> QED
      BY <3>1, <3>2, <3>3
  <2> QED
    BY <2>1
<1>8. \A p \in Points : scr[p] = IF On(p) # {} THEN Face(u, Max(On(p)))
                                 ELSE IF p \in cleared THEN Background ELSE u.screen[p]
  OBVIOUS
<1> HIDE DEF scr, all
<1>9. /\ v \in Ui /\ v.button = all /\ v.depressed = u.depressed /\ v.invalid = Empty
      /\ v.screen = scr /\ v.abort = u.abort
  <2>1. Empty \in Rects
    BY DEF Empty, Rects
  <2> QED
    BY <2>1, <1>3, <1>4, <1>7 DEF Ui
<1>10. ASSUME NEW b \in 1 .. n
       PROVE  /\ v.button[b].rect = u.button[b].rect /\ v.button[b].cb = u.button[b].cb
              /\ v.button[b].sensitive = u.button[b].sensitive
              /\ v.button[b].face = u.button[b].face /\ v.button[b].show = u.button[b].show
              /\ v.button[b].active = u.button[b].active /\ ~ v.button[b].update
  BY <1>1, <1>2, <1>4, <1>9
<1>11. Clean(v) /\ Alike(v, u) /\ Kept_active(v, u) /\ Len(v.button) = Len(u.button)
  BY <1>4, <1>9, <1>10 DEF Clean, Alike, Kept_active, n
<1>12. ASSUME NEW p \in Points
       PROVE  \/ v.screen[p] = Picture(v)[p]
              \/ v.screen[p] = u.screen[p] /\ ~ RightAt(u, p)
  <2> DEFINE t == Topmost(u, p)
  <2>1. /\ t \in 0 .. n /\ (t # 0 => t \in 1 .. n /\ u.button[t].show /\ Covers(u.button[t].rect, p))
    BY TopmostIs
  <2>2. Topmost(v, p) = t
    BY <1>9, <1>10, <1>11, SameTop DEF n
  <2>3. /\ Picture(v)[p] = IF t = 0 THEN Background ELSE Face(u, t)
        /\ Picture(u)[p] = IF t = 0 THEN Background ELSE Face(u, t)
    <3>1. t # 0 => Face(v, t) = Face(u, t)
      BY <2>1, <1>10 DEF Face
    <3> HIDE DEF t
    <3> QED
      BY <2>2, <3>1 DEF Picture, t
  <2> HIDE DEF t
  <2>4. CASE On(p) # {}
    <3>1. v.screen[p] = Face(u, t) /\ t \in 1 .. n
      BY <2>4, <1>6, <1>8, <1>9 DEF t
    <3> QED
      BY <3>1, <2>3, <1>1
  <2>5. CASE On(p) = {}
    <3>1. t # 0 => t \notin dr
      BY <2>1, <2>5
    <3>2. t # 0 => ~ u.button[t].update /\ ~ Covers(u.invalid, p)
      BY <3>1, <2>1, DrawnIs
    <3>3. CASE p \in cleared
      <4>1. Covers(u.invalid, p)
        BY <3>3 DEF PointsOf
      <4>2. v.screen[p] = Background
        BY <3>3, <2>5, <1>8, <1>9
      <4> QED
        BY <4>1, <4>2, <3>2, <2>3
    <3>4. CASE p \notin cleared
      <4>1. ~ Covers(u.invalid, p)
        BY <3>4 DEF PointsOf
      <4>2. v.screen[p] = u.screen[p]
        BY <3>4, <2>5, <1>8, <1>9
      <4>3. RightAt(u, p) => u.screen[p] = Picture(u)[p]
        BY <4>1, <3>2 DEF RightAt, t
      <4> QED
        BY <4>2, <4>3, <2>3
    <3> QED
      BY <3>3, <3>4
  <2> QED
    BY <2>4, <2>5
<1> QED
  BY <1>9, <1>10, <1>11, <1>12 DEF v, n

\* What is right stays right, or is marked.
LEMMA ChangesRight ==
  ASSUME NEW u \in Ui, NEW v, Changes(v, u), NEW p \in Points, RightAt(u, p)
  PROVE  RightAt(v, p)
<1> DEFINE old == Topmost(u, p)
           new == Topmost(v, p)
           n == Len(u.button)
<1>0. v \in Ui /\ Len(v.button) = n /\ n \in Nat /\ v.screen = u.screen
  BY UiIs DEF Changes
<1>1. /\ old \in 0 .. n /\ (old # 0 => old \in 1 .. n /\ u.button[old].show /\ Covers(u.button[old].rect, p))
      /\ \A b \in 1 .. n : u.button[b].show /\ Covers(u.button[b].rect, p) => b <= old
  BY TopmostIs
<1>2. /\ new \in 0 .. n /\ (new # 0 => new \in 1 .. n /\ v.button[new].show /\ Covers(v.button[new].rect, p))
      /\ \A b \in 1 .. n : v.button[b].show /\ Covers(v.button[b].rect, p) => b <= new
  BY <1>0, TopmostIs
<1>3. SUFFICES ASSUME ~ Covers(v.invalid, p), new # 0 => ~ v.button[new].update
               PROVE  v.screen[p] = Picture(v)[p]
  BY DEF RightAt
<1> HIDE DEF old, new, n
<1>4. ~ Covers(u.invalid, p)
  BY <1>3 DEF Changes
<1>5. ASSUME old # 0 PROVE v.button[old].show /\ old <= new
  <2>1. old \in 1 .. n /\ u.button[old].show /\ Covers(u.button[old].rect, p)
    BY <1>1, <1>5
  <2>2. v.button[old].show
    BY <2>1, <1>3 DEF Changes, n
  <2>3. Covers(v.button[old].rect, p)
    BY <2>1 DEF Changes, n
  <2> QED
    BY <2>1, <2>2, <2>3, <1>2
<1>6. ASSUME new # 0
      PROVE  u.button[new].show /\ ~ u.button[new].update /\ v.button[new].face = u.button[new].face
             /\ new <= old
  <2>1. new \in 1 .. n /\ v.button[new].show /\ Covers(v.button[new].rect, p) /\ ~ v.button[new].update
    BY <1>2, <1>3, <1>6
  <2>2. /\ u.button[new].show /\ ~ u.button[new].update /\ v.button[new].face = u.button[new].face
        /\ v.button[new].rect = u.button[new].rect
    BY <2>1, <1>0, UiIs DEF Changes, n
  <2> QED
    BY <2>1, <2>2, <1>1
<1>7. old = new
  BY <1>0, <1>1, <1>2, <1>5, <1>6
<1>8. u.screen[p] = Picture(u)[p]
  <2>1. old # 0 => ~ u.button[old].update
    BY <1>6, <1>7
  <2> QED
    BY <2>1, <1>4 DEF RightAt, old
<1>9. Picture(u)[p] = IF old = 0 THEN Background ELSE Face(u, old)
  BY DEF Picture, old
<1>10. Picture(v)[p] = IF new = 0 THEN Background ELSE Face(v, new)
  BY DEF Picture, new
<1>11. new # 0 => Face(v, new) = Face(u, new)
  BY <1>6 DEF Face
<1> QED
  BY <1>0, <1>7, <1>8, <1>9, <1>10, <1>11

\* Everything is right or was drawn by a child.
Right(u) == \A p \in Points : RightAt(u, p) \/ (drawn /\ Overdrawn(u, p))

\* And a redraw sets the rest right.
LEMMA Repaints ==
  ASSUME NEW u \in Ui, Right(u), NEW w, Changes(w, u)
  PROVE  Right(oltk_redraw(w)) /\ Clean(oltk_redraw(w)) /\ Right(w)
<1> DEFINE v == oltk_redraw(w)
<1>1. w \in Ui /\ w.screen = u.screen
  BY DEF Changes
<1>2. Clean(v) /\ \A p \in Points : \/ v.screen[p] = Picture(v)[p]
                                    \/ v.screen[p] = w.screen[p] /\ ~ RightAt(w, p)
  BY <1>1, RedrawIs
<1> HIDE DEF v
<1>3. ASSUME NEW p \in Points PROVE RightAt(v, p) \/ (drawn /\ Overdrawn(v, p))
  <2>1. CASE v.screen[p] = Picture(v)[p]
    BY <2>1 DEF RightAt
  <2>2. CASE v.screen[p] = w.screen[p] /\ ~ RightAt(w, p)
    <3>1. ~ RightAt(u, p)
      BY <2>2, ChangesRight
    <3> QED
      BY <3>1, <2>2, <1>1 DEF Right, Overdrawn
  <2> QED
    BY <2>1, <2>2, <1>2
<1>4. ASSUME NEW p \in Points PROVE RightAt(w, p) \/ (drawn /\ Overdrawn(w, p))
  BY <1>1, ChangesRight DEF Right, Overdrawn
<1> QED
  BY <1>2, <1>3, <1>4 DEF Right, v

\* The buttons stay those that were set up.
LEMMA BuiltLike ==
  ASSUME board \in Boards, NEW u, Built(u, board), NEW w \in Ui, Len(w.button) = Len(u.button),
         w.depressed <= Len(u.button),
         \A b \in 1 .. Len(u.button) :
           /\ w.button[b].sensitive = u.button[b].sensitive /\ w.button[b].cb = u.button[b].cb
           /\ b \notin {View, Popup} => w.button[b].face = u.button[b].face
  PROVE  Built(w, board)
<1>1. u \in Ui /\ Len(w.button) = Dialog + Len(board) /\ w.depressed <= Len(w.button)
  BY DEF Built
<1>2. ASSUME NEW s \in DOMAIN board, NEW t \in DOMAIN board[s]
      PROVE  w.button[FirstOf(s) + t].face = board[s][t]
  <2> DEFINE b == FirstOf(s) + t
  <2>1. /\ s \in 1 .. Len(board) /\ t \in 1 .. Len(board[s]) /\ FirstOf(s) \in Nat
        /\ Len(board) \in Nat /\ Len(board[s]) \in Nat
    BY BoardIs, FirstIs
  <2>2. b \in TestsOf(s)
    BY <2>1 DEF TestsOf
  <2>3. b \in 5 .. Popup - 1 /\ Popup \in Nat /\ Dialog = Popup + 1
    BY <2>1, <2>2, SuitesIn
  <2>4. u.button[b].face = board[s][t]
    BY DEF Built
  <2> HIDE DEF b
  <2>5. b \in 1 .. Len(u.button) /\ b \notin {View, Popup}
    BY <2>1, <2>3, <1>1 DEF View
  <2> QED
    BY <2>4, <2>5 DEF b
<1>3. ASSUME NEW s \in DOMAIN board
      PROVE  \A t \in DOMAIN board[s] : w.button[FirstOf(s) + t].face = board[s][t]
  BY <1>2
<1>4. ASSUME NEW b \in 1 .. Len(w.button)
      PROVE  /\ w.button[b].sensitive <=> b \notin {View, Dialog}
             /\ w.button[b].cb = IF b = Pass THEN "pass" ELSE IF b = Fail THEN "fail"
                                 ELSE IF b \in {View, Quit, Dialog} THEN "none"
                                 ELSE IF b = Popup THEN "popup"
                                 ELSE IF b > Dialog THEN "popdown" ELSE "test"
  <2>1. /\ b \in 1 .. Len(u.button) /\ w.button[b].sensitive = u.button[b].sensitive
        /\ w.button[b].cb = u.button[b].cb
    OBVIOUS
  <2> QED
    BY <2>1 DEF Built
<1> QED
  BY <1>1, <1>3, <1>4 DEF Built

\* What was set up stays so through any change of the toolkit.
LEMMA BuiltStays ==
  ASSUME board \in Boards, NEW u, Built(u, board), NEW w, Changes(w, u)
  PROVE  Built(w, board) /\ Built(oltk_redraw(w), board)
<1>1. /\ w \in Ui /\ u \in Ui /\ Len(w.button) = Len(u.button) /\ w.depressed <= Len(w.button)
      /\ Len(w.button) = Dialog + Len(board)
  BY DEF Built, Changes
<1>2. \A b \in 1 .. Len(u.button) :
        /\ w.button[b].sensitive = u.button[b].sensitive /\ w.button[b].cb = u.button[b].cb
        /\ b \notin {View, Popup} => w.button[b].face = u.button[b].face
  BY DEF Changes
<1>3. Built(w, board)
  BY <1>1, <1>2, BuiltLike
<1> DEFINE v == oltk_redraw(w)
<1>4. /\ v \in Ui /\ Len(v.button) = Len(w.button) /\ v.depressed = w.depressed
      /\ \A b \in 1 .. Len(w.button) :
           /\ v.button[b].cb = w.button[b].cb
           /\ v.button[b].sensitive = w.button[b].sensitive
           /\ v.button[b].face = w.button[b].face
  BY <1>1, RedrawIs
<1> HIDE DEF v
<1>5. Built(v, board)
  BY <1>1, <1>3, <1>4, BuiltLike
<1> QED
  BY <1>3, <1>5 DEF v

\* Where the buttons stand that have a name of their own.
LEMMA Numbers ==
  ASSUME board \in Boards, NEW u, Built(u, board)
  PROVE  /\ u \in Ui /\ Len(u.button) \in Nat /\ Len(u.button) = Dialog + Len(board)
         /\ Popup \in Nat /\ Popup >= 5 /\ Dialog = Popup + 1 /\ Dialog \in Nat
         /\ {View, Pass, Quit, Fail, Popup, Dialog} \subseteq 1 .. Len(u.button)
         /\ \A b : b \in Items <=> b \in 1 .. Len(u.button) /\ b > Dialog
         /\ \A s \in DOMAIN board : /\ TestsOf(s) \subseteq 5 .. Popup - 1
                                    /\ TestsOf(s) \subseteq 1 .. Len(u.button)
         /\ u.depressed \in 0 .. Len(u.button)
         /\ Len(board) \in Nat /\ Len(board) >= 1 /\ DOMAIN board = 1 .. Len(board)
<1>1. u \in Ui /\ Len(u.button) = Dialog + Len(board) /\ u.depressed <= Len(u.button)
  BY DEF Built
<1>2. Len(u.button) \in Nat /\ u.depressed \in Nat
  BY <1>1, UiIs
<1>3. Len(board) \in Nat /\ Len(board) >= 1 /\ DOMAIN board = 1 .. Len(board)
  BY BoardIs
<1>4. /\ Popup \in Nat /\ Popup >= 5 /\ Dialog = Popup + 1 /\ Dialog \in Nat
      /\ \A s \in DOMAIN board : TestsOf(s) \subseteq 5 .. Popup - 1
  BY <1>3, SuitesIn
<1>5. {View, Pass, Quit, Fail, Popup, Dialog} \subseteq 1 .. Len(u.button)
  BY <1>1, <1>2, <1>3, <1>4 DEF View, Pass, Quit, Fail
<1>6. \A b : b \in Items <=> b \in 1 .. Len(u.button) /\ b > Dialog
  BY <1>1, <1>2, <1>3, <1>4 DEF Items
<1>7. \A s \in DOMAIN board : TestsOf(s) \subseteq 1 .. Len(u.button)
  BY <1>1, <1>2, <1>3, <1>4
<1> QED
  BY <1>1, <1>2, <1>3, <1>4, <1>5, <1>6, <1>7

\* Another suite is chosen.
LEMMA SelectedIs ==
  ASSUME board \in Boards, suite \in DOMAIN board, NEW u, Built(u, board), NEW s \in DOMAIN board
  PROVE  LET v == Selected(u, s)
         IN  /\ Changes(v, u) /\ v.depressed = u.depressed /\ v.abort = u.abort
             /\ Kept_active(v, u)
             /\ \A choosing \in BOOLEAN : ShownOf(u, suite, choosing) => ShownOf(v, s, choosing)
<1>0. /\ u \in Ui /\ Len(u.button) \in Nat /\ Popup \in Nat /\ Popup >= 5 /\ Dialog = Popup + 1
      /\ {View, Popup} \subseteq 1 .. Len(u.button)
      /\ \A r \in DOMAIN board : /\ TestsOf(r) \subseteq 5 .. Popup - 1
                                 /\ TestsOf(r) \subseteq 1 .. Len(u.button)
      /\ DOMAIN board = 1 .. Len(board) /\ Len(board) \in Nat
  BY Numbers
<1> DEFINE named == oltk_button_set_name(u, Popup, s)
           v == Selected(u, s)
<1>1. s \in Labels /\ Popup \in 1 .. Len(u.button) /\ Popup \in {View, Popup}
  <2>1. s \in Nat
    BY <1>0
  <2> QED
    BY <2>1, <1>0 DEF Labels
<1>2. /\ Changes(named, u) /\ named.depressed = u.depressed /\ named.abort = u.abort
      /\ Alike(named, u) /\ Kept_active(named, u)
  BY <1>0, <1>1, SetNameIs
<1> HIDE DEF named, v
<1>3. CASE s = suite
  <2>1. v = named
    BY <1>3 DEF Selected, named, v
  <2>2. \A choosing \in BOOLEAN : ShownOf(u, suite, choosing) => ShownOf(v, s, choosing)
    BY <2>1, <1>2, <1>3, UiIs DEF ShownOf, Alike, Changes
  <2> QED
    BY <2>1, <2>2, <1>2 DEF v
<1>4. CASE s # suite
  <2> DEFINE told == oltk_view_set_text(named, View, "desc")
             off  == ShowAll(told, TestsOf(suite), FALSE)
             on   == ShowAll(off, TestsOf(s), TRUE)
             no == FALSE
             yes == TRUE
             desc == "desc"
  <2>1. v = on
    BY <1>4 DEF Selected, named, v
  <2>2. told = oltk_button_set_name(named, View, desc)
    BY DEF oltk_view_set_text
  <2>3. named \in Ui /\ Len(named.button) = Len(u.button) /\ desc \in Labels
        /\ View \in 1 .. Len(named.button) /\ View \in {View, Popup}
    BY <1>0, <1>2 DEF Changes, Labels
  <2>o. off = ShowAll(told, TestsOf(suite), no) /\ on = ShowAll(off, TestsOf(s), yes)
        /\ no \in BOOLEAN /\ yes \in BOOLEAN
    OBVIOUS
  <2> HIDE DEF desc, told, off, on
  <2>4. /\ Changes(told, named) /\ told.depressed = named.depressed /\ told.abort = named.abort
        /\ Alike(told, named) /\ Kept_active(told, named)
    BY <2>2, <2>3, SetNameIs
  <2>5. told \in Ui /\ Len(told.button) = Len(u.button)
    BY <2>3, <2>4 DEF Changes
  <2>6. TestsOf(suite) \subseteq 1 .. Len(told.button)
    BY <2>5, <1>0
  <2> HIDE DEF no, yes
  <2>7. Changes(off, told) /\ Kept_active(off, told) /\ Shifted(off, told, TestsOf(suite), no)
    BY <2>5, <2>6, <2>o, ShowAllIs
  <2>8. off \in Ui /\ Len(off.button) = Len(u.button)
    BY <2>5, <2>7 DEF Changes
  <2>9. TestsOf(s) \subseteq 1 .. Len(off.button)
    BY <2>8, <1>0
  <2>10. Changes(on, off) /\ Kept_active(on, off) /\ Shifted(on, off, TestsOf(s), yes)
    BY <2>8, <2>9, <2>o, ShowAllIs
  <2>11. Changes(told, u)
    BY <2>4, <1>2, ChangesTrans
  <2>12. Changes(off, u)
    BY <2>7, <2>11, ChangesTrans
  <2>13. Changes(on, u)
    BY <2>10, <2>12, ChangesTrans
  <2>14. \A b \in 1 .. Len(u.button) :
           /\ on.button[b].show = IF b \in TestsOf(s) THEN yes
                                  ELSE IF b \in TestsOf(suite) THEN no ELSE u.button[b].show
           /\ on.button[b].cb = u.button[b].cb /\ on.button[b].active = u.button[b].active
    <3>1. ASSUME NEW b \in 1 .. Len(u.button)
          PROVE  on.button[b].cb = u.button[b].cb
      BY <2>13 DEF Changes
    <3>2. ASSUME NEW b \in 1 .. Len(u.button)
          PROVE  on.button[b].active = u.button[b].active
      BY <2>3, <2>4, <2>5, <2>7, <2>8, <2>10, <1>2 DEF Alike, Kept_active
    <3>3. ASSUME NEW b \in 1 .. Len(u.button)
          PROVE  on.button[b].show = IF b \in TestsOf(s) THEN yes
                                     ELSE IF b \in TestsOf(suite) THEN no ELSE u.button[b].show
      BY <2>3, <2>4, <2>5, <2>7, <2>8, <2>10, <1>2 DEF Alike, Shifted
    <3> QED
      BY <3>1, <3>2, <3>3
  <2>15. Kept_active(on, u)
    BY <2>14 DEF Kept_active
  <2>16. ASSUME NEW choosing \in BOOLEAN, ShownOf(u, suite, choosing) PROVE ShownOf(on, s, choosing)
    <3>1. Len(on.button) = Len(u.button)
      BY <2>13 DEF Changes
    <3>2. ASSUME NEW b \in 1 .. Len(u.button)
          PROVE  /\ on.button[b].cb = "test" => (on.button[b].show <=> b \in TestsOf(s))
                 /\ b >= Dialog => (on.button[b].show <=> choosing)
                 /\ b \in {View, Pass, Quit, Fail, Popup} => on.button[b].show
      <4>1. /\ u.button[b].cb = "test" => (u.button[b].show <=> b \in TestsOf(suite))
            /\ b >= Dialog => (u.button[b].show <=> choosing)
            /\ b \in {View, Pass, Quit, Fail, Popup} => u.button[b].show
            /\ u.button[b].show \in BOOLEAN
        BY <2>16, <1>0, UiIs DEF ShownOf
      <4>2. b \in TestsOf(s) \cup TestsOf(suite) => b >= 5 /\ b < Popup
        BY <1>0
      <4>3. b \in {View, Pass, Quit, Fail, Popup} \/ b >= Dialog
            => b \notin TestsOf(s) \cup TestsOf(suite)
        BY <4>2, <1>0 DEF View, Pass, Quit, Fail
      <4> QED
        BY <4>1, <4>3, <2>14 DEF yes, no
    <3> QED
      BY <3>1, <3>2 DEF ShownOf
  <2> QED
    BY <2>1, <2>4, <2>7, <2>10, <2>13, <2>15, <2>16, <1>2 DEF v, Shifted
<1> QED
  BY <1>3, <1>4

\* What is shown as before.
LEMMA ShownAlike ==
  ASSUME NEW u \in Ui, NEW v, Changes(v, u), Alike(v, u), NEW s, NEW choosing,
         ShownOf(u, s, choosing)
  PROVE  ShownOf(v, s, choosing)
BY DEF Changes, Alike, ShownOf

\* The buttons are still those of the board.
LEMMA BoardStays ==
  ASSUME board' = board
  PROVE  /\ Popup' = Popup /\ Dialog' = Dialog /\ Items' = Items
         /\ \A s : FirstOf(s)' = FirstOf(s) /\ TestsOf(s)' = TestsOf(s)
         /\ \A u : Built(u, board)' <=> Built(u, board)
         /\ \A u, s, c : ShownOf(u, s, c)' <=> ShownOf(u, s, c)
<1>1. \A s : FirstOf(s)' = FirstOf(s)
  BY DEF FirstOf
<1>2. Popup' = Popup /\ Dialog' = Dialog /\ Items' = Items
  BY <1>1 DEF Popup, Dialog, Items
<1>3. \A s : TestsOf(s)' = TestsOf(s)
  BY <1>1 DEF TestsOf
<1>4. \A u : Built(u, board)' <=> Built(u, board)
  BY <1>1, <1>2 DEF Built
<1>5. \A u, s, c : ShownOf(u, s, c)' <=> ShownOf(u, s, c)
  BY <1>2, <1>3 DEF ShownOf
<1> QED
  BY <1>1, <1>2, <1>3, <1>4, <1>5

\* The program redraws what it has changed, or runs the last of all tests first.
LEMMA ScreenRedrawn ==
  ASSUME UiInv, PaintInv, at # "exited", NEW w, Changes(w, ui),
         (ui' = oltk_redraw(w)) \/ (ui' = w /\ at' = "run"),
         UNCHANGED <<board, drawn>>, at' # "exited", blocked' \in BOOLEAN,
         suite' \in DOMAIN board, test' \in 0 .. Len(board[suite']), fed' \in 0 .. Len(ui.button),
         ShownOf(w, suite', at' = "popup"),
         at' \in {"run", "popup"} => fed' # 0 /\ w.button[fed'].show,
         at' = "popup" => fed' = Popup
  PROVE  UiInv' /\ PaintInv'
<1>1. /\ board \in Boards /\ Built(ui, board) /\ ui \in Ui /\ Right(ui) /\ Len(ui.button) \in Nat
      /\ Len(w.button) = Len(ui.button) /\ w \in Ui
  BY Numbers DEF UiInv, PaintInv, Right, Changes
<1>2. Built(w, board) /\ Built(oltk_redraw(w), board)
  BY <1>1, BuiltStays
<1>3. Right(oltk_redraw(w)) /\ Clean(oltk_redraw(w)) /\ Right(w)
  BY <1>1, Repaints
<1>4. /\ Len(oltk_redraw(w).button) = Len(w.button) /\ Alike(oltk_redraw(w), w)
      /\ \A b \in 1 .. Len(w.button) : oltk_redraw(w).button[b].cb = w.button[b].cb
  BY <1>1, RedrawIs
<1>5. /\ Built(ui', board) /\ Right(ui') /\ Len(ui'.button) = Len(ui.button) /\ Alike(ui', w)
      /\ \A b \in 1 .. Len(w.button) : ui'.button[b].cb = w.button[b].cb
      /\ at' \in {"loop", "popup"} => Clean(ui')
  <2>1. CASE ui' = oltk_redraw(w)
    BY <2>1, <1>1, <1>2, <1>3, <1>4
  <2>2. CASE ui' = w /\ at' = "run"
    BY <2>2, <1>1, <1>2, <1>3, ChangesRefl
  <2> QED
    BY <2>1, <2>2
<1>6. ShownOf(ui', suite', at' = "popup")
  BY <1>1, <1>5 DEF ShownOf, Alike
<1>7. at' \in {"run", "popup"} => fed' # 0 /\ ui'.button[fed'].show
  BY <1>1, <1>5 DEF Alike
<1>8. PaintInv'
  BY <1>5 DEF PaintInv, Right
<1>9. Built(ui, board)' /\ ShownOf(ui, suite, at = "popup")' /\ Popup' = Popup
  <2>1. \A u : Built(u, board)' <=> Built(u, board)
    BY BoardStays
  <2>2. \A u, s, c : ShownOf(u, s, c)' <=> ShownOf(u, s, c)
    BY BoardStays
  <2>3. Built(ui, board)'
    BY <2>1, <1>5
  <2>4. ShownOf(ui, suite, at = "popup")'
    BY <2>2, <1>6
  <2> QED
    BY <2>3, <2>4, BoardStays
<1>10. UiInv'
  BY <1>1, <1>5, <1>7, <1>9 DEF UiInv
<1> QED
  BY <1>8, <1>10

\* The buttons stay as they are.
LEMMA ScreenSame ==
  ASSUME UiInv, PaintInv, ui' \in Ui, ui'.button = ui.button, ui'.depressed = ui.depressed,
         ui'.invalid = ui.invalid, UNCHANGED <<board, suite, test, fed>>, at' \in {at, "exited"},
         drawn' \in BOOLEAN, blocked' \in BOOLEAN,
         \A p \in Points : \/ ui'.screen[p] = ui.screen[p] /\ (drawn => drawn')
                           \/ drawn' /\ Overdrawn(ui', p)
  PROVE  UiInv' /\ PaintInv'
<1>1. board \in Boards /\ Built(ui, board) /\ ui \in Ui /\ Right(ui)
  BY Numbers DEF UiInv, PaintInv, Right
<1>2. Built(ui', board)
  BY <1>1, BuiltLike DEF Built
<1>3. at' # "exited" => ShownOf(ui', suite', at' = "popup")
  BY DEF UiInv, ShownOf
<1>4. UiInv'
  <2>1. \A u : Built(u, board)' <=> Built(u, board)
    BY BoardStays
  <2>2. \A u, s, c : ShownOf(u, s, c)' <=> ShownOf(u, s, c)
    BY BoardStays
  <2>3. Built(ui, board)'
    BY <2>1, <1>2
  <2>4. at' # "exited" => ShownOf(ui, suite, at = "popup")'
    BY <2>2, <1>3
  <2>5. Popup' = Popup
    BY BoardStays
  <2> QED
    BY <2>3, <2>4, <2>5 DEF UiInv
<1>5. ASSUME NEW p \in Points PROVE RightAt(ui', p) \/ (drawn' /\ Overdrawn(ui', p))
  <2>1. Topmost(ui', p) = Topmost(ui, p)
    BY <1>1, SameTop
  <2>2. Picture(ui')[p] = Picture(ui)[p]
    BY <2>1 DEF Picture, Face
  <2>3. CASE ui'.screen[p] = ui.screen[p] /\ (drawn => drawn')
    BY <2>1, <2>2, <2>3, <1>1 DEF Right, RightAt, Overdrawn
  <2> QED
    BY <2>3
<1>6. PaintInv'
  BY <1>5 DEF PaintInv, Clean
<1> QED
  BY <1>4, <1>6

\* The screen is right after a step that leaves it alone.
LEMMA ScreenStays ==
  ASSUME UiInv, PaintInv, UNCHANGED <<ui, board, suite, test, fed, drawn>>, at' \in {at, "exited"},
         blocked' \in BOOLEAN
  PROVE  UiInv' /\ PaintInv'
<1>1. drawn' \in BOOLEAN /\ ui' \in Ui
  BY DEF UiInv, Built
<1> QED
  BY <1>1, ScreenSame

\* A child draws on the view.
LEMMA ScreenDrawn ==
  ASSUME UiInv, PaintInv, NEW i \in Pids \ {1}, NEW text \in Labels, Shows(i, text),
         UNCHANGED <<board, suite, test, fed, at, blocked>>
  PROVE  UiInv' /\ PaintInv'
<1> DEFINE scr == Paint(ui.screen, PointsOf(Layout.view), <<View, text>>)
<1>1. ui' = [ui EXCEPT !.screen = scr] /\ drawn' = TRUE
  BY DEF Shows
<1>2. ui \in Ui /\ blocked \in BOOLEAN
  BY DEF UiInv, Built
<1>3. <<View, text>> \in Pixel
  BY DEF Pixel, View
<1>4. scr \in [Points -> Pixel]
  BY <1>2, <1>3 DEF Paint, Ui
<1>5. \A p \in Points : scr[p] = IF p \in PointsOf(Layout.view) THEN <<View, text>> ELSE ui.screen[p]
  BY DEF Paint
<1> HIDE DEF scr
<1>6. /\ ui' \in Ui /\ ui'.button = ui.button /\ ui'.depressed = ui.depressed
      /\ ui'.invalid = ui.invalid /\ ui'.screen = scr
  BY <1>1, <1>2, <1>4 DEF Ui
<1>7. ASSUME NEW p \in Points
      PROVE  ui'.screen[p] = ui.screen[p] \/ Overdrawn(ui', p)
  <2>1. CASE p \in PointsOf(Layout.view)
    BY <2>1, <1>5, <1>6 DEF PointsOf, Overdrawn
  <2> QED
    BY <2>1, <1>5, <1>6
<1> QED
  BY <1>1, <1>2, <1>6, <1>7, ScreenSame

\* The program shows a text on the view while it runs a test.
LEMMA ScreenTold ==
  ASSUME UiInv, PaintInv, NEW text \in Labels, Shows(1, text), at # "exited",
         UNCHANGED <<board, suite, test, fed, at, blocked>>
  PROVE  UiInv' /\ PaintInv'
<1> DEFINE w == oltk_view_set_text(ui, View, text)
<1>1. ui' = oltk_redraw(w) /\ drawn' = drawn
  BY DEF Shows, Redrawn
<1>2. ui \in Ui /\ blocked \in BOOLEAN /\ View \in 1 .. Len(ui.button) /\ View \in {View, Popup}
  BY Numbers DEF UiInv
<1>3. Changes(w, ui) /\ Alike(w, ui)
  BY <1>2, SetNameIs DEF oltk_view_set_text
<1> HIDE DEF w
<1>4. ShownOf(w, suite, at = "popup")
  BY <1>2, <1>3, ShownAlike DEF UiInv
<1>5. /\ suite \in DOMAIN board /\ test \in 0 .. Len(board[suite]) /\ fed \in 0 .. Len(ui.button)
      /\ at \in {"run", "popup"} => fed # 0 /\ w.button[fed].show
      /\ at = "popup" => fed = Popup
  <2>1. fed # 0 => fed \in 1 .. Len(ui.button)
    BY <1>2, UiIs DEF UiInv
  <2> QED
    BY <2>1, <1>3 DEF UiInv, Alike
<1> QED
  BY <1>1, <1>2, <1>3, <1>4, <1>5, ScreenRedrawn

\* A text on the view, by the program or by a child.
LEMMA ScreenShows ==
  ASSUME UiInv, PaintInv, NEW i \in Pids, NEW text \in Labels, Shows(i, text),
         at # "exited" \/ i # 1,
         UNCHANGED <<board, suite, test, fed, at, blocked>>
  PROVE  UiInv' /\ PaintInv'
BY ScreenDrawn, ScreenTold

\* What the touch screen holds.
Sample == [p : Points, down : BOOLEAN, when : {"loop", "popup", "run"}, seen : Nat]
FingerOK == samples \in Seq(Sample) /\ down \in BOOLEAN

\* The dialog and its items are shown or hidden.
LEMMA DialogIs ==
  ASSUME board \in Boards, suite \in DOMAIN board, NEW u, Built(u, board), NEW c \in BOOLEAN
  PROVE  LET v == ShowAll(u, {Dialog} \cup Items, c)
         IN  /\ Changes(v, u) /\ v.depressed = u.depressed /\ v.abort = u.abort /\ Kept_active(v, u)
             /\ \A o \in BOOLEAN : ShownOf(u, suite, o) => ShownOf(v, suite, c)
             /\ \A b \in 1 .. Len(u.button) : v.button[b].show = IF b >= Dialog THEN c ELSE u.button[b].show
<1> DEFINE bs == {Dialog} \cup Items
           on == c
           v == ShowAll(u, bs, on)
<1>0. /\ u \in Ui /\ Len(u.button) \in Nat /\ Popup \in Nat /\ Popup >= 5 /\ Dialog = Popup + 1
      /\ Dialog \in 1 .. Len(u.button)
      /\ \A b : b \in Items <=> b \in 1 .. Len(u.button) /\ b > Dialog
      /\ TestsOf(suite) \subseteq 5 .. Popup - 1
  BY Numbers
<1>1. bs \subseteq 1 .. Len(u.button) /\ \A b \in 1 .. Len(u.button) : b \in bs <=> b >= Dialog
  BY <1>0
<1>2. on \in BOOLEAN /\ v = ShowAll(u, bs, on)
  OBVIOUS
<1> HIDE DEF bs, on, v
<1>3. Changes(v, u) /\ Kept_active(v, u) /\ Shifted(v, u, bs, on)
  BY <1>0, <1>1, <1>2, ShowAllIs
<1>4. \A b \in 1 .. Len(u.button) : v.button[b].show = IF b >= Dialog THEN c ELSE u.button[b].show
  BY <1>1, <1>3 DEF on, Shifted
<1>5. ASSUME NEW o \in BOOLEAN, ShownOf(u, suite, o) PROVE ShownOf(v, suite, c)
  <2>1. /\ Len(v.button) = Len(u.button)
        /\ \A b \in 1 .. Len(u.button) : v.button[b].cb = u.button[b].cb
    BY <1>3 DEF Changes
  <2>2. ASSUME NEW b \in 1 .. Len(u.button)
        PROVE  /\ v.button[b].cb = "test" => (v.button[b].show <=> b \in TestsOf(suite))
               /\ b >= Dialog => (v.button[b].show <=> c)
               /\ b \in {View, Pass, Quit, Fail, Popup} => v.button[b].show
    <3>1. /\ u.button[b].cb = "test" => (u.button[b].show <=> b \in TestsOf(suite))
          /\ b \in {View, Pass, Quit, Fail, Popup} => u.button[b].show
      BY <1>5 DEF ShownOf
    <3>2. b >= Dialog => u.button[b].cb # "test"
      BY <1>0 DEF Built, View, Pass, Fail, Quit
    <3>3. b \in {View, Pass, Quit, Fail, Popup} => ~ (b >= Dialog)
      BY <1>0 DEF View, Pass, Quit, Fail
    <3> QED
      BY <3>1, <3>2, <3>3, <2>1, <1>4
  <2> QED
    BY <2>1, <2>2 DEF ShownOf
<1> QED
  BY <1>3, <1>4, <1>5 DEF v, bs, on, Shifted

\* After the callback.
LEMMA DepressedStays ==
  ASSUME NEW u \in Ui, NEW b \in 0 .. Len(u.button), NEW v, Changes(v, u),
         u.depressed <= Len(u.button), NEW s, NEW choosing, ShownOf(v, s, choosing)
  PROVE  Changes(Depressed(v, b), u) /\ ShownOf(Depressed(v, b), s, choosing)
<1>1. v \in Ui /\ b \in 0 .. Len(v.button) /\ v.depressed <= Len(v.button)
  BY DEF Changes
<1>2. Changes(Depressed(v, b), v) /\ Alike(Depressed(v, b), v)
  BY <1>1, DepressedIs
<1> QED
  BY <1>1, <1>2, ChangesTrans, ShownAlike

\* What oltk_feed does before a callback.
LEMMA FeedIs ==
  ASSUME UiInv, FingerOK, at = "loop", samples # <<>>
  PROVE  LET s == Head(samples)
             b == Handler(ui, s.p)
             u == Fed(ui, b, s.down)
         IN  /\ s \in Sample /\ b \in 0 .. Len(ui.button) /\ Changes(u, ui) /\ Alike(u, ui)
             /\ ShownOf(u, suite, FALSE) /\ Built(u, board) /\ u \in Ui
             /\ Len(u.button) = Len(ui.button) /\ u.depressed <= Len(u.button)
             /\ b # 0 => b \in 1 .. Len(ui.button) /\ Listens(ui, b) /\ u.button[b].show
                         /\ u.button[b].cb = ui.button[b].cb /\ ui.button[b].show
<1> DEFINE s == Head(samples)
           b == Handler(ui, s.p)
           u == Fed(ui, b, s.down)
<1>1. s \in Sample
  BY DEF FingerOK
<1>2. s.p \in Points /\ s.down \in BOOLEAN
  BY <1>1 DEF Sample
<1>3. ui \in Ui /\ board \in Boards /\ Built(ui, board) /\ ShownOf(ui, suite, FALSE)
      /\ ui.depressed <= Len(ui.button)
  BY DEF UiInv, Built
<1> HIDE DEF s
<1>4. b \in 0 .. Len(ui.button) /\ (b # 0 => b \in 1 .. Len(ui.button) /\ Listens(ui, b))
  BY <1>2, <1>3, HandlerIs
<1> HIDE DEF b
<1>5. Changes(u, ui) /\ Alike(u, ui)
  BY <1>2, <1>3, <1>4, FedIs
<1> HIDE DEF u
<1>6. ShownOf(u, suite, FALSE) /\ Built(u, board)
  BY <1>3, <1>5, ShownAlike, BuiltStays
<1>7. u \in Ui /\ Len(u.button) = Len(ui.button) /\ u.depressed <= Len(u.button)
  BY <1>3, <1>5 DEF Changes
<1>8. b # 0 => u.button[b].show /\ u.button[b].cb = ui.button[b].cb /\ ui.button[b].show
  BY <1>4, <1>5 DEF Listens, Alike, Changes
<1> QED
  BY <1>1, <1>4, <1>5, <1>6, <1>7, <1>8 DEF s, b, u

\* A sample that the main loop handles.
LEMMA ScreenFeeds ==
  ASSUME UiInv, PaintInv, FingerOK, Feed
  PROVE  UiInv' /\ PaintInv'
<1> DEFINE s == Head(samples)
           b == Handler(ui, s.p)
           u == Fed(ui, b, s.down)
           cb == ui.button[b].cb
<1>0. at = "loop" /\ samples # <<>>
  BY DEF Feed
<1>1. /\ s \in Sample /\ b \in 0 .. Len(ui.button) /\ Changes(u, ui) /\ Alike(u, ui)
      /\ ShownOf(u, suite, FALSE) /\ Built(u, board) /\ u \in Ui
      /\ Len(u.button) = Len(ui.button) /\ u.depressed <= Len(u.button)
      /\ b # 0 => b \in 1 .. Len(ui.button) /\ Listens(ui, b) /\ u.button[b].show
                  /\ u.button[b].cb = ui.button[b].cb /\ ui.button[b].show
  BY <1>0, FeedIs
<1>2. /\ fed' = b /\ board' = board /\ blocked' = blocked
      /\ \/ /\ ~ Clicks(ui, b, s.down) \/ cb = "none"
            /\ Redrawn(Depressed(u, b)) /\ UNCHANGED <<at, suite, test>>
         \/ /\ Clicks(ui, b, s.down) /\ cb \in {"pass", "fail"} /\ next_test(u, b)
         \/ /\ Clicks(ui, b, s.down) /\ cb = "test"
            /\ on_test_by_function(u, ui.button[b].face) /\ UNCHANGED <<suite, test>>
         \/ /\ Clicks(ui, b, s.down) /\ cb = "popup" /\ at' = "popup"
            /\ Redrawn(ShowAll(u, {Dialog} \cup Items, TRUE)) /\ UNCHANGED <<suite, test>>
  BY DEF Feed
<1>3. Clicks(ui, b, s.down) => b # 0
  BY DEF Clicks
<1> HIDE DEF s, b, u, cb
<1>4. /\ board \in Boards /\ suite \in DOMAIN board /\ test \in 0 .. Len(board[suite])
      /\ ui \in Ui /\ ui.depressed <= Len(ui.button) /\ blocked' \in BOOLEAN /\ suite \in Nat
      /\ Len(board[suite]) \in Nat /\ DOMAIN board = 1 .. Len(board) /\ Len(board) \in Nat
      /\ Built(ui, board)
  BY <1>2, BoardIs DEF UiInv, Built
<1>5. /\ Changes(Depressed(u, b), ui) /\ ShownOf(Depressed(u, b), suite, FALSE)
  BY <1>1, <1>4, DepressedStays
<1>6. CASE Redrawn(Depressed(u, b)) /\ UNCHANGED <<at, suite, test>>
  <2>1. ui' = oltk_redraw(Depressed(u, b)) /\ drawn' = drawn
    BY <1>6 DEF Redrawn
  <2> QED
    BY <2>1, <1>0, <1>1, <1>2, <1>4, <1>5, <1>6, ScreenRedrawn
<1>7. CASE Clicks(ui, b, s.down) /\ next_test(u, b)
  <2>1. CASE /\ test < Len(board[suite]) /\ test' = test + 1
             /\ on_test_by_function(u, board[suite][test + 1]) /\ UNCHANGED suite
    <3>1. ui' = oltk_redraw(u) /\ drawn' = drawn /\ at' = "run"
      BY <2>1 DEF on_test_by_function, Begin, Redrawn
    <3>2. test' \in 0 .. Len(board[suite]) /\ suite' = suite
      BY <2>1, <1>4
    <3> QED
      BY <3>1, <3>2, <1>0, <1>1, <1>2, <1>3, <1>4, <1>7, ScreenRedrawn
  <2>2. CASE /\ suite < Len(board) /\ Redrawn(Depressed(Selected(u, suite + 1), b))
             /\ suite' = suite + 1 /\ test' = 0 /\ UNCHANGED at
    <3> DEFINE next == suite + 1
               v == Selected(u, next)
    <3>1. next \in DOMAIN board /\ suite' = next /\ test' \in 0 .. Len(board[next])
      BY <2>2, <1>4, BoardIs
    <3>2. ui' = oltk_redraw(Depressed(v, b)) /\ drawn' = drawn
      BY <2>2 DEF Redrawn
    <3> HIDE DEF next
    <3>3. Changes(v, u) /\ ShownOf(v, next, FALSE)
      BY <3>1, <1>1, <1>4, SelectedIs
    <3> HIDE DEF v
    <3>4. Changes(v, ui)
      BY <3>3, <1>1, ChangesTrans
    <3>5. Changes(Depressed(v, b), ui) /\ ShownOf(Depressed(v, b), next, FALSE)
      BY <3>3, <3>4, <1>1, <1>4, DepressedStays
    <3> QED
      BY <3>1, <3>2, <3>5, <2>2, <1>0, <1>1, <1>2, <1>4, ScreenRedrawn
  <2>3. CASE Begin("log") /\ ui' = u /\ UNCHANGED <<suite, test, drawn>>
    <3>1. at' = "run"
      BY <2>3 DEF Begin
    <3> QED
      BY <3>1, <2>3, <1>0, <1>1, <1>2, <1>3, <1>4, <1>7, ScreenRedrawn
  <2> QED
    BY <1>7, <2>1, <2>2, <2>3 DEF next_test
<1>8. CASE /\ Clicks(ui, b, s.down) /\ on_test_by_function(u, ui.button[b].face)
           /\ UNCHANGED <<suite, test>>
  <2>1. ui' = oltk_redraw(u) /\ drawn' = drawn /\ at' = "run"
    BY <1>8 DEF on_test_by_function, Begin, Redrawn
  <2> QED
    BY <2>1, <1>0, <1>1, <1>2, <1>3, <1>4, <1>8, ScreenRedrawn
<1>9. CASE /\ Clicks(ui, b, s.down) /\ cb = "popup" /\ at' = "popup"
           /\ Redrawn(ShowAll(u, {Dialog} \cup Items, TRUE)) /\ UNCHANGED <<suite, test>>
  <2> DEFINE yes == TRUE
             v == ShowAll(u, {Dialog} \cup Items, yes)
  <2>1. ui' = oltk_redraw(v) /\ drawn' = drawn /\ yes \in BOOLEAN
    BY <1>9 DEF Redrawn
  <2>2. Popup = b
    <3>1. b \in 1 .. Len(ui.button) /\ ui.button[b].cb = "popup"
      BY <1>1, <1>3, <1>9 DEF cb
    <3> QED
      BY <3>1, <1>4 DEF Built
  <2> HIDE DEF yes
  <2>3. /\ Changes(v, u) /\ ShownOf(v, suite, yes)
        /\ \A k \in 1 .. Len(u.button) : v.button[k].show = IF k >= Dialog THEN yes ELSE u.button[k].show
    BY <2>1, <1>1, <1>4, DialogIs
  <2> HIDE DEF v
  <2>4. Changes(v, ui)
    BY <2>3, <1>1, ChangesTrans
  <2>5. b # 0 /\ v.button[b].show
    BY <2>3, <1>1, <1>3, <1>9 DEF yes
  <2> QED
    BY <2>1, <2>2, <2>3, <2>4, <2>5, <1>0, <1>1, <1>2, <1>4, <1>9, ScreenRedrawn DEF yes
<1> QED
  BY <1>2, <1>6, <1>7, <1>8, <1>9

\* The functions of the tables.
LEMMA LogTest == "log" \in DOMAIN TestFunctions
<1>1. \A f, g, t : t \in DOMAIN f \/ t \in DOMAIN g => t \in DOMAIN Join(f, g)
  BY DEF Join
<1>2. "log" \in DOMAIN log_tests
  BY DEF log_tests
<1> DEFINE last3 == Join(log_tests_2, Join(rtc_tests, vibrator_tests))
           from_log == Join(log_tests, last3)
           from_key == Join(key_tests, Join(version_tests, Join(pmu_tests, from_log)))
           from_mac == Join(mac_address_tests, Join(wifi_tests, Join(lcm_tests, from_key)))
<1>3. TestFunctions = Join(audio_tests, Join(bt_tests, Join(gsm_tests, from_mac)))
  BY DEF TestFunctions
<1> HIDE DEF last3
<1>4. "log" \in DOMAIN from_log
  BY <1>1, <1>2
<1> HIDE DEF from_log
<1>5. "log" \in DOMAIN from_key
  BY <1>1, <1>4
<1> HIDE DEF from_key
<1>6. "log" \in DOMAIN from_mac
  BY <1>1, <1>5
<1> HIDE DEF from_mac
<1> QED
  BY <1>1, <1>3, <1>6

\* A button that starts a test has its name, and belongs to the suite when it is shown.
LEMMA TestButton ==
  ASSUME board \in Boards, suite \in DOMAIN board, NEW u, Built(u, board), NEW c,
         ShownOf(u, suite, c),
         NEW b \in 1 .. Len(u.button), u.button[b].cb = "test", u.button[b].show
  PROVE  /\ u.button[b].face \in DOMAIN TestFunctions
         /\ b - FirstOf(suite) \in 1 .. Len(board[suite])
<1>1. b \in TestsOf(suite) /\ b \in Nat
  BY Numbers DEF ShownOf
<1>2. /\ suite \in 1 .. Len(board) /\ FirstOf(suite) \in Nat /\ Len(board) \in Nat
      /\ Len(board[suite]) \in Nat /\ DOMAIN board[suite] = 1 .. Len(board[suite])
      /\ board[suite] \in Seq(DOMAIN TestFunctions)
  BY BoardIs, FirstIs
<1> DEFINE t == b - FirstOf(suite)
<1>3. t \in 1 .. Len(board[suite]) /\ b = FirstOf(suite) + t
  BY <1>1, <1>2 DEF TestsOf
<1> HIDE DEF t
<1>4. u.button[b].face = board[suite][t]
  BY <1>2, <1>3 DEF Built
<1>5. board[suite][t] \in DOMAIN TestFunctions
  BY <1>2, <1>3
<1> QED
  BY <1>3, <1>4, <1>5 DEF t

\* A test that begins finds the machine in order.
LEMMA MachineFeeds ==
  ASSUME MachineInv, UiInv, FingerOK, Feed
  PROVE  MachineInv'
<1> DEFINE s == Head(samples)
           b == Handler(ui, s.p)
           u == Fed(ui, b, s.down)
           cb == ui.button[b].cb
<1>0. at = "loop" /\ samples # <<>> /\ at # "exited"
  BY DEF Feed
<1>1. b # 0 => b \in 1 .. Len(ui.button) /\ ui.button[b].show
  BY <1>0, FeedIs
<1>2. UNCHANGED <<last, btpower, mixer, files, copy, late, verdict, replies>>
  BY DEF Feed
<1>3. Main = <<>> /\ log \in Nat
  BY <1>0 DEF MachineInv, ProcsOK, TypesOK
<1>4. /\ board \in Boards /\ suite \in DOMAIN board /\ test \in 0 .. Len(board[suite])
      /\ Built(ui, board) /\ ShownOf(ui, suite, FALSE)
      /\ Len(board[suite]) \in Nat /\ board[suite] \in Seq(DOMAIN TestFunctions)
  BY <1>0, BoardIs DEF UiInv
<1>5. \/ UNCHANGED <<procs, log, runs>> /\ at' \in {"loop", "popup"}
      \/ next_test(u, b)
      \/ b # 0 /\ cb = "test" /\ Begin(ui.button[b].face) /\ UNCHANGED log
  BY <1>0 DEF Feed, Clicks, on_test_by_function
<1> HIDE DEF s, b, u, cb
<1>6. CASE UNCHANGED <<procs, log, runs>> /\ at' \in {"loop", "popup"}
  BY <1>0, <1>2, <1>3, <1>6, Rests
<1>7. CASE next_test(u, b)
  <2>1. log' \in Nat
    BY <1>3, <1>7 DEF next_test
  <2>2. CASE test < Len(board[suite]) /\ Begin(board[suite][test + 1])
    <3> DEFINE t == board[suite][test + 1]
    <3>1. test + 1 \in 1 .. Len(board[suite])
      BY <2>2, <1>4
    <3>2. t \in DOMAIN TestFunctions
      BY <3>1, <1>4
    <3>3. Begin(t)
      BY <2>2
    <3> HIDE DEF t
    <3> QED
      BY <3>2, <3>3, <2>1, <1>0, <1>2, <1>3, Begins
  <2>3. CASE UNCHANGED <<at, runs, procs>>
    BY <2>1, <2>3, <1>0, <1>2, <1>3, Rests
  <2>4. CASE Begin("log")
    <3> DEFINE t == "log"
    <3>1. t \in DOMAIN TestFunctions /\ Begin(t)
      BY <2>4, LogTest
    <3> HIDE DEF t
    <3> QED
      BY <3>1, <2>1, <1>0, <1>2, <1>3, Begins
  <2> QED
    BY <1>7, <2>2, <2>3, <2>4 DEF next_test, on_test_by_function
<1>8. CASE b # 0 /\ cb = "test" /\ Begin(ui.button[b].face) /\ UNCHANGED log
  <2>1. ui.button[b].face \in DOMAIN TestFunctions
    BY <1>1, <1>4, <1>8, TestButton DEF cb
  <2> QED
    BY <2>1, <1>0, <1>2, <1>3, <1>8, Begins
<1> QED
  BY <1>5, <1>6, <1>7, <1>8

\* An item of the popup is chosen, or not.
LEMMA ScreenChooses ==
  ASSUME UiInv, PaintInv, FingerOK, Choose
  PROVE  UiInv' /\ PaintInv'
<1> DEFINE s == Head(samples)
           b == ItemAt(ui, Items, s.p)
           u == FedItems(ui, Items, s.p, s.down)
           chosen == b - Dialog
<1>0. at = "popup" /\ samples # <<>>
  BY DEF Choose
<1>1. /\ fed' = fed /\ board' = board /\ blocked' = blocked
      /\ \/ ~ Clicks(ui, b, s.down) /\ Redrawn(u) /\ UNCHANGED <<at, suite, test>>
         \/ /\ Clicks(ui, b, s.down) /\ at' = "loop"
            /\ Redrawn(Depressed(Selected(ShowAll(u, {Dialog} \cup Items, FALSE), chosen), fed))
            /\ suite' = chosen /\ test' = IF chosen = suite THEN test ELSE 0
  BY DEF Choose
<1>2. s.p \in Points /\ s.down \in BOOLEAN
  <2>1. s \in Sample
    BY <1>0 DEF FingerOK
  <2> QED
    BY <2>1 DEF Sample
<1>3. /\ board \in Boards /\ suite \in DOMAIN board /\ test \in 0 .. Len(board[suite])
      /\ Built(ui, board) /\ blocked' \in BOOLEAN /\ fed \in 0 .. Len(ui.button) /\ fed = Popup
      /\ ShownOf(ui, suite, TRUE) /\ fed # 0 /\ ui.button[fed].show /\ drawn \in BOOLEAN
  BY <1>0, <1>1 DEF UiInv
<1>4. /\ ui \in Ui /\ ui.depressed <= Len(ui.button) /\ Len(ui.button) = Dialog + Len(board)
      /\ Dialog \in Nat /\ DOMAIN board = 1 .. Len(board) /\ Len(board) \in Nat
      /\ \A k : k \in Items <=> k \in 1 .. Len(ui.button) /\ k > Dialog
      /\ Items \subseteq 1 .. Len(ui.button)
  <2>1. /\ ui \in Ui /\ ui.depressed \in 0 .. Len(ui.button) /\ Len(ui.button) \in Nat
        /\ Len(ui.button) = Dialog + Len(board)
        /\ Dialog \in Nat /\ DOMAIN board = 1 .. Len(board) /\ Len(board) \in Nat
        /\ \A k : k \in Items <=> k \in 1 .. Len(ui.button) /\ k > Dialog
    BY <1>3, Numbers
  <2> QED
    BY <2>1
<1>b. Clicks(ui, b, s.down) => b # 0
  BY DEF Clicks
<1> HIDE DEF s
<1>5. b # 0 => b \in Items
  BY <1>2, <1>4, ItemAtIs
<1> HIDE DEF b
<1>6. Changes(u, ui) /\ Alike(u, ui)
  BY <1>2, <1>4, FedItemsIs
<1> HIDE DEF u, chosen
<1>7. ShownOf(u, suite, TRUE) /\ Built(u, board) /\ u \in Ui /\ Len(u.button) = Len(ui.button)
  BY <1>3, <1>4, <1>6, ShownAlike, BuiltStays DEF Changes
<1>8. CASE Redrawn(u) /\ UNCHANGED <<at, suite, test>>
  <2>1. ui' = oltk_redraw(u) /\ drawn' = drawn
    BY <1>8 DEF Redrawn
  <2>2. u.button[fed].show
    BY <1>3, <1>4, <1>6 DEF Alike
  <2> QED
    BY <2>1, <2>2, <1>0, <1>1, <1>3, <1>6, <1>7, <1>8, ScreenRedrawn
<1>9. CASE /\ Clicks(ui, b, s.down) /\ at' = "loop"
           /\ Redrawn(Depressed(Selected(ShowAll(u, {Dialog} \cup Items, FALSE), chosen), fed))
           /\ suite' = chosen /\ test' = IF chosen = suite THEN test ELSE 0
  <2> DEFINE no == FALSE
             yes == TRUE
             off == ShowAll(u, {Dialog} \cup Items, no)
             v   == Selected(off, chosen)
  <2>1. chosen \in DOMAIN board
    BY <1>4, <1>5, <1>9, <1>b DEF chosen
  <2>2. no \in BOOLEAN /\ yes \in BOOLEAN /\ ShownOf(u, suite, yes)
    BY <1>7
  <2>3. ui' = oltk_redraw(Depressed(v, fed)) /\ drawn' = drawn
    BY <1>9 DEF Redrawn
  <2> HIDE DEF no, yes
  <2>4. Changes(off, u) /\ ShownOf(off, suite, no)
    BY <2>2, <1>3, <1>7, DialogIs
  <2> HIDE DEF off
  <2>5. Changes(off, ui) /\ Built(off, board)
    BY <2>4, <1>3, <1>6, <1>7, ChangesTrans, BuiltStays
  <2>6. Changes(v, off) /\ ShownOf(v, chosen, no)
    BY <2>1, <2>2, <2>4, <2>5, <1>3, SelectedIs
  <2> HIDE DEF v
  <2>7. Changes(v, ui)
    BY <2>5, <2>6, ChangesTrans
  <2>8. Changes(Depressed(v, fed), ui) /\ ShownOf(Depressed(v, fed), chosen, no)
    BY <2>6, <2>7, <1>3, <1>4, DepressedStays
  <2>9. test' \in 0 .. Len(board[chosen])
    BY <2>1, <1>3, <1>9, BoardIs
  <2> QED
    BY <2>1, <2>3, <2>8, <2>9, <1>0, <1>1, <1>3, <1>9, ScreenRedrawn DEF no
<1> QED
  BY <1>1, <1>8, <1>9

\* Choosing a suite leaves the machine alone.
LEMMA MachineChooses == ASSUME MachineInv, Choose PROVE MachineInv'
<1>1. /\ at = "popup" /\ at' \in {"loop", "popup"}
      /\ UNCHANGED <<procs, last, btpower, mixer, files, log, copy, runs, late, verdict, replies>>
  BY DEF Choose, machine
<1>2. Main = <<>> /\ log' \in Nat
  BY <1>1 DEF MachineInv, ProcsOK, TypesOK
<1> QED
  BY <1>1, <1>2, Rests

\* A test is over.
LEMMA ScreenReturns ==
  ASSUME UiInv, PaintInv, Return
  PROVE  UiInv' /\ PaintInv'
<1> DEFINE w == Depressed(ui, fed)
<1>1. /\ at = "run" /\ at' = "loop" /\ ui' = oltk_redraw(w) /\ drawn' = drawn
      /\ test' = (IF ui.button[fed].cb = "test" THEN fed - FirstOf(suite) ELSE test)
      /\ UNCHANGED <<board, fed, suite, blocked>>
  BY DEF Return, Redrawn
<1>2. /\ board \in Boards /\ suite \in DOMAIN board /\ test \in 0 .. Len(board[suite])
      /\ Built(ui, board) /\ blocked' \in BOOLEAN /\ fed \in 0 .. Len(ui.button)
      /\ ShownOf(ui, suite, FALSE) /\ fed # 0 /\ ui.button[fed].show
  BY <1>1 DEF UiInv
<1>3. ui \in Ui /\ Len(ui.button) \in Nat /\ ui.depressed <= Len(ui.button) /\ fed \in 1 .. Len(ui.button)
      /\ Len(board[suite]) \in Nat
  BY <1>2, Numbers, BoardIs DEF Built
<1>4. Changes(w, ui) /\ Alike(w, ui)
  BY <1>2, <1>3, DepressedIs
<1> HIDE DEF w
<1>5. ShownOf(w, suite, FALSE)
  BY <1>2, <1>3, <1>4, ShownAlike
<1>6. test' \in 0 .. Len(board[suite])
  <2>1. ui.button[fed].cb = "test" => fed - FirstOf(suite) \in 1 .. Len(board[suite])
    BY <1>2, <1>3, TestButton
  <2> QED
    BY <2>1, <1>1, <1>2, <1>3
<1> QED
  BY <1>1, <1>2, <1>4, <1>5, <1>6, ScreenRedrawn

\* A test that returns leaves the machine in order.
LEMMA MachineReturns == ASSUME MachineInv, Return PROVE MachineInv'
<1>1. /\ at = "run" /\ at' \in {"loop", "popup"} /\ Main = <<>>
      /\ UNCHANGED <<procs, last, btpower, mixer, files, log, copy, runs, late, verdict, replies>>
  BY DEF Return, machine, Main
<1>2. log' \in Nat
  BY <1>1 DEF MachineInv, TypesOK
<1> QED
  BY <1>1, <1>2, Rests

\* Every step of a process leaves the screen alone or shows a text on the view.
LEMMA ScreenWorks ==
  ASSUME MachineInv, UiInv, PaintInv, NEW i \in Pids,
         Works(i) \/ Key(i) \/ Steals(i) \/ excute_request(i)
  PROVE  UiInv' /\ PaintInv'
<1>1. /\ UNCHANGED <<board, suite, test, fed>> /\ at' \in {at, "exited"} /\ blocked' \in BOOLEAN
      /\ procs[i].prog # <<>>
      /\ \/ UNCHANGED <<ui, drawn>>
         \/ at' = at /\ blocked' = blocked /\ \E text \in {"ON", "Fail", "PASS", "FAIL"} : Shows(i, text)
         \/ at' = at /\ blocked' = blocked /\ Shows(i, Step(i).arg)
  <2>0. blocked \in BOOLEAN
    BY DEF UiInv
  <2>1. CASE Fork(i) \/ Path(i) \/ Countdown(i) \/ Power(i) \/ Kill(i) \/ Copy(i) \/ Bind(i)
    BY <2>0, <2>1 DEF Fork, Path, Countdown, Power, Kill, Copy, Bind, control, history, Does
  <2>2. CASE Key(i) \/ Steals(i) \/ excute_request(i) \/ Respond(i) \/ File(i)
    BY <2>0, <2>2 DEF Key, Steals, excute_request, Respond, File, control, history, Does
  <2>3. CASE Block(i)
    BY <2>0, <2>3 DEF Block, control, Does
  <2>4. CASE Text(i)
    BY <2>0, <2>4 DEF Text, control, Does
  <2>5. CASE Set(i)
    BY <2>0, <2>5 DEF Set, control, Does
  <2>6. CASE Need(i)
    BY <2>0, <2>6 DEF Need, control, Does
  <2>7. CASE Judge(i)
    <3>1. \E text \in {"ON", "Fail", "PASS", "FAIL"} : Shows(i, text)
      BY <2>7 DEF Judge
    <3> QED
      BY <3>1, <2>0, <2>7 DEF Judge, control, Does
  <2> QED
    BY <2>1, <2>2, <2>3, <2>4, <2>5, <2>6, <2>7 DEF Works
<1>2. at # "exited" \/ i # 1
  BY <1>1 DEF MachineInv, ProcsOK, Main
<1>3. Step(i).arg \in Labels
  <2>1. procs[i].prog \in Seq(AnyStep)
    BY DEF MachineInv, ProcsOK, Process
  <2>2. Step(i) \in AnyStep
    BY <2>1, <1>1 DEF Step
  <2> QED
    BY <2>2 DEF AnyStep, Labels
<1>4. {"ON", "Fail", "PASS", "FAIL"} \subseteq Labels
  BY DEF Labels, Args, Texts
<1>5. CASE UNCHANGED <<ui, drawn>>
  BY <1>1, <1>5, ScreenStays
<1>6. CASE at' = at /\ blocked' = blocked /\ \E text \in {"ON", "Fail", "PASS", "FAIL"} : Shows(i, text)
  BY <1>1, <1>2, <1>4, <1>6, ScreenShows
<1>7. CASE at' = at /\ blocked' = blocked /\ Shows(i, Step(i).arg)
  BY <1>1, <1>2, <1>3, <1>7, ScreenShows
<1> QED
  BY <1>1, <1>5, <1>6, <1>7

\* A finger changes nothing on the screen.
LEMMA ScreenTouched == ASSUME UiInv, PaintInv, NEW p \in Touchable, Touch(p) PROVE UiInv' /\ PaintInv'
BY ScreenStays DEF Touch, control, UiInv

\* The program ends with the screen as it is.
LEMMA ScreenExits == ASSUME UiInv, PaintInv, Exit PROVE UiInv' /\ PaintInv'
BY ScreenStays DEF Exit, history, UiInv

\* A signal changes nothing on the screen.
LEMMA ScreenSignals == ASSUME UiInv, PaintInv, Signal PROVE UiInv' /\ PaintInv'
<1>1. /\ ui' = [ui EXCEPT !.abort = TRUE]
      /\ UNCHANGED <<board, suite, test, fed, at, drawn, blocked>>
  BY DEF Signal, control, history
<1>2. ui \in Ui /\ drawn \in BOOLEAN /\ blocked \in BOOLEAN
  BY DEF UiInv, Built
<1>3. /\ ui' \in Ui /\ ui'.button = ui.button /\ ui'.depressed = ui.depressed
      /\ ui'.invalid = ui.invalid /\ ui'.screen = ui.screen
  BY <1>1, <1>2 DEF Ui
<1> QED
  BY <1>1, <1>2, <1>3, ScreenSame

\* The touch screen holds samples.
LEMMA FingerTouched ==
  ASSUME UiInv, FingerOK, NEW p \in Touchable, Touch(p)
  PROVE  FingerOK'
<1> DEFINE s == [p |-> p, down |-> ~ down, when |-> at, seen |-> ui.screen[p][1]]
<1>1. samples' = Append(samples, s) /\ down' = ~ down /\ at \in {"loop", "popup", "run"}
  BY DEF Touch
<1>2. p \in Points
  BY StationAssumption
<1>3. ui.screen[p][1] \in Nat
  <2>1. ui.screen \in [Points -> Pixel]
    BY DEF UiInv, Built, Ui
  <2> QED
    BY <2>1, <1>2 DEF Pixel
<1>4. s \in Sample
  <2> DEFINE seen == ui.screen[p][1]
             up == ~ down
             when == at
  <2>1. seen \in Nat /\ up \in BOOLEAN /\ when \in {"loop", "popup", "run"}
    BY <1>1, <1>3
  <2>2. s = [p |-> p, down |-> up, when |-> when, seen |-> seen]
    OBVIOUS
  <2> HIDE DEF seen, up, when, s
  <2> QED
    BY <2>1, <2>2, <1>2 DEF Sample
<1> HIDE DEF s
<1>5. samples \in Seq(Sample) /\ down' \in BOOLEAN
  BY <1>1 DEF FingerOK
<1>6. samples' \in Seq(Sample)
  BY <1>1, <1>4, <1>5
<1> QED
  BY <1>5, <1>6 DEF FingerOK

\* What the touch screen holds is a sequence of samples, and a part of it is left.
LEMMA FingerStays ==
  ASSUME FingerOK, down' = down,
         samples' = samples \/ samples' = <<>> \/ (samples # <<>> /\ samples' = Tail(samples))
  PROVE  FingerOK'
<1>1. samples \in Seq(Sample) /\ down \in BOOLEAN
  BY DEF FingerOK
<1>2. samples # <<>> => Tail(samples) \in Seq(Sample)
  BY <1>1
<1>3. <<>> \in Seq(Sample)
  OBVIOUS
<1>4. samples' \in Seq(Sample)
  BY <1>1, <1>2, <1>3
<1> QED
  BY <1>1, <1>4 DEF FingerOK

\* Everything that holds of the station.
StationInv == MachineInv /\ UiInv /\ PaintInv /\ FingerOK

\* Every step keeps the machine, the screen and the samples in order.
LEMMA StationStays ==
  ASSUME StationInv, [Next]_vars
  PROVE  StationInv'
<1>0. MachineInv /\ UiInv /\ PaintInv /\ FingerOK
  BY DEF StationInv
<1>1. ASSUME NEW p \in Touchable, Touch(p) PROVE StationInv'
  <2>1. MachineInv'
    BY <1>0, <1>1, MachineStays DEF Touch, control, machine
  <2> QED
    BY <2>1, <1>0, <1>1, ScreenTouched, FingerTouched DEF StationInv
<1>2. CASE Feed
  <2>1. FingerOK'
    BY <1>0, <1>2, FingerStays DEF Feed
  <2> QED
    BY <2>1, <1>0, <1>2, MachineFeeds, ScreenFeeds DEF StationInv
<1>3. CASE Choose
  <2>1. FingerOK'
    BY <1>0, <1>3, FingerStays DEF Choose
  <2> QED
    BY <2>1, <1>0, <1>3, MachineChooses, ScreenChooses DEF StationInv
<1>4. CASE Signal
  <2>1. MachineInv'
    BY <1>0, <1>4, MachineStays DEF Signal, control, machine, history
  <2>2. FingerOK'
    BY <1>0, <1>4, FingerStays DEF Signal, finger
  <2> QED
    BY <2>1, <2>2, <1>0, <1>4, ScreenSignals DEF StationInv
<1>5. CASE Exit
  <2>1. FingerOK'
    BY <1>0, <1>5, FingerStays DEF Exit, finger
  <2> QED
    BY <2>1, <1>0, <1>5, Exits, ScreenExits DEF StationInv
<1>6. CASE Return
  <2>1. FingerOK'
    BY <1>0, <1>6, FingerStays DEF Return, finger
  <2> QED
    BY <2>1, <1>0, <1>6, MachineReturns, ScreenReturns DEF StationInv
<1>7. ASSUME NEW i \in Pids, Works(i) \/ Key(i) \/ Steals(i) \/ excute_request(i) PROVE StationInv'
  <2>1. MachineInv'
    BY <1>0, <1>7, MainWorks, ChildWorks
  <2>2. FingerOK'
    <3>1. down' = down /\ (samples' = samples \/ samples' = <<>>)
      BY <1>7 DEF Works, Key, Steals, excute_request, Fork, Path, Countdown, Block, Text, Set,
         Power, File, Need, Kill, Judge, Copy, Bind, Respond, finger, Drained
    <3> QED
      BY <3>1, <1>0, FingerStays
  <2> QED
    BY <2>1, <2>2, <1>0, <1>7, ScreenWorks DEF StationInv
<1>8. CASE UNCHANGED vars
  <2>1. MachineInv'
    BY <1>0, <1>8, MachineStays DEF vars, control, machine, history
  <2>2. FingerOK'
    BY <1>0, <1>8, FingerStays DEF vars, finger
  <2>3. UiInv' /\ PaintInv'
    BY <1>0, <1>8, ScreenStays DEF vars, control, history, UiInv
  <2> QED
    BY <2>1, <2>2, <2>3 DEF StationInv
<1> QED
  BY <1>1, <1>2, <1>3, <1>4, <1>5, <1>6, <1>7, <1>8 DEF Next
-----------------------------------------------------------------------------
(***************************************************************************)
(* What main, setup_check and setup_popup build.                           *)
(***************************************************************************)
\* A new button, and what is added.
LEMMA NewIs ==
  ASSUME NEW r \in Rects, NEW face, NEW cb \in Callbacks
  PROVE  LET b == NewButton(r, face, cb)
         IN  /\ face \in Faces => b \in Named
             /\ face \in Labels => b \in Button
             /\ b.rect = r /\ b.face = face /\ b.cb = cb /\ b.update /\ ~ b.active /\ ~ b.show /\ b.sensitive
BY DEF NewButton, Named, Button

\* Buttons with a name are buttons.
LEMMA NamedIs == Named \subseteq Button /\ Seq(Named) \subseteq Seq(Button)
<1>1. Faces \subseteq Labels
  BY DEF Labels
<1>2. Named \subseteq Button
  BY <1>1 DEF Named, Button
<1> QED
  BY <1>2

\* Where the suites put their buttons.
LEMMA AddSuitesIs ==
  ASSUME board \in Boards, NEW u \in Ui, u.button \in Seq(Named), Len(u.button) = FirstOf(1)
  PROVE  LET v == AddSuites(u, board)
         IN  /\ v \in Ui /\ v.button \in Seq(Named) /\ Len(v.button) = FirstOf(Len(board) + 1)
             /\ v.depressed = u.depressed /\ v.screen = u.screen
             /\ \A k \in 1 .. Len(u.button) : v.button[k] = u.button[k]
             /\ \A s \in 1 .. Len(board) : \A t \in 1 .. Len(board[s]) :
                  v.button[FirstOf(s) + t].face = board[s][t]
             /\ \A k \in 5 .. Len(v.button) :
                  /\ v.button[k].cb = "test" /\ v.button[k].update /\ ~ v.button[k].active
                  /\ ~ v.button[k].show /\ v.button[k].sensitive
<1> DEFINE n == Len(board)
           new(s) == [t \in DOMAIN board[s] |-> NewButton(Layout.test[t], board[s][t], "test")]
           step == [s \in DOMAIN board |-> [bs \in Seq(Named) |-> bs \o new(s)]]
           f == Iterates(step, u.button)
           v == AddSuites(u, board)
           kind == "test"
           Plain(b) == b.cb = kind /\ b.update /\ ~ b.active /\ ~ b.show /\ b.sensitive
<1>1. /\ n \in Nat /\ DOMAIN board = 1 .. n
      /\ \A s \in 1 .. n : /\ board[s] \in Seq(DOMAIN TestFunctions) /\ Len(board[s]) \in Nat
                           /\ Len(board[s]) <= Len(Layout.test) /\ DOMAIN board[s] = 1 .. Len(board[s])
      /\ FirstOf(1) = 4 /\ \A s \in 1 .. n : FirstOf(s + 1) = FirstOf(s) + Len(board[s])
      /\ \A s \in 1 .. n + 1 : FirstOf(s) \in Nat /\ FirstOf(s) >= 4
  BY BoardIs, FirstIs
<1>2. ASSUME NEW s \in 1 .. n
      PROVE  /\ new(s) \in Seq(Named) /\ Len(new(s)) = Len(board[s])
             /\ \A t \in 1 .. Len(board[s]) : new(s)[t].face = board[s][t] /\ Plain(new(s)[t])
  <2>1. Layout.test \in Seq(Rects)
    BY StationAssumption
  <2>2. ASSUME NEW t \in 1 .. Len(board[s])
        PROVE  LET b == NewButton(Layout.test[t], board[s][t], kind)
               IN  b \in Named /\ b.face = board[s][t] /\ Plain(b)
    <3> DEFINE r == Layout.test[t]
               face == board[s][t]
    <3>1. r \in Rects
      BY <2>1, <1>1
    <3>2. face \in Faces
      <4>1. face \in DOMAIN TestFunctions
        BY <1>1
      <4> QED
        BY <4>1 DEF Faces
    <3>3. kind \in Callbacks
      BY DEF Callbacks
    <3> HIDE DEF r, face, kind
    <3> QED
      BY <3>1, <3>2, <3>3, NewIs DEF r, face
  <2>3. new(s) = [t \in 1 .. Len(board[s]) |-> NewButton(Layout.test[t], board[s][t], kind)]
    BY <1>1
  <2> HIDE DEF new, kind
  <2>4. \A t \in 1 .. Len(board[s]) : /\ new(s)[t] \in Named /\ new(s)[t].face = board[s][t]
                                      /\ Plain(new(s)[t])
    BY <2>2, <2>3
  <2> HIDE DEF Plain
  <2>5. new(s) \in Seq(Named) /\ Len(new(s)) = Len(board[s])
    BY <2>3, <2>4, <1>1
  <2> QED
    BY <2>4, <2>5
<1>3. v = [u EXCEPT !.button = f[n]]
  BY DEF AddSuites, Ui
<1>4. /\ DOMAIN step = 1 .. n
      /\ \A s \in 1 .. n : step[s] = [bs \in Seq(Named) |-> bs \o new(s)]
  <2> HIDE DEF new
  <2> QED
    BY <1>1
<1> HIDE DEF n, new, kind, Plain, v
<1>5. ASSUME NEW s \in 1 .. n
      PROVE  step[s] \in [Seq(Named) -> Seq(Named)] /\ \A bs \in Seq(Named) : step[s][bs] = bs \o new(s)
  <2>1. \A bs \in Seq(Named) : bs \o new(s) \in Seq(Named)
    BY <1>2
  <2> HIDE DEF step
  <2> QED
    BY <2>1, <1>4
<1>6. step \in Seq([Seq(Named) -> Seq(Named)]) /\ Len(step) = n
  <2> DEFINE Funs == [Seq(Named) -> Seq(Named)]
  <2>1. step = [s \in 1 .. n |-> step[s]] /\ n \in Nat
    BY <1>1
  <2>2. \A s \in 1 .. n : step[s] \in Funs
    BY <1>5
  <2> HIDE DEF step, Funs
  <2>3. step \in Seq(Funs) /\ Len(step) = n
    BY <2>1, <2>2
  <2> QED
    BY <2>3 DEF Funs
<1> HIDE DEF step
<1> DEFINE x == u.button
<1>7. f \in [0 .. n -> Seq(Named)] /\ Ran(f, step, x)
  <2>1. f = Iterates(step, x) /\ x \in Seq(Named)
    OBVIOUS
  <2> HIDE DEF f, x
  <2>2. Iterates(step, x) \in [0 .. Len(step) -> Seq(Named)] /\ Ran(Iterates(step, x), step, x)
    BY <2>1, <1>6, IteratesStep
  <2> QED
    BY <2>1, <2>2, <1>6
<1> HIDE DEF f
<1>8. f[0] = u.button /\ \A i \in 1 .. n : f[i] = step[i][f[i - 1]]
  BY <1>6, <1>7 DEF Ran
<1> DEFINE J(i) == /\ Len(f[i]) = FirstOf(i + 1)
                   /\ \A k \in 1 .. Len(x) : f[i][k] = x[k]
                   /\ \A s \in 1 .. i : \A t \in 1 .. Len(board[s]) :
                        FirstOf(s) + t <= Len(f[i]) /\ f[i][FirstOf(s) + t].face = board[s][t]
                   /\ \A k \in 5 .. Len(f[i]) : Plain(f[i][k])
<1>9. ASSUME NEW i \in 0 .. n PROVE J(i)
  <2> DEFINE Bad == {k \in Nat : k <= n /\ ~ J(k)}
  <2>0. J(0)
    BY <1>1, <1>8
  <2>1. ASSUME Bad # {} PROVE FALSE
    <3>1. PICK k \in Bad : \A j \in Bad : k <= j
      BY <2>1, LeastNat
    <3> HIDE DEF J
    <3>2. k # 0 /\ k \in 1 .. n /\ k - 1 \in Nat /\ k - 1 <= n /\ k - 1 + 1 = k /\ k \in 1 .. n + 1
      BY <3>1, <2>0, <1>1
    <3>3. J(k - 1)
      BY <3>1, <3>2
    <3> DEFINE a == f[k - 1]
               b == new(k)
               m == FirstOf(k)
               l == Len(board[k])
    <3>4. /\ a \in Seq(Named) /\ f[k] = a \o b /\ b \in Seq(Named) /\ Len(b) = l
          /\ Len(a) = m /\ m \in Nat /\ m >= 4 /\ l \in Nat /\ FirstOf(k + 1) = m + l
          /\ \A j \in 1 .. Len(x) : a[j] = x[j]
          /\ \A s \in 1 .. k - 1 : \A t \in 1 .. Len(board[s]) :
               FirstOf(s) + t <= m /\ a[FirstOf(s) + t].face = board[s][t]
          /\ \A j \in 5 .. m : Plain(a[j])
          /\ \A t \in 1 .. l : b[t].face = board[k][t] /\ Plain(b[t])
          /\ Len(x) = 4
      <4>1. k - 1 \in 0 .. n
        BY <3>2, <1>1
      <4>2. a \in Seq(Named) /\ f[k] = a \o b
        BY <4>1, <3>2, <1>5, <1>7, <1>8
      <4>3. b \in Seq(Named) /\ Len(b) = l /\ \A t \in 1 .. l : b[t].face = board[k][t] /\ Plain(b[t])
        BY <3>2, <1>2
      <4>4. /\ Len(a) = m /\ \A j \in 1 .. Len(x) : a[j] = x[j]
            /\ \A s \in 1 .. k - 1 : \A t \in 1 .. Len(board[s]) :
                 FirstOf(s) + t <= m /\ a[FirstOf(s) + t].face = board[s][t]
            /\ \A j \in 5 .. m : Plain(a[j])
        BY <3>2, <3>3 DEF J
      <4>5. m \in Nat /\ m >= 4 /\ l \in Nat /\ FirstOf(k + 1) = m + l /\ Len(x) = 4
        BY <3>2, <1>1
      <4> QED
        BY <4>2, <4>3, <4>4, <4>5
    <3> HIDE DEF a, b, m, l, x
    <3>a. /\ a \in Seq(Named) /\ f[k] = a \o b /\ b \in Seq(Named) /\ Len(b) = l
          /\ Len(a) = m /\ m \in Nat /\ l \in Nat
      BY <3>4
    <3>5. Len(f[k]) = m + l /\ \A j \in 1 .. m : f[k][j] = a[j]
      <4>1. Len(f[k]) = m + l
        <5> DEFINE c == a \o b
        <5>0. a \in Seq(Named) /\ b \in Seq(Named)
          BY <3>a
        <5>1. Len(c) = Len(a) + Len(b)
          BY <5>0
        <5>2. f[k] = c
          BY <3>a
        <5> HIDE DEF c
        <5> QED
          BY <5>1, <5>2, <3>a
      <4>2. ASSUME NEW j \in 1 .. m PROVE f[k][j] = a[j]
        <5>1. j \in 1 .. Len(a) /\ (a \o b)[j] = a[j]
          BY <3>a
        <5> QED
          BY <5>1, <3>a
      <4> QED
        BY <4>1, <4>2
    <3>6. \A t \in 1 .. l : f[k][m + t] = b[t]
      <4> DEFINE c == a \o b
      <4>1. /\ Len(c) = Len(a) + Len(b)
            /\ \A j \in 1 .. Len(a) + Len(b) : c[j] = IF j <= Len(a) THEN a[j] ELSE b[j - Len(a)]
        <5>1. a \in Seq(Named) /\ b \in Seq(Named)
          BY <3>a
        <5> QED
          BY <5>1, ConcatProperties
      <4>2. f[k] = c /\ Len(a) = m /\ Len(b) = l /\ m \in Nat /\ l \in Nat
        BY <3>a
      <4> HIDE DEF c
      <4>3. ASSUME NEW t \in 1 .. l
            PROVE  /\ m + t \in 1 .. m + l /\ ~ (m + t <= m) /\ m + t - m = t
        BY <4>2
      <4> QED
        BY <4>1, <4>2, <4>3
    <3>7. \A j \in 1 .. Len(x) : f[k][j] = x[j]
      BY <3>4, <3>5
    <3>8. ASSUME NEW s \in 1 .. k, NEW t \in 1 .. Len(board[s])
          PROVE  FirstOf(s) + t <= Len(f[k]) /\ f[k][FirstOf(s) + t].face = board[s][t]
      <4>1. s \in 1 .. n + 1 /\ s \in 1 .. n /\ t \in Nat /\ t >= 1
        <5>1. s \in 1 .. n /\ s \in 1 .. n + 1
          BY <3>2, <1>1
        <5>2. t \in Nat /\ t >= 1
          OBVIOUS
        <5> QED
          BY <5>1, <5>2
      <4>2. FirstOf(s) \in Nat
        BY <4>1, <1>1
      <4>3. CASE s = k
        <5>1. t \in 1 .. l /\ FirstOf(s) = m
          BY <4>3 DEF m, l
        <5>2. f[k][m + t] = b[t] /\ b[t].face = board[k][t] /\ m + t <= m + l
          <6>1. m + t <= m + l
            BY <5>1, <3>a
          <6>2. b[t].face = board[k][t]
            BY <5>1, <3>4
          <6> QED
            BY <5>1, <6>1, <6>2, <3>6
        <5> QED
          BY <5>1, <5>2, <4>3, <3>5
      <4>4. CASE s # k
        <5>1. s \in 1 .. k - 1
          BY <4>4, <3>2
        <5>2. FirstOf(s) + t \in 1 .. m /\ a[FirstOf(s) + t].face = board[s][t]
          <6>1. FirstOf(s) + t <= m /\ a[FirstOf(s) + t].face = board[s][t]
            BY <5>1, <3>4
          <6>2. m \in Nat
            BY <3>a
          <6>3. FirstOf(s) + t \in 1 .. m
            BY <6>1, <6>2, <4>1, <4>2
          <6> QED
            BY <6>1, <6>3
        <5>3. f[k][FirstOf(s) + t] = a[FirstOf(s) + t]
          BY <5>2, <3>5
        <5> QED
          BY <5>2, <5>3, <3>4, <3>5
      <4> QED
        BY <4>3, <4>4
    <3>9. ASSUME NEW j \in 5 .. Len(f[k]) PROVE Plain(f[k][j])
      <4>1. CASE j <= m
        BY <4>1, <3>4, <3>5
      <4>2. CASE j > m
        <5>1. j - m \in 1 .. l /\ m + (j - m) = j
          BY <4>2, <3>4, <3>5
        <5>2. f[k][j] = b[j - m]
          BY <5>1, <3>6
        <5> QED
          BY <5>1, <5>2, <3>4
      <4> QED
        BY <4>1, <4>2, <3>4, <3>5
    <3>10. J(k)
      BY <3>4, <3>5, <3>7, <3>8, <3>9 DEF J
    <3> QED
      BY <3>1, <3>10
  <2> HIDE DEF J
  <2>2. i \in Nat /\ i <= n
    BY <1>1
  <2> QED
    BY <2>1, <2>2
<1>10. J(n) /\ f[n] \in Seq(Named)
  BY <1>1, <1>7, <1>9
<1>11. /\ v \in Ui /\ v.button = f[n] /\ v.depressed = u.depressed /\ v.screen = u.screen
  <2>1. f[n] \in Seq(Button)
    BY <1>10, NamedIs
  <2> QED
    BY <2>1, <1>3 DEF Ui
<1> QED
  BY <1>10, <1>11 DEF v, Plain, kind, n

\* The callback of every button, and what holds of the first n of them while they
\* are set up.
Callback(b) ==
  IF b = Pass THEN "pass" ELSE IF b = Fail THEN "fail" ELSE IF b \in {View, Quit, Dialog} THEN "none"
  ELSE IF b = Popup THEN "popup" ELSE IF b > Dialog THEN "popdown" ELSE "test"
Fits(b, k, shown) ==
  /\ b.update /\ ~ b.active /\ b.cb = Callback(k)
  /\ b.sensitive <=> k \notin {View, Dialog}
  /\ b.show <=> k \in shown
Holds(u, n, shown) ==
  /\ u \in Ui /\ Len(u.button) = n /\ u.depressed = 0 /\ u.screen = [p \in Points |-> Background]
  /\ \A k \in 1 .. n : Fits(u.button[k], k, shown)
Faced(u) ==
  \A s \in 1 .. Len(board) : \A t \in 1 .. Len(board[s]) : u.button[FirstOf(s) + t].face = board[s][t]
NamesKept(v, u) == u.button \in Seq(Named) => v.button \in Seq(Named)
Extends(v, u) == \A k \in 1 .. Len(u.button) : v.button[k].face = u.button[k].face

\* One more button.
LEMMA AppendHolds ==
  ASSUME NEW u, NEW n \in Nat, NEW shown, Holds(u, n, shown), NEW b \in Button,
         Fits(b, n + 1, shown),
         NEW v, v = [u EXCEPT !.button = Append(u.button, b)]
  PROVE  Holds(v, n + 1, shown) /\ Extends(v, u) /\ (b \in Named => NamesKept(v, u))
<1>1. u \in Ui /\ u.button \in Seq(Button) /\ Len(u.button) = n
  BY UiIs DEF Holds
<1> DEFINE bs == Append(u.button, b)
<1>2. /\ bs \in Seq(Button) /\ Len(bs) = n + 1 /\ bs[n + 1] = b
      /\ \A k \in 1 .. n : bs[k] = u.button[k]
  BY <1>1
<1>3. u.button \in Seq(Named) /\ b \in Named => bs \in Seq(Named)
  OBVIOUS
<1> HIDE DEF bs
<1>4. /\ v \in Ui /\ v.button = bs /\ v.depressed = u.depressed /\ v.screen = u.screen
  BY <1>1, <1>2 DEF Ui, bs
<1>5. \A k \in 1 .. n + 1 : k = n + 1 \/ k \in 1 .. n
  OBVIOUS
<1> QED
  BY <1>1, <1>2, <1>3, <1>4, <1>5 DEF Holds, Extends, NamesKept

\* A button that oltk_button_add adds.
LEMMA AddHolds ==
  ASSUME NEW u, NEW n \in Nat, NEW shown, Holds(u, n, shown), NEW r \in Rects, NEW face \in Faces,
         NEW cb, cb = Callback(n + 1), n + 1 \notin {View, Dialog}, n + 1 \notin shown
  PROVE  LET v == oltk_button_add(u, r, face, cb)
         IN  Holds(v, n + 1, shown) /\ Extends(v, u) /\ NamesKept(v, u)
<1> DEFINE b == NewButton(r, face, cb)
           v == oltk_button_add(u, r, face, cb)
<1>1. cb \in Callbacks
  BY DEF Callback, Callbacks
<1>2. b \in Named /\ b.cb = cb /\ b.update /\ ~ b.active /\ ~ b.show /\ b.sensitive
  BY <1>1, NewIs
<1>3. v = [u EXCEPT !.button = Append(u.button, b)]
  <2>1. u \in Ui
    BY DEF Holds
  <2> HIDE DEF b
  <2> QED
    BY <2>1 DEF oltk_button_add, Ui, b
<1> HIDE DEF b, v
<1>4. Fits(b, n + 1, shown)
  BY <1>2 DEF Fits
<1>5. b \in Button
  BY <1>2, NamedIs
<1>6. Holds(v, n + 1, shown) /\ Extends(v, u) /\ (b \in Named => NamesKept(v, u))
  BY <1>3, <1>4, <1>5, AppendHolds
<1> QED
  BY <1>2, <1>6 DEF v

\* Several buttons shown or hidden.
LEMMA ShowAllHolds ==
  ASSUME NEW u, NEW n \in Nat, NEW shown, Holds(u, n, shown), NEW bs, bs \subseteq 1 .. n
  PROVE  LET v == ShowAll(u, bs, TRUE)
         IN  /\ Holds(v, n, shown \cup bs) /\ Extends(v, u)
             /\ NamesKept(v, u)
<1> DEFINE yes == TRUE
           v == ShowAll(u, bs, yes)
<1>1. u \in Ui /\ Len(u.button) = n /\ bs \subseteq 1 .. Len(u.button) /\ yes \in BOOLEAN
  BY DEF Holds
<1> HIDE DEF yes
<1>2. Changes(v, u) /\ Kept_active(v, u) /\ Shifted(v, u, bs, yes)
  BY <1>1, ShowAllIs
<1>v. v = ShowAll(u, bs, TRUE)
  BY DEF yes
<1> HIDE DEF v
<1>3. v \in Ui /\ Len(v.button) = n /\ v.depressed = 0 /\ v.screen = [p \in Points |-> Background]
  BY <1>1, <1>2 DEF Changes, Shifted, Holds
<1>4. ASSUME NEW k \in 1 .. n PROVE Fits(v.button[k], k, shown \cup bs)
  <2>1. Fits(u.button[k], k, shown)
    BY DEF Holds
  <2>2. /\ v.button[k].cb = u.button[k].cb /\ v.button[k].sensitive = u.button[k].sensitive
        /\ v.button[k].active = u.button[k].active /\ v.button[k].update
        /\ v.button[k].show = IF k \in bs THEN yes ELSE u.button[k].show
    BY <2>1, <1>1, <1>2 DEF Changes, Kept_active, Shifted, Fits
  <2> QED
    BY <2>1, <2>2 DEF Fits, yes
<1>5. Extends(v, u)
  BY <1>2 DEF Extends, Shifted
<1>6. ASSUME u.button \in Seq(Named) PROVE v.button \in Seq(Named)
  <2>1. ASSUME NEW k \in 1 .. n PROVE v.button[k] \in Named
    <3>1. v.button[k] \in Button
      BY <1>3, UiIs
    <3>2. u.button[k] \in Named
      BY <1>1, <1>6
    <3>3. v.button[k].face \in Faces
      BY <3>2, <1>1, <1>5 DEF Extends, Named
    <3> DEFINE b == v.button[k]
    <3>4. b \in Button /\ b.face \in Faces
      BY <3>1, <3>3
    <3> HIDE DEF b
    <3>5. b \in Named
      BY <3>4 DEF Button, Named
    <3> QED
      BY <3>5 DEF b
  <2>2. v.button \in Seq(Button)
    BY <1>3, UiIs
  <2> QED
    BY <2>1, <2>2, <1>3
<1> QED
  BY <1>3, <1>4, <1>5, <1>6, <1>v DEF Holds, NamesKept

\* A button that is given a name.
LEMMA SetNameHolds ==
  ASSUME NEW u, NEW n \in Nat, NEW shown, Holds(u, n, shown), NEW b \in 1 .. n, b \in {View, Popup},
         NEW face \in Labels
  PROVE  Holds(oltk_button_set_name(u, b, face), n, shown)
<1> DEFINE v == oltk_button_set_name(u, b, face)
<1>1. u \in Ui /\ Len(u.button) = n /\ b \in 1 .. Len(u.button)
  BY DEF Holds
<1>2. /\ Changes(v, u) /\ Alike(v, u) /\ Kept_active(v, u) /\ v.depressed = u.depressed
  BY <1>1, SetNameIs
<1> HIDE DEF v
<1>3. v \in Ui /\ Len(v.button) = n /\ v.depressed = 0 /\ v.screen = [p \in Points |-> Background]
  BY <1>1, <1>2 DEF Changes, Holds
<1>4. ASSUME NEW k \in 1 .. n PROVE Fits(v.button[k], k, shown)
  <2>1. Fits(u.button[k], k, shown)
    BY DEF Holds
  <2>2. /\ v.button[k].cb = u.button[k].cb /\ v.button[k].sensitive = u.button[k].sensitive
        /\ v.button[k].active = u.button[k].active /\ v.button[k].update
        /\ v.button[k].show = u.button[k].show
    BY <2>1, <1>1, <1>2 DEF Changes, Kept_active, Alike, Fits
  <2> QED
    BY <2>1, <2>2 DEF Fits
<1> QED
  BY <1>3, <1>4 DEF Holds, v

\* oltk_button_show, as the loop that shows some buttons does it.
LEMMA ShowHolds ==
  ASSUME NEW u, NEW n \in Nat, NEW shown, Holds(u, n, shown), NEW b \in 1 .. n, b \notin shown
  PROVE  LET v == oltk_button_show(u, b, TRUE)
         IN  /\ Holds(v, n, shown \cup {b}) /\ Extends(v, u)
             /\ NamesKept(v, u)
<1> DEFINE old == u.button[b]
           new == [[old EXCEPT !.show = TRUE] EXCEPT !.update = TRUE]
           bs == [u.button EXCEPT ![b] = new]
           v == oltk_button_show(u, b, TRUE)
<1>1. u \in Ui /\ Len(u.button) = n /\ b \in 1 .. Len(u.button)
  BY DEF Holds
<1>2. old \in Button /\ u.button \in Seq(Button) /\ u.button = [k \in 1 .. n |-> u.button[k]]
  BY <1>1, UiIs
<1>3. Fits(old, b, shown)
  BY DEF Holds
<1>4. v = [u EXCEPT !.button = bs]
  <2>1. old.show # TRUE
    BY <1>3 DEF Fits
  <2>2. v = [u EXCEPT !.button[b].show = TRUE, !.button[b].update = TRUE, !.invalid = u.invalid]
    BY <2>1, <1>1 DEF oltk_button_show, Ui
  <2> HIDE DEF old, new, bs
  <2>3. /\ old = u.button[b] /\ bs = [u.button EXCEPT ![b] = new]
        /\ new = [[old EXCEPT !.show = TRUE] EXCEPT !.update = TRUE]
    BY DEF old, new, bs
  <2> DEFINE one == [old EXCEPT !.show = TRUE]
             bs1 == [u.button EXCEPT ![b] = one]
  <2>4. bs1[b] = one /\ [bs1 EXCEPT ![b] = new] = bs
    BY <2>3, <1>1, <1>2
  <2>5. v = [[[u EXCEPT !.button = bs1] EXCEPT !.button = [bs1 EXCEPT ![b] = new]]
               EXCEPT !.invalid = u.invalid]
    BY <2>2, <2>3, <2>4, <1>1 DEF Ui
  <2> HIDE DEF bs1, v
  <2> QED
    BY <2>4, <2>5, <1>1 DEF Ui
<1>5. /\ new \in Button /\ new.face = old.face /\ new.update /\ new.show
      /\ new.sensitive = old.sensitive /\ new.active = old.active /\ new.cb = old.cb
      /\ old \in Named => new \in Named
  <2> HIDE DEF old
  <2> QED
    BY <1>2 DEF Button, Named
<1> HIDE DEF new, old, v
<1>6. bs \in Seq(Button) /\ Len(bs) = n /\ bs[b] = new /\ \A k \in 1 .. n : k # b => bs[k] = u.button[k]
  BY <1>1, <1>2, <1>5
<1>7. ASSUME u.button \in Seq(Named) PROVE bs \in Seq(Named)
  <2>1. new \in Named
    BY <1>1, <1>5, <1>7 DEF old
  <2>2. /\ \A k \in 1 .. n : bs[k] \in Named
        /\ bs = [k \in 1 .. n |-> bs[k]]
    <3> HIDE DEF bs
    <3>1. bs = [k \in 1 .. n |-> bs[k]]
      BY <1>6
    <3>2. ASSUME NEW k \in 1 .. n PROVE bs[k] \in Named
      BY <2>1, <1>1, <1>6, <1>7
    <3> QED
      BY <3>1, <3>2
  <2> HIDE DEF bs
  <2> QED
    BY <2>2, <1>1, <1>6
<1> HIDE DEF bs
<1>8. v \in Ui /\ v.button = bs /\ v.depressed = u.depressed /\ v.screen = u.screen
  BY <1>1, <1>4, <1>6 DEF Ui
<1>9. Fits(new, b, shown \cup {b})
  BY <1>3, <1>5 DEF Fits
<1>10. \A k \in 1 .. n : k # b => Fits(bs[k], k, shown \cup {b})
  BY <1>6 DEF Holds, Fits
<1>11. Extends(v, u)
  BY <1>1, <1>5, <1>6, <1>8 DEF Extends, old
<1> QED
  BY <1>6, <1>7, <1>8, <1>9, <1>10, <1>11 DEF Holds, NamesKept, v

\* The view comes first.
LEMMA ViewHolds ==
  ASSUME NEW r \in Rects
  PROVE  LET v == oltk_view_add(oltk_new, r)
         IN  Holds(v, 1, {View}) /\ v.button \in Seq(Named)
<1> DEFINE none == {}
           zero == 0
           one  == 1
           b == NewButton(r, "none", "none")
           c == [b EXCEPT !.sensitive = FALSE]
           u == [oltk_new EXCEPT !.button = Append(oltk_new.button, c)]
           v == oltk_button_show(u, one, TRUE)
<1>1. oltk_new \in Ui
  <2>1. Empty \in Rects /\ [p \in Points |-> Background] \in [Points -> Pixel]
    <3>1. Empty \in Rects
      BY DEF Empty, Rects
    <3>2. Background \in Pixel
      BY DEF Background, Pixel, Labels, Faces
    <3> QED
      BY <3>1, <3>2
  <2>2. <<>> \in Seq(Button)
    OBVIOUS
  <2> DEFINE s == [p \in Points |-> Background]
  <2>3. /\ s \in [Points -> Pixel]
        /\ oltk_new = [button |-> <<>>, depressed |-> 0, invalid |-> Empty, screen |-> s,
                       abort |-> FALSE]
    BY <2>1 DEF oltk_new
  <2> HIDE DEF s
  <2> QED
    BY <2>1, <2>2, <2>3 DEF Ui
<1>2. Holds(oltk_new, zero, none) /\ oltk_new.button \in Seq(Named)
  <2>1. /\ oltk_new.button = <<>> /\ oltk_new.depressed = 0
        /\ oltk_new.screen = [p \in Points |-> Background]
    BY DEF oltk_new
  <2>2. Len(<<>>) = 0 /\ <<>> \in Seq(Named)
    OBVIOUS
  <2> QED
    BY <1>1, <2>1, <2>2 DEF Holds
<1>3. b \in Named /\ b.rect = r /\ b.cb = "none" /\ b.update /\ ~ b.active /\ ~ b.show /\ b.sensitive
  BY NewIs DEF Faces, Callbacks
<1>b. b \in [rect : Rects, show : BOOLEAN, sensitive : BOOLEAN, face : Faces, active : BOOLEAN,
          cb : Callbacks, update : BOOLEAN]
  BY <1>3 DEF Named
<1> HIDE DEF b
<1>4. c \in Named /\ c.cb = "none" /\ c.update /\ ~ c.active /\ ~ c.show /\ ~ c.sensitive
  BY <1>3, <1>b DEF Named
<1>5. c \in Button
  BY <1>4, NamedIs
<1>6. Fits(c, zero + 1, none)
  BY <1>4 DEF Fits, Callback, View, Pass, Quit, Fail
<1>7. zero \in Nat
  OBVIOUS
<1>8. oltk_view_add(oltk_new, r) = v
  <2>1. oltk_button_add(oltk_new, r, "none", "none") = [oltk_new EXCEPT !.button = <<b>>]
    BY DEF oltk_button_add, oltk_new, b
  <2> DEFINE a == [oltk_new EXCEPT !.button = <<b>>]
  <2>2. a.button = <<b>> /\ Len(a.button) = one
    BY DEF oltk_new
  <2>3. [a EXCEPT !.button[one].sensitive = FALSE] = [oltk_new EXCEPT !.button = <<c>>]
    <3> DEFINE x == [a EXCEPT !.button[one].sensitive = FALSE]
               bs == <<b>>
    <3>1. x = [a EXCEPT !.button = [bs EXCEPT ![one] = c]]
      <4>1. a.button = bs /\ bs[one] = b
        BY <2>2
      <4> HIDE DEF a, bs, one
      <4> QED
        BY <4>1
    <3>2. [bs EXCEPT ![one] = c] = <<c>>
      <4> HIDE DEF c
      <4> QED
        OBVIOUS
    <3>3. [a EXCEPT !.button = <<c>>] = [oltk_new EXCEPT !.button = <<c>>]
      <4> HIDE DEF c
      <4> QED
        BY DEF oltk_new
    <3> QED
      BY <3>1, <3>2, <3>3
  <2>4. u = [oltk_new EXCEPT !.button = <<c>>]
    BY DEF oltk_new
  <2> HIDE DEF a, c, u, one
  <2> QED
    BY <2>1, <2>2, <2>3, <2>4 DEF oltk_view_add, a
<1> HIDE DEF c, u, none, zero
<1>9. Holds(u, zero + 1, none) /\ NamesKept(u, oltk_new)
  BY <1>2, <1>4, <1>5, <1>6, <1>7, AppendHolds DEF u
<1>10. Holds(u, one, none) /\ u.button \in Seq(Named)
  BY <1>2, <1>9 DEF NamesKept, zero
<1>11. one \in Nat /\ one \in 1 .. one /\ one \notin none
  BY DEF none
<1> HIDE DEF one
<1>12. Holds(v, one, none \cup {one}) /\ NamesKept(v, u)
  BY <1>10, <1>11, ShowHolds
<1>13. one = 1 /\ none \cup {one} = {View}
  BY DEF one, none, View
<1> HIDE DEF v
<1> QED
  BY <1>8, <1>10, <1>12, <1>13 DEF NamesKept

\* setup_check: three more buttons, all of them shown.
LEMMA CheckHolds ==
  ASSUME board \in Boards, NEW u, Holds(u, 1, {View}), u.button \in Seq(Named)
  PROVE  LET v == setup_check(u)
         IN  Holds(v, 4, {View, Pass, Quit, Fail}) /\ v.button \in Seq(Named)
<1> DEFINE one == 1
           two == 2
           three == 3
           four == 4
           old == {View}
           new == {Pass, Quit, Fail}
           p == Layout.pass
           q == Layout.quit
           f == Layout.fail
           a == oltk_button_add(u, p, "Pass", "pass")
           b == oltk_button_add(a, q, "N.A", "none")
           c == oltk_button_add(b, f, "Fail", "fail")
           v == ShowAll(c, new, TRUE)
<1>1. p \in Rects /\ q \in Rects /\ f \in Rects
  BY StationAssumption
<1>2. /\ one \in Nat /\ two \in Nat /\ three \in Nat /\ two = one + 1 /\ three = two + 1
      /\ four = three + 1 /\ four \in Nat
  OBVIOUS
<1>3. two \notin old /\ three \notin old /\ four \notin old
  BY DEF View
<1>4. "Pass" \in Faces /\ "N.A" \in Faces /\ "Fail" \in Faces
  BY DEF Faces
<1>5. "pass" = Callback(two) /\ "none" = Callback(three) /\ "fail" = Callback(four)
  BY DEF Callback, View, Pass, Quit, Fail
<1>6. two \notin {View, Dialog} /\ three \notin {View, Dialog} /\ four \notin {View, Dialog}
  BY SuitesIn DEF View
<1>7. setup_check(u) = v
  BY DEF setup_check
<1>8. new \subseteq 1 .. four /\ old \cup new = {View, Pass, Quit, Fail}
  BY DEF Pass, Quit, Fail
<1>9. Holds(u, one, old)
  OBVIOUS
<1> HIDE DEF one, two, three, four, old, new, p, q, f
<1>10. Holds(a, two, old) /\ NamesKept(a, u)
  BY <1>1, <1>2, <1>3, <1>4, <1>5, <1>6, <1>9, AddHolds
<1>11. Holds(b, three, old) /\ NamesKept(b, a)
  <2> HIDE DEF a
  <2> QED
    BY <1>1, <1>2, <1>3, <1>4, <1>5, <1>6, <1>10, AddHolds
<1>12. Holds(c, four, old) /\ NamesKept(c, b)
  <2> HIDE DEF b
  <2> QED
    BY <1>1, <1>2, <1>3, <1>4, <1>5, <1>6, <1>11, AddHolds
<1>13. Holds(v, four, old \cup new) /\ NamesKept(v, c)
  <2> HIDE DEF c
  <2> QED
    BY <1>2, <1>8, <1>12, ShowAllHolds
<1>14. v.button \in Seq(Named)
  <2> HIDE DEF a, b, c, v
  <2> QED
    BY <1>10, <1>11, <1>12, <1>13 DEF NamesKept
<1> HIDE DEF v
<1> QED
  BY <1>7, <1>8, <1>13, <1>14 DEF four

\* The suites' buttons follow.
LEMMA SuitesHold ==
  ASSUME board \in Boards, NEW u, Holds(u, 4, {View, Pass, Quit, Fail}), u.button \in Seq(Named)
  PROVE  LET v == AddSuites(u, board)
         IN  Holds(v, Popup - 1, {View, Pass, Quit, Fail}) /\ Faced(v)
<1> DEFINE v == AddSuites(u, board)
           n == Popup - 1
           shown == {View, Pass, Quit, Fail}
<1>1. u \in Ui /\ Len(u.button) = FirstOf(1)
  BY FirstIs DEF Holds
<1>2. /\ v \in Ui /\ Len(v.button) = FirstOf(Len(board) + 1)
      /\ v.depressed = u.depressed /\ v.screen = u.screen
      /\ \A k \in 1 .. Len(u.button) : v.button[k] = u.button[k]
      /\ \A s \in 1 .. Len(board) : \A t \in 1 .. Len(board[s]) :
           v.button[FirstOf(s) + t].face = board[s][t]
      /\ \A k \in 5 .. Len(v.button) :
           /\ v.button[k].cb = "test" /\ v.button[k].update /\ ~ v.button[k].active
           /\ ~ v.button[k].show /\ v.button[k].sensitive
  BY <1>1, AddSuitesIs
<1> HIDE DEF v
<1>3. n \in Nat /\ n >= 4 /\ Popup = n + 1 /\ Dialog = n + 2 /\ Len(v.button) = n
  <2>1. Popup \in Nat /\ Popup >= 5 /\ Dialog = Popup + 1 /\ Popup = FirstOf(Len(board) + 1) + 1
    BY SuitesIn DEF Popup
  <2>2. Len(board) + 1 \in 1 .. Len(board) + 1
    BY BoardIs
  <2>3. FirstOf(Len(board) + 1) \in Nat
    BY <2>2, FirstIs
  <2> QED
    BY <1>2, <2>1, <2>3
<1> HIDE DEF n
<1>4. ASSUME NEW k \in 1 .. n PROVE Fits(v.button[k], k, shown)
  <2>1. CASE k \in 1 .. 4
    <3>1. v.button[k] = u.button[k]
      BY <2>1, <1>1, <1>2, FirstIs
    <3> QED
      BY <2>1, <3>1 DEF Holds
  <2>2. CASE k \in 5 .. n
    <3>1. Callback(k) = "test" /\ k \notin {View, Dialog} /\ k \notin shown
      BY <2>2, <1>3 DEF Callback, View, Pass, Quit, Fail
    <3> QED
      BY <2>2, <3>1, <1>2, <1>3 DEF Fits
  <2> QED
    BY <2>1, <2>2, <1>3
<1>5. v.depressed = 0 /\ v.screen = [p \in Points |-> Background]
  BY <1>2 DEF Holds
<1> QED
  BY <1>2, <1>3, <1>4, <1>5 DEF Holds, Faced, v, n

\* The suites' buttons keep their faces.
LEMMA FacedStays ==
  ASSUME board \in Boards, NEW u, Faced(u), NEW v,
         \A k \in 5 .. Popup - 1 : v.button[k].face = u.button[k].face
  PROVE  Faced(v)
<1>1. ASSUME NEW s \in 1 .. Len(board), NEW t \in 1 .. Len(board[s])
      PROVE  v.button[FirstOf(s) + t].face = board[s][t]
  <2>1. FirstOf(s) \in Nat /\ Len(board[s]) \in Nat
    BY BoardIs, FirstIs
  <2>2. FirstOf(s) + t \in TestsOf(s)
    BY <2>1 DEF TestsOf
  <2>3. FirstOf(s) + t \in 5 .. Popup - 1
    BY <2>2, SuitesIn
  <2> QED
    BY <2>3 DEF Faced
<1> QED
  BY <1>1 DEF Faced

\* Several more buttons.
LEMMA ConcatHolds ==
  ASSUME NEW u, NEW n \in Nat, NEW shown, Holds(u, n, shown), NEW bs \in Seq(Button), NEW m \in Nat,
         Len(bs) = m, \A i \in 1 .. m : Fits(bs[i], n + i, shown),
         NEW v, v = [u EXCEPT !.button = u.button \o bs]
  PROVE  Holds(v, n + m, shown) /\ Extends(v, u)
<1> DEFINE all == u.button \o bs
<1>1. u \in Ui /\ u.button \in Seq(Button) /\ Len(u.button) = n
  BY UiIs DEF Holds
<1>2. all \in Seq(Button) /\ Len(all) = n + m
  <2> DEFINE old == u.button
  <2>1. old \in Seq(Button) /\ Len(old) = n /\ bs \in Seq(Button) /\ Len(bs) = m
    BY <1>1
  <2> HIDE DEF old
  <2>2. old \o bs \in Seq(Button) /\ Len(old \o bs) = Len(old) + Len(bs)
    BY <2>1
  <2> QED
    BY <2>1, <2>2 DEF old
<1>3. ASSUME NEW k \in 1 .. n PROVE all[k] = u.button[k]
  BY <1>1
<1>4. ASSUME NEW k \in n + 1 .. n + m PROVE all[k] = bs[k - n]
  BY <1>1
<1> HIDE DEF all
<1>5. /\ v \in Ui /\ v.button = all /\ v.depressed = u.depressed /\ v.screen = u.screen
  BY <1>1, <1>2 DEF Ui, all
<1>6. ASSUME NEW k \in 1 .. n + m PROVE Fits(all[k], k, shown)
  <2>1. CASE k \in 1 .. n
    BY <2>1, <1>3 DEF Holds
  <2>2. CASE k \in n + 1 .. n + m
    <3>1. k - n \in 1 .. m /\ n + (k - n) = k
      BY <2>2
    <3> QED
      BY <2>2, <3>1, <1>4
  <2> QED
    BY <2>1, <2>2
<1> QED
  BY <1>1, <1>2, <1>3, <1>5, <1>6 DEF Holds, Extends

\* The last button is made insensitive.
LEMMA Muted ==
  ASSUME NEW bs \in Seq(Button), NEW n \in Nat, Len(bs) = n, NEW b,
         b \in Button, [b EXCEPT !.sensitive = FALSE] \in Button
  PROVE  [Append(bs, b) EXCEPT ![n + 1].sensitive = FALSE]
           = Append(bs, [b EXCEPT !.sensitive = FALSE])
<1> DEFINE c == [b EXCEPT !.sensitive = FALSE]
           all == Append(bs, b)
           x == [all EXCEPT ![n + 1] = c]
           y == Append(bs, c)
<1>1. /\ all \in Seq(Button) /\ Len(all) = n + 1 /\ all[n + 1] = b
      /\ \A k \in 1 .. n : all[k] = bs[k]
  OBVIOUS
<1>2. y \in Seq(Button) /\ Len(y) = n + 1 /\ y[n + 1] = c /\ \A k \in 1 .. n : y[k] = bs[k]
  <2>1. c \in Button
    OBVIOUS
  <2> HIDE DEF c
  <2> QED
    BY <2>1
<1>r. all = [k \in 1 .. n + 1 |-> all[k]]
  <2> HIDE DEF all
  <2> QED
    BY <1>1
<1> HIDE DEF all, c, y
<1>3. x = [all EXCEPT ![n + 1].sensitive = FALSE]
  BY <1>1 DEF c
<1>4. x = [k \in 1 .. n + 1 |-> IF k = n + 1 THEN c ELSE all[k]]
  BY <1>1, <1>r
<1>5. y = [k \in 1 .. n + 1 |-> IF k = n + 1 THEN c ELSE all[k]]
  <2>1. y = [k \in 1 .. n + 1 |-> y[k]]
    BY <1>2
  <2>2. ASSUME NEW k \in 1 .. n + 1 PROVE y[k] = IF k = n + 1 THEN c ELSE all[k]
    BY <1>1, <1>2
  <2> QED
    BY <2>1, <2>2
<1> QED
  BY <1>3, <1>4, <1>5 DEF all, c, y

\* setup_popup adds the popup: its button, which is shown, its dialog and its items.
LEMMA PopupHolds ==
  ASSUME board \in Boards, NEW u, NEW shown, Holds(u, Popup - 1, shown), Faced(u),
         shown \subseteq 1 .. 4
  PROVE  LET v == oltk_popup_add(u, Layout.popup, Layout.dialog, [s \in DOMAIN board |-> Layout.item[s]])
         IN  Holds(v, Dialog + Len(board), shown \cup {Popup}) /\ Faced(v)
<1> DEFINE n == Popup - 1
           pop == Popup
           len == Len(board)
           items == [s \in DOMAIN board |-> Layout.item[s]]
           more == [i \in DOMAIN items |-> NewButton(items[i], i, "popdown")]
           a == oltk_button_add(u, Layout.popup, "none", "popup")
           b == oltk_button_show(a, pop, TRUE)
           new == NewButton(Layout.dialog, "none", "none")
           mute == [new EXCEPT !.sensitive = FALSE]
           c == [b EXCEPT !.button = Append(b.button, mute)]
           v == [c EXCEPT !.button = c.button \o more]
           wide == shown \cup {pop}
<1>1. /\ n \in Nat /\ n >= 4 /\ pop = n + 1 /\ Popup = pop /\ Dialog = pop + 1 /\ pop \in Nat /\ pop >= 5
      /\ len \in Nat /\ DOMAIN board = 1 .. len /\ len <= Len(Layout.item) /\ pop \in 1 .. pop
      /\ 5 .. Popup - 1 = 5 .. n
  BY SuitesIn, BoardIs
<1>2. Layout.popup \in Rects /\ Layout.dialog \in Rects /\ Layout.item \in Seq(Rects)
  BY StationAssumption
<1>3. "none" \in Faces /\ "popup" = Callback(pop) /\ "none" \in Callbacks /\ "popdown" \in Callbacks
  BY <1>1 DEF Faces, Callback, Callbacks, View, Pass, Quit, Fail
<1>4. pop \notin {View, Dialog} /\ pop \notin shown
  BY <1>1 DEF View
<1>5. Holds(u, n, shown)
  OBVIOUS
<1> HIDE DEF n, pop, len
<1>6. Holds(a, pop, shown) /\ Extends(a, u)
  <2> DEFINE r == Layout.popup
             face == "none"
             cb == "popup"
  <2>1. /\ r \in Rects /\ face \in Faces /\ cb = Callback(n + 1)
        /\ n + 1 \notin {View, Dialog} /\ n + 1 \notin shown
    BY <1>1, <1>2, <1>3, <1>4
  <2> HIDE DEF r, face, cb
  <2>2. Holds(oltk_button_add(u, r, face, cb), n + 1, shown) /\ Extends(oltk_button_add(u, r, face, cb), u)
    BY <1>1, <1>5, <2>1, AddHolds
  <2> QED
    BY <1>1, <2>2 DEF r, face, cb
<1>7. Holds(b, pop, wide) /\ Extends(b, a)
  <2> HIDE DEF a
  <2> QED
    BY <1>1, <1>4, <1>6, ShowHolds
<1>8. new \in Named /\ new.cb = "none" /\ new.update /\ ~ new.active /\ ~ new.show
  BY <1>2, <1>3, NewIs
<1>9. mute \in Named /\ mute.cb = "none" /\ mute.update /\ ~ mute.active /\ ~ mute.show /\ ~ mute.sensitive
  <2> HIDE DEF new
  <2> QED
    BY <1>8 DEF Named
<1>10. mute \in Button /\ Fits(mute, pop + 1, wide)
  <2>1. mute \in Button
    BY <1>9, NamedIs
  <2>2. Callback(pop + 1) = "none"
    BY <1>1 DEF Callback, View, Pass, Quit, Fail
  <2>3. pop + 1 \notin wide
    BY <1>1
  <2> HIDE DEF mute, wide
  <2> QED
    BY <1>1, <1>9, <2>1, <2>2, <2>3 DEF Fits
<1>11. Holds(c, pop + 1, wide) /\ Extends(c, b)
  <2> HIDE DEF b, mute, wide
  <2> QED
    BY <1>1, <1>7, <1>10, AppendHolds
<1>12. more \in Seq(Button) /\ Len(more) = len
  <2>1. DOMAIN items = 1 .. len /\ DOMAIN more = 1 .. len
    BY <1>1
  <2>2. ASSUME NEW i \in 1 .. len PROVE more[i] \in Button
    <3>1. items[i] \in Rects /\ i \in Labels
      BY <1>1, <1>2, <2>1 DEF Labels
    <3> HIDE DEF items
    <3>2. NewButton(items[i], i, "popdown") \in Button
      BY <3>1, <1>3, NewIs
    <3> QED
      BY <2>1, <3>2
  <2>3. more = [i \in 1 .. len |-> more[i]]
    BY <2>1
  <2> HIDE DEF more
  <2> QED
    BY <1>1, <2>2, <2>3
<1>13. ASSUME NEW i \in 1 .. len PROVE Fits(more[i], pop + 1 + i, wide)
  <2>1. DOMAIN items = 1 .. len /\ DOMAIN more = 1 .. len
    BY <1>1
  <2>2. items[i] \in Rects
    BY <1>1, <1>2, <2>1
  <2> DEFINE new1 == NewButton(items[i], i, "popdown")
  <2>3. new1.cb = "popdown" /\ new1.update /\ ~ new1.active /\ ~ new1.show /\ new1.sensitive
    BY <1>3, <2>2, NewIs
  <2>4. more[i] = new1
    BY <2>1
  <2> HIDE DEF new1, more, items
  <2>5. /\ Callback(pop + 1 + i) = "popdown" /\ pop + 1 + i \notin wide
        /\ pop + 1 + i \notin {View, Dialog}
    BY <1>1 DEF Callback, View, Pass, Quit, Fail
  <2> HIDE DEF wide
  <2> QED
    BY <2>3, <2>4, <2>5 DEF Fits
<1>14. Holds(v, pop + 1 + len, wide) /\ Extends(v, c)
  <2> HIDE DEF c, more, wide
  <2>1. pop + 1 \in Nat /\ len \in Nat
    BY <1>1
  <2> QED
    BY <1>11, <1>12, <1>13, <2>1, ConcatHolds
<1>15. oltk_popup_add(u, Layout.popup, Layout.dialog, items) = v
  <2>1. Len(a.button) = pop
    BY <1>6 DEF Holds
  <2> DEFINE d == oltk_button_add(b, Layout.dialog, "none", "none")
             bs == Append(b.button, new)
  <2>2. b \in Ui /\ b.button \in Seq(Button) /\ Len(b.button) = pop
    BY <1>7, UiIs DEF Holds
  <2>3. d = [b EXCEPT !.button = bs]
    BY DEF oltk_button_add
  <2>4. bs \in Seq(Button) /\ Len(bs) = pop + 1
    <3>1. new \in Button
      BY <1>8, NamedIs
    <3> HIDE DEF b, new
    <3> QED
      BY <1>1, <2>2, <3>1
  <2>5. [bs EXCEPT ![pop + 1].sensitive = FALSE] = Append(b.button, mute)
    <3>1. new \in Button /\ mute \in Button
      BY <1>8, <1>10, NamedIs
    <3> HIDE DEF b, new
    <3> QED
      BY <1>1, <2>2, <3>1, Muted
  <2>6. d.button = bs /\ Len(d.button) = pop + 1
    <3> HIDE DEF b, bs, d
    <3> QED
      BY <2>2, <2>3, <2>4 DEF Ui
  <2>7. c.button = Append(b.button, mute)
    <3> HIDE DEF b, mute
    <3> QED
      BY <2>2 DEF Ui
  <2>8. [d EXCEPT !.button = [d.button EXCEPT ![pop + 1].sensitive = FALSE] \o more] = v
    <3> DEFINE l == [d.button EXCEPT ![pop + 1].sensitive = FALSE] \o more
               o == Append(b.button, mute)
    <3>1. l = c.button \o more
      BY <2>5, <2>6, <2>7
    <3> HIDE DEF l
    <3>2. [d EXCEPT !.button = l] = [b EXCEPT !.button = l]
      <4> HIDE DEF bs, d, b
      <4> QED
        BY <2>3
    <3>3. [c EXCEPT !.button = l] = [b EXCEPT !.button = l]
      <4> HIDE DEF o, b
      <4> QED
        BY DEF c
    <3>4. v = [c EXCEPT !.button = l]
      BY <3>1 DEF v
    <3> HIDE DEF c, d, b, v
    <3> QED
      BY <3>2, <3>3, <3>4 DEF l
  <2>9. oltk_popup_add(u, Layout.popup, Layout.dialog, items)
          = [d EXCEPT !.button = [d.button EXCEPT ![pop + 1].sensitive = FALSE] \o more]
    <3> DEFINE last1 == Len(a.button)
               d1 == oltk_button_add(oltk_button_show(a, last1, TRUE), Layout.dialog, "none", "none")
               first == Len(d1.button)
    <3>1. oltk_popup_add(u, Layout.popup, Layout.dialog, items)
            = [d1 EXCEPT !.button = [d1.button EXCEPT ![first].sensitive = FALSE] \o more]
      <4> HIDE DEF items
      <4> QED
        BY Zenon DEF oltk_popup_add
    <3>2. d1 = d
      BY <2>1
    <3> HIDE DEF d1, d, more
    <3>3. first = pop + 1
      BY <3>2, <2>6
    <3> HIDE DEF first
    <3> QED
      BY <3>1, <3>2, <3>3
  <2> HIDE DEF v, d, more
  <2> QED
    BY <2>8, <2>9
<1>16. Faced(v)
  <2> HIDE DEF a, b, c, v
  <2>1. /\ Len(u.button) = n /\ Len(a.button) = pop /\ Len(b.button) = pop /\ Len(c.button) = pop + 1
    BY <1>5, <1>6, <1>7, <1>11 DEF Holds
  <2>2. \A k \in 5 .. n : v.button[k].face = u.button[k].face
    <3>1. ASSUME NEW k \in 5 .. n PROVE v.button[k].face = u.button[k].face
      <4>1. k \in 1 .. n /\ k \in 1 .. pop /\ k \in 1 .. pop + 1
        BY <1>1
      <4> QED
        BY <4>1, <1>6, <1>7, <1>11, <1>14, <2>1 DEF Extends
    <3> QED
      BY <3>1
  <2> QED
    BY <1>1, <2>2, FacedStays
<1>17. Dialog + Len(board) = pop + 1 + len /\ wide = shown \cup {Popup}
  BY <1>1 DEF len
<1> HIDE DEF v, items, wide
<1> QED
  BY <1>14, <1>15, <1>16, <1>17 DEF items

\* What setup_popup leaves: the buttons of the first suite are shown with those
\* that always are.
LEMMA SetupIs ==
  ASSUME board \in Boards
  PROVE  LET v == setup_popup(setup_check(oltk_view_add(oltk_new, Layout.view)), board)
         IN  /\ Holds(v, Dialog + Len(board), {View, Pass, Quit, Fail, Popup} \cup TestsOf(1))
             /\ Faced(v)
<1> DEFINE n == Dialog + Len(board)
           one == 1
           shown == {View, Pass, Quit, Fail} \cup {Popup}
           a == setup_check(oltk_view_add(oltk_new, Layout.view))
           b == AddSuites(a, board)
           c == oltk_popup_add(b, Layout.popup, Layout.dialog, [s \in DOMAIN board |-> Layout.item[s]])
           d == oltk_button_set_name(c, Popup, one)
           e == oltk_view_set_text(d, View, "desc")
           v == ShowAll(e, TestsOf(1), TRUE)
<1>1. Layout.view \in Rects
  BY StationAssumption
<1>2. Holds(a, 4, {View, Pass, Quit, Fail}) /\ a.button \in Seq(Named)
  BY <1>1, ViewHolds, CheckHolds
<1>3. Holds(b, Popup - 1, {View, Pass, Quit, Fail}) /\ Faced(b)
  <2> HIDE DEF a
  <2> QED
    BY <1>2, SuitesHold
<1>4. Holds(c, n, shown) /\ Faced(c)
  <2>1. {View, Pass, Quit, Fail} \subseteq 1 .. 4
    BY DEF View, Pass, Quit, Fail
  <2> HIDE DEF b
  <2> QED
    BY <1>3, <2>1, PopupHolds
<1>5. /\ n \in Nat /\ Popup \in 1 .. n /\ View \in 1 .. n /\ n - Len(board) - 1 = Popup
      /\ Popup \in Nat /\ Popup >= 5 /\ n >= Popup /\ 1 \in 1 .. Len(board)
      /\ View \in {View, Popup} /\ Popup \in {View, Popup}
  BY SuitesIn, BoardIs DEF View
<1>6. one \in Labels /\ "desc" \in Labels
  BY DEF Labels
<1> HIDE DEF c, n, shown, one
<1>7. Holds(d, n, shown) /\ Faced(d)
  <2>1. Holds(d, n, shown)
    BY <1>4, <1>5, <1>6, SetNameHolds
  <2>2. c \in Ui /\ Len(c.button) = n
    BY <1>4 DEF Holds
  <2>3. Changes(d, c)
    BY <2>2, <1>5, <1>6, SetNameIs
  <2> HIDE DEF d
  <2>4. ASSUME NEW k \in 5 .. Popup - 1 PROVE d.button[k].face = c.button[k].face
    <3>1. k \in 1 .. Len(c.button) /\ k \notin {View, Popup}
      BY <1>5, <2>2 DEF View
    <3> QED
      BY <3>1, <2>3 DEF Changes
  <2> QED
    BY <2>1, <2>4, <1>4, FacedStays
<1> HIDE DEF d
<1>8. Holds(e, n, shown) /\ Faced(e)
  <2> DEFINE text == "desc"
             e1 == oltk_button_set_name(d, View, text)
  <2>0. text \in Labels
    BY <1>6
  <2> HIDE DEF text
  <2>1. Holds(e1, n, shown)
    BY <1>7, <1>5, <2>0, SetNameHolds
  <2>2. d \in Ui /\ Len(d.button) = n
    BY <1>7 DEF Holds
  <2>3. Changes(e1, d)
    BY <2>2, <1>5, <2>0, SetNameIs
  <2>5. e = e1
    BY DEF oltk_view_set_text, text
  <2> HIDE DEF e, e1
  <2>4. ASSUME NEW k \in 5 .. Popup - 1 PROVE e1.button[k].face = d.button[k].face
    <3>1. k \in 1 .. Len(d.button) /\ k \notin {View, Popup}
      BY <1>5, <2>2 DEF View
    <3> QED
      BY <3>1, <2>3 DEF Changes
  <2> QED
    BY <2>1, <2>4, <2>5, <1>7, FacedStays
<1> HIDE DEF e
<1>9. Holds(v, n, shown \cup TestsOf(1)) /\ Faced(v)
  <2> DEFINE bs == TestsOf(1)
  <2>1. bs \subseteq 1 .. n
    BY <1>5, SuitesIn
  <2> HIDE DEF bs
  <2>2. Holds(v, n, shown \cup bs) /\ Extends(v, e)
    <3>1. Holds(ShowAll(e, bs, TRUE), n, shown \cup bs) /\ Extends(ShowAll(e, bs, TRUE), e)
      BY <1>5, <1>8, <2>1, ShowAllHolds
    <3> QED
      BY <3>1 DEF bs
  <2>3. Len(e.button) = n
    BY <1>8 DEF Holds
  <2> HIDE DEF v
  <2>4. ASSUME NEW k \in 5 .. Popup - 1 PROVE v.button[k].face = e.button[k].face
    BY <1>5, <2>2, <2>3 DEF Extends
  <2> QED
    BY <2>2, <2>4, <1>8, FacedStays DEF bs
<1>10. setup_popup(a, board) = v
  <2>1. Len(c.button) = n
    BY <1>4 DEF Holds
  <2>2. {4 + t : t \in DOMAIN board[1]} = TestsOf(1)
    <3>1. FirstOf(1) = 4 /\ DOMAIN board[1] = 1 .. Len(board[1]) /\ Len(board[1]) \in Nat
      BY FirstIs, BoardIs, <1>5
    <3>2. TestsOf(1) = 5 .. 4 + Len(board[1])
      BY <3>1 DEF TestsOf
    <3> DEFINE len == Len(board[1])
               dom == 1 .. len
               nums == {4 + t : t \in dom}
    <3>3. ASSUME NEW k \in 5 .. 4 + len PROVE k \in nums
      <4>1. k - 4 \in dom /\ k = 4 + (k - 4)
        BY <3>1
      <4> QED
        BY <4>1
    <3>4. ASSUME NEW k \in nums PROVE k \in 5 .. 4 + len
      <4>1. PICK t \in dom : k = 4 + t
        OBVIOUS
      <4> QED
        BY <4>1, <3>1
    <3> HIDE DEF nums
    <3>5. nums = 5 .. 4 + len
      BY <3>3, <3>4
    <3>6. nums = {4 + t : t \in DOMAIN board[1]}
      BY <3>1 DEF nums
    <3> QED
      BY <3>2, <3>5, <3>6
  <2> DEFINE all == oltk_popup_add(AddSuites(a, board), Layout.popup, Layout.dialog,
                                   [s \in DOMAIN board |-> Layout.item[s]])
             first == {4 + t : t \in DOMAIN board[1]}
             button == Len(all.button) - Len(board) - 1
  <2>3. setup_popup(a, board)
          = ShowAll(oltk_view_set_text(oltk_button_set_name(all, button, 1), View, "desc"), first, TRUE)
    <3> HIDE DEF a
    <3> QED
      BY DEF setup_popup
  <2>4. all = c
    BY DEF c
  <2> HIDE DEF a, all
  <2>5. button = Popup
    BY <1>5, <2>1, <2>4
  <2> HIDE DEF button, first
  <2> QED
    BY <2>2, <2>3, <2>4, <2>5 DEF first, d, e, one
<1>11. shown \cup TestsOf(1) = {View, Pass, Quit, Fail, Popup} \cup TestsOf(1)
  BY DEF shown
<1> HIDE DEF v
<1> QED
  BY <1>9, <1>10, <1>11 DEF n

\* The station begins with what was set up, drawn.
LEMMA SetupRight ==
  ASSUME board \in Boards, suite = 1, NEW w,
         w = setup_popup(setup_check(oltk_view_add(oltk_new, Layout.view)), board)
  PROVE  Built(w, board) /\ ShownOf(w, suite, FALSE) /\ Right(w)
<1> DEFINE n == Dialog + Len(board)
           shown == {View, Pass, Quit, Fail, Popup} \cup TestsOf(1)
<1>1. Holds(w, n, shown) /\ Faced(w)
  BY SetupIs
<1>2. /\ w \in Ui /\ Len(w.button) = n /\ w.depressed = 0
      /\ \A p \in Points : w.screen[p] = Background
      /\ \A k \in 1 .. n : Fits(w.button[k], k, shown)
  BY <1>1 DEF Holds
<1>3. /\ Popup \in Nat /\ Popup >= 5 /\ Dialog = Popup + 1 /\ Len(board) \in Nat /\ Len(board) >= 1
      /\ DOMAIN board = 1 .. Len(board) /\ 1 \in 1 .. Len(board) /\ TestsOf(1) \subseteq 5 .. Popup - 1
      /\ \A s \in 1 .. Len(board) : DOMAIN board[s] = 1 .. Len(board[s])
  BY SuitesIn, BoardIs
<1>4. Built(w, board)
  <2>1. w.depressed <= Len(w.button)
    BY <1>2, <1>3
  <2>2. ASSUME NEW b \in 1 .. Len(w.button)
        PROVE  (w.button[b].sensitive <=> b \notin {View, Dialog}) /\ w.button[b].cb = Callback(b)
    BY <1>2 DEF Fits
  <2>3. \A s \in DOMAIN board : \A t \in DOMAIN board[s] : w.button[FirstOf(s) + t].face = board[s][t]
    BY <1>1, <1>3 DEF Faced
  <2> HIDE DEF shown
  <2> QED
    BY <1>2, <2>1, <2>2, <2>3 DEF Built, Callback
<1>5. ShownOf(w, suite, FALSE)
  <2>1. ASSUME NEW b \in 1 .. Len(w.button)
        PROVE  /\ w.button[b].cb = "test" => (w.button[b].show <=> b \in TestsOf(1))
               /\ b >= Dialog => ~ w.button[b].show
               /\ b \in {View, Pass, Quit, Fail, Popup} => w.button[b].show
    <3>1. (w.button[b].show <=> b \in shown) /\ w.button[b].cb = Callback(b)
      BY <1>2 DEF Fits
    <3>2. Callback(b) = "test" => b \notin {View, Pass, Quit, Fail, Popup}
      BY DEF Callback
    <3>3. b >= Dialog => b \notin shown
      BY <1>2, <1>3 DEF View, Pass, Quit, Fail
    <3> QED
      BY <3>1, <3>2, <3>3
  <2> QED
    BY <2>1 DEF ShownOf
<1>6. Right(w)
  <2>1. ASSUME NEW p \in Points PROVE RightAt(w, p)
    <3>1. CASE Topmost(w, p) = 0
      <4>1. Picture(w)[p] = Background
        BY <3>1 DEF Picture
      <4> QED
        BY <4>1, <1>2 DEF RightAt
    <3>2. CASE Topmost(w, p) # 0
      <4>1. Topmost(w, p) \in 1 .. Len(w.button)
        BY <3>2, <1>2, TopmostIs
      <4>2. w.button[Topmost(w, p)].update
        BY <4>1, <1>2 DEF Fits
      <4> QED
        BY <3>2, <4>2 DEF RightAt
    <3> QED
      BY <3>1, <3>2
  <2> QED
    BY <2>1 DEF Right
<1> QED
  BY <1>4, <1>5, <1>6

\* The program starts with the machine, the screen and the samples in order.
LEMMA StationInit == Init => StationInv
<1> SUFFICES ASSUME Init PROVE StationInv
  OBVIOUS
<1> DEFINE w == setup_popup(setup_check(oltk_view_add(oltk_new, Layout.view)), board)
<1>1. /\ board \in Boards /\ ui = oltk_redraw(w) /\ at = "loop" /\ fed = 0 /\ suite = 1 /\ test = 0
      /\ samples = <<>> /\ down = FALSE /\ blocked = FALSE /\ drawn = FALSE
  BY DEF Init
<1>2. Built(w, board) /\ ShownOf(w, suite, FALSE) /\ Right(w)
  BY <1>1, SetupRight
<1> HIDE DEF w
<1>3. w \in Ui /\ Changes(w, w)
  BY <1>2, ChangesRefl DEF Built
<1>4. Right(ui) /\ Clean(ui) /\ Built(ui, board)
  BY <1>1, <1>2, <1>3, Repaints, BuiltStays
<1>5. ShownOf(ui, suite, FALSE)
  <2>1. /\ Len(ui.button) = Len(w.button) /\ Alike(ui, w)
        /\ \A b \in 1 .. Len(w.button) : ui.button[b].cb = w.button[b].cb
    BY <1>1, <1>3, RedrawIs
  <2> QED
    BY <1>2, <2>1 DEF ShownOf, Alike
<1>6. UiInv
  <2>1. suite \in DOMAIN board /\ Len(board[suite]) \in Nat /\ test \in 0 .. Len(board[suite])
    BY <1>1, BoardIs
  <2>2. fed \in 0 .. Len(ui.button)
    BY <1>1, <1>4, Numbers
  <2>3. at # "popup" /\ at # "run" /\ (at = "popup") = FALSE
    BY <1>1
  <2> QED
    BY <1>1, <1>4, <1>5, <2>1, <2>2, <2>3 DEF UiInv
<1>7. PaintInv
  BY <1>4 DEF PaintInv, Right
<1>8. FingerOK
  <2>1. <<>> \in Seq(Sample)
    OBVIOUS
  <2> QED
    BY <1>1, <2>1 DEF FingerOK
<1> QED
  BY <1>6, <1>7, <1>8, MachineInit DEF StationInv
-----------------------------------------------------------------------------
(***************************************************************************)
(* The safety of the station.                                              *)
(***************************************************************************)
\* The invariant of the machine, the screen and the samples.
LEMMA StationAlways == Spec => []StationInv
<1>1. Init => StationInv
  BY StationInit
<1>2. StationInv /\ [Next]_vars => StationInv'
  BY StationStays
<1> QED
  BY <1>1, <1>2, PTL DEF Spec

\* Every answer of the log server that no copy tears is whole.
THEOREM WholeReportHolds == Spec => []WholeReport
<1>1. StationInv => WholeReport
  BY DEF StationInv, MachineInv
<1> QED
  BY <1>1, StationAlways, PTL

\* A test passes on output of its own run, and leaves the mixer on a path of its own.
THEOREM OwnOutcomeHolds == Spec => []OwnOutcome
<1>1. StationInv => OwnOutcome
  <2> SUFFICES ASSUME StationInv PROVE OwnOutcome
    OBVIOUS
  <2>1. ~ late => verdict.run \in verdict.from
    BY DEF StationInv, MachineInv, VerdictInv
  <2>2. ASSUME at = "loop" PROVE mixer \in {"speaker", "receiver"}
    <3>1. Main = <<>>
      BY <2>2 DEF StationInv, MachineInv, ProcsOK
    <3>2. ~ Recovers(Main)
      BY <3>1 DEF Recovers
    <3> QED
      BY <2>2, <3>2 DEF StationInv, MachineInv, MixerInv, Quiet
  <2> QED
    BY <2>1, <2>2 DEF OwnOutcome
<1> QED
  BY <1>1, StationAlways, PTL

\* While the program listens every point of the screen shows the topmost button there.
THEOREM PaintedRightHolds == Spec => []PaintedRight
<1>1. StationInv => PaintedRight
  <2> SUFFICES ASSUME StationInv, at \in {"loop", "popup"}, ~ drawn PROVE ui.screen = Picture(ui)
    BY DEF PaintedRight
  <2>1. ui \in Ui /\ Clean(ui) /\ \A p \in Points : RightAt(ui, p)
    BY DEF StationInv, UiInv, PaintInv, Built
  <2>2. ASSUME NEW p \in Points PROVE ui.screen[p] = Picture(ui)[p]
    <3>1. ~ Covers(Empty, p)
      BY DEF Covers, Empty, Points
    <3>2. Topmost(ui, p) # 0 => ~ ui.button[Topmost(ui, p)].update
      BY <2>1, TopmostIs DEF Clean
    <3> QED
      BY <2>1, <3>1, <3>2 DEF RightAt, Clean
  <2>3. ui.screen = [p \in Points |-> ui.screen[p]]
    BY <2>1 DEF Ui
  <2>4. Picture(ui) = [p \in Points |-> Picture(ui)[p]]
    BY DEF Picture
  <2> QED
    BY <2>2, <2>3, <2>4
<1> QED
  BY <1>1, StationAlways, PTL
-----------------------------------------------------------------------------
(***************************************************************************)
(* What is pressed and what is clicked.                                    *)
(***************************************************************************)
\* Which buttons are active does not depend on anything else.
LEMMA ActivesSame ==
  ASSUME NEW u, NEW v, Len(v.button) = Len(u.button), Kept_active(v, u)
  PROVE  Actives(v) = Actives(u)
BY DEF Actives, Kept_active

\* A redraw presses nothing.
LEMMA RedrawPress ==
  ASSUME NEW u \in Ui
  PROVE  LET v == oltk_redraw(u)
         IN  /\ Actives(v) = Actives(u) /\ v.depressed = u.depressed /\ Len(v.button) = Len(u.button)
             /\ \A b \in 1 .. Len(u.button) : Listens(v, b) <=> Listens(u, b)
<1> DEFINE v == oltk_redraw(u)
<1>1. /\ Len(v.button) = Len(u.button) /\ v.depressed = u.depressed
      /\ Alike(v, u) /\ Kept_active(v, u)
      /\ \A b \in 1 .. Len(u.button) : v.button[b].sensitive = u.button[b].sensitive
  BY RedrawIs
<1> HIDE DEF v
<1>2. Actives(v) = Actives(u)
  BY <1>1, ActivesSame
<1>3. \A b \in 1 .. Len(u.button) : Listens(v, b) <=> Listens(u, b)
  BY <1>1 DEF Listens, Alike
<1> QED
  BY <1>1, <1>2, <1>3 DEF v

\* What may be released stays what it is.
LEMMA ChangesListens ==
  ASSUME NEW u \in Ui, NEW v, Changes(v, u), Alike(v, u), NEW b \in 1 .. Len(u.button)
  PROVE  Listens(v, b) <=> Listens(u, b)
BY DEF Changes, Alike, Listens

\* Nothing becomes active after a callback.
LEMMA DepressedIdle ==
  ASSUME NEW u \in Ui, NEW b \in 0 .. Len(u.button), u.depressed <= Len(u.button), Actives(u) = {}
  PROVE  LET v == oltk_redraw(Depressed(u, b))
         IN  Actives(v) = {}
<1> DEFINE w == Depressed(u, b)
<1>1. /\ Changes(w, u)
      /\ \A k \in 1 .. Len(u.button) :
           w.button[k].active = (u.button[k].active /\ ~ (k = u.depressed /\ k # b /\ Listens(u, k)))
  BY DepressedIs
<1> HIDE DEF w
<1>2. w \in Ui /\ Len(w.button) = Len(u.button)
  BY <1>1 DEF Changes
<1>3. Actives(w) = {}
  <2>1. ASSUME NEW k \in 1 .. Len(u.button) PROVE ~ w.button[k].active
    BY <1>1 DEF Actives
  <2> QED
    BY <2>1, <1>2 DEF Actives
<1> QED
  BY <1>2, <1>3, RedrawPress DEF w

\* A sample in the main loop: without a click only what handles it is active, and
\* a click is on what was pressed last, with nothing active any more.
LEMMA FeedPress ==
  ASSUME UiInv, FingerOK, PressInv, at = "loop", samples # <<>>
  PROVE  LET s == Head(samples)
             b == Handler(ui, s.p)
             u == Fed(ui, b, s.down)
             w == oltk_redraw(Depressed(u, b))
         IN  /\ \A k \in Actives(w) : k = b /\ s.down /\ w.depressed = b /\ Listens(w, k)
             /\ Clicks(ui, b, s.down) =>
                  b = pressed.button /\ b \in Actives(ui) /\ Actives(u) = {} /\ u.depressed = b
<1> DEFINE s == Head(samples)
           b == Handler(ui, s.p)
           u == Fed(ui, b, s.down)
           x == Depressed(u, b)
           w == oltk_redraw(x)
<1>1. /\ s \in Sample /\ b \in 0 .. Len(ui.button) /\ Changes(u, ui) /\ Alike(u, ui)
      /\ u \in Ui /\ Len(u.button) = Len(ui.button) /\ u.depressed <= Len(u.button)
      /\ b # 0 => b \in 1 .. Len(ui.button) /\ Listens(ui, b)
  BY FeedIs
<1>2. ui \in Ui
  BY DEF UiInv, Built
<1>3. s.down \in BOOLEAN
  BY <1>1 DEF Sample
<1> HIDE DEF s, b
<1>4. /\ u.depressed = IF b = 0 THEN 0 ELSE ui.depressed
      /\ \A k \in 1 .. Len(ui.button) :
           u.button[k].active = IF k = b THEN s.down ELSE (ui.button[k].active /\ ~ (k > b /\ Listens(ui, k)))
  BY <1>1, <1>2, <1>3, FedIs
<1> HIDE DEF u
<1>5. /\ Changes(x, u) /\ Alike(x, u)
      /\ x.depressed = IF b = 0 THEN u.depressed ELSE IF u.button[b].active THEN b ELSE 0
      /\ \A k \in 1 .. Len(u.button) :
           x.button[k].active = (u.button[k].active /\ ~ (k = u.depressed /\ k # b /\ Listens(u, k)))
  BY <1>1, DepressedIs
<1> HIDE DEF x
<1>6. x \in Ui /\ Len(x.button) = Len(ui.button)
  BY <1>1, <1>5 DEF Changes
<1>7. \A k \in 1 .. Len(ui.button) : (Listens(u, k) <=> Listens(ui, k)) /\ (Listens(x, k) <=> Listens(ui, k))
  BY <1>1, <1>2, <1>5, ChangesListens
<1>8. \A k \in 1 .. Len(ui.button) : ui.button[k].active =>
        k = ui.depressed /\ k = pressed.button /\ Listens(ui, k)
  BY DEF PressInv, Actives
<1>9. /\ Actives(w) = Actives(x) /\ w.depressed = x.depressed
      /\ \A k \in 1 .. Len(ui.button) : Listens(w, k) <=> Listens(x, k)
  BY <1>6, RedrawPress
<1> HIDE DEF w
<1>10. Len(ui.button) \in Nat
  BY <1>2, UiIs
<1>11. ASSUME NEW k \in Actives(w) PROVE k = b /\ s.down /\ w.depressed = b /\ Listens(w, k)
  <2>1. k \in 1 .. Len(ui.button) /\ x.button[k].active
    BY <1>6, <1>9 DEF Actives
  <2>2. u.button[k].active /\ ~ (k = u.depressed /\ k # b /\ Listens(u, k))
    BY <2>1, <1>1, <1>5
  <2>3. k = b
    <3>1. ASSUME k # b PROVE FALSE
      <4>1. ui.button[k].active /\ ~ (k > b /\ Listens(ui, k))
        BY <2>1, <2>2, <3>1, <1>4
      <4>2. k = ui.depressed /\ Listens(ui, k)
        BY <2>1, <4>1, <1>8
      <4>3. b # 0
        BY <2>1, <4>1, <4>2
      <4>4. u.depressed = k /\ Listens(u, k)
        BY <2>1, <4>2, <4>3, <1>4, <1>7
      <4> QED
        BY <2>2, <3>1, <4>4
    <3> QED
      BY <3>1
  <2>4. b # 0 /\ s.down
    BY <2>1, <2>2, <2>3, <1>4
  <2>5. x.depressed = b
    BY <2>2, <2>3, <2>4, <1>5
  <2> QED
    BY <2>1, <2>3, <2>4, <2>5, <1>1, <1>7, <1>9
<1>12. ASSUME Clicks(ui, b, s.down)
       PROVE  b = pressed.button /\ b \in Actives(ui) /\ Actives(u) = {} /\ u.depressed = b
  <2>1. b \in 1 .. Len(ui.button) /\ ui.button[b].active /\ ~ s.down /\ b # 0
    BY <1>1, <1>12 DEF Clicks
  <2>2. b = ui.depressed /\ b = pressed.button
    BY <2>1, <1>8
  <2>3. ASSUME NEW k \in 1 .. Len(ui.button) PROVE ~ u.button[k].active
    BY <2>1, <2>2, <1>4, <1>8
  <2> QED
    BY <2>1, <2>2, <2>3, <1>1, <1>4 DEF Actives
<1> QED
  BY <1>11, <1>12 DEF s, b, u, x, w

\* A sample in the loop of the popup, likewise.
LEMMA ChoosePress ==
  ASSUME UiInv, FingerOK, PressInv, at = "popup", samples # <<>>
  PROVE  LET s == Head(samples)
             b == ItemAt(ui, Items, s.p)
             u == FedItems(ui, Items, s.p, s.down)
             w == oltk_redraw(u)
         IN  /\ \A k \in Actives(w) : k = b /\ s.down /\ k \in Items
             /\ w.depressed = fed /\ u.depressed = fed /\ Changes(u, ui) /\ Alike(u, ui)
             /\ s \in Sample /\ b \in 0 .. Len(ui.button)
             /\ Clicks(ui, b, s.down) =>
                  b = pressed.button /\ b \in Actives(ui) /\ Actives(u) = {}
<1> DEFINE s == Head(samples)
           b == ItemAt(ui, Items, s.p)
           u == FedItems(ui, Items, s.p, s.down)
           w == oltk_redraw(u)
           items == Items
<1>1. s \in Sample /\ s.p \in Points /\ s.down \in BOOLEAN
  <2>1. s \in Sample
    BY DEF FingerOK
  <2> QED
    BY <2>1 DEF Sample
<1>2. /\ ui \in Ui /\ ShownOf(ui, suite, TRUE) /\ Len(ui.button) \in Nat /\ Dialog \in Nat /\ Dialog >= 6
      /\ \A k : k \in Items <=> k \in 1 .. Len(ui.button) /\ k > Dialog
      /\ Built(ui, board)
  <2>1. board \in Boards /\ Built(ui, board) /\ ShownOf(ui, suite, TRUE)
    BY DEF UiInv
  <2>2. /\ ui \in Ui /\ Len(ui.button) \in Nat /\ Dialog \in Nat /\ Dialog = Popup + 1
        /\ Popup \in Nat /\ Popup >= 5
        /\ \A k : k \in Items <=> k \in 1 .. Len(ui.button) /\ k > Dialog
    BY <2>1, Numbers
  <2>3. Dialog >= 6
    BY <2>2
  <2> QED
    BY <2>1, <2>2, <2>3, Zenon
<1>3. items \subseteq 1 .. Len(ui.button)
  BY <1>2
<1>4. \A k \in items : Listens(ui, k)
  <2>1. ASSUME NEW k \in items PROVE Listens(ui, k)
    <3>1. k \in 1 .. Len(ui.button) /\ k > Dialog /\ k >= Dialog /\ k # View /\ k # Dialog
      BY <1>2 DEF View
    <3>2. ui.button[k].show
      BY <3>1, <1>2 DEF ShownOf
    <3>3. ui.button[k].sensitive
      BY <3>1, <1>2 DEF Built
    <3> QED
      BY <3>2, <3>3 DEF Listens
  <2> QED
    BY <2>1
<1> HIDE DEF s, items
<1> DEFINE t == ItemAt(ui, items, s.p)
<1>5. t \in 0 .. Len(ui.button) /\ (t # 0 => t \in items)
  BY <1>1, <1>2, <1>3, ItemAtIs
<1>6. /\ Changes(u, ui) /\ Alike(u, ui) /\ u.depressed = ui.depressed
      /\ \A k \in 1 .. Len(ui.button) :
           u.button[k].active = IF k = t THEN s.down
                                ELSE (ui.button[k].active /\ ~ (k \in items /\ Listens(ui, k)))
  BY <1>1, <1>2, <1>3, FedItemsIs DEF items
<1>7. t = b
  BY DEF items
<1> HIDE DEF t, b, u
<1>8. u \in Ui /\ Len(u.button) = Len(ui.button)
  BY <1>6 DEF Changes
<1>9. Actives(w) = Actives(u) /\ w.depressed = u.depressed
  BY <1>8, RedrawPress
<1> HIDE DEF w
<1>10. /\ ui.depressed = fed
       /\ \A k \in 1 .. Len(ui.button) : ui.button[k].active => k \in items /\ k = pressed.button
  BY DEF PressInv, Actives, items
<1>11. ASSUME NEW k \in Actives(u) PROVE k = b /\ s.down /\ k \in items
  <2>1. k \in 1 .. Len(ui.button) /\ u.button[k].active
    BY <1>8 DEF Actives
  <2>2. k = t
    BY <2>1, <1>4, <1>6, <1>10
  <2> QED
    BY <2>1, <2>2, <1>2, <1>5, <1>6, <1>7
<1>12. ASSUME Clicks(ui, b, s.down) PROVE b = pressed.button /\ b \in Actives(ui) /\ Actives(u) = {}
  <2>1. b \in 1 .. Len(ui.button) /\ ui.button[b].active /\ ~ s.down /\ b # 0
    BY <1>5, <1>7, <1>12 DEF Clicks
  <2> QED
    BY <2>1, <1>10, <1>11 DEF Actives
<1> QED
  BY <1>1, <1>5, <1>6, <1>7, <1>9, <1>10, <1>11, <1>12 DEF s, b, u, w, items

\* The buttons of a screen that is shown, or changed without a press.
LEMMA PressIdle ==
  ASSUME Actives(ui') = {}, ui'.depressed = fed' \/ at' \in {"loop", "exited"}
  PROVE  PressInv'
BY DEF PressInv

\* What is pressed after a sample that the main loop handles.
LEMMA PressFeeds ==
  ASSUME UiInv, FingerOK, PressInv, Feed
  PROVE  /\ PressInv' /\ drawn' = drawn
         /\ \/ Actives(ui') = {}
            \/ /\ at' = "loop" /\ Head(samples).down
               /\ Actives(ui') = {Handler(ui, Head(samples).p)}
<1> DEFINE s == Head(samples)
           b == Handler(ui, s.p)
           u == Fed(ui, b, s.down)
           w == oltk_redraw(Depressed(u, b))
           cb == ui.button[b].cb
<1>0. at = "loop" /\ samples # <<>>
  BY DEF Feed
<1>1. /\ b \in 0 .. Len(ui.button) /\ u \in Ui
      /\ Len(u.button) = Len(ui.button) /\ u.depressed <= Len(u.button) /\ Built(u, board)
      /\ s \in Sample
  BY <1>0, FeedIs
<1>2. /\ \A k \in Actives(w) : k = b /\ s.down /\ w.depressed = b /\ Listens(w, k)
      /\ Clicks(ui, b, s.down) =>
           b = pressed.button /\ b \in Actives(ui) /\ Actives(u) = {} /\ u.depressed = b
  BY <1>0, FeedPress
<1>3. /\ fed' = b /\ board' = board
      /\ pressed' = IF s.down THEN [sample |-> s, button |-> b] ELSE pressed
      /\ \/ ui' = w /\ at' = at /\ drawn' = drawn
         \/ Clicks(ui, b, s.down) /\ next_test(u, b)
         \/ Clicks(ui, b, s.down) /\ on_test_by_function(u, ui.button[b].face)
         \/ /\ Clicks(ui, b, s.down) /\ at' = "popup"
            /\ Redrawn(ShowAll(u, {Dialog} \cup Items, TRUE))
  BY DEF Feed, Note, Redrawn
<1>4. board \in Boards /\ suite \in DOMAIN board
  BY DEF UiInv
<1> HIDE DEF s, b, u, cb, w
<1>5. CASE ui' = w /\ at' = at /\ drawn' = drawn
  <2>1. ASSUME NEW k \in Actives(ui') PROVE k = ui'.depressed /\ k = pressed'.button /\ Listens(ui', k)
    BY <1>2, <1>3, <1>5
  <2>2. PressInv'
    BY <2>1, <1>0, <1>5 DEF PressInv
  <2>3. Actives(w) = {} \/ (s.down /\ Actives(w) = {b})
    BY <1>2
  <2> QED
    BY <2>2, <2>3, <1>0, <1>5 DEF s, b
<1>6. CASE Clicks(ui, b, s.down) /\ (ui' = oltk_redraw(u) \/ ui' = u) /\ at' = "run" /\ drawn' = drawn
  <2>1. Actives(ui') = {} /\ ui'.depressed = fed'
    BY <1>1, <1>2, <1>3, <1>6, RedrawPress
  <2> QED
    BY <2>1, <1>6, PressIdle
<1>7. CASE /\ Clicks(ui, b, s.down) /\ Redrawn(Depressed(Selected(u, suite + 1), b))
           /\ at' = at /\ suite < Len(board)
  <2> DEFINE next == suite + 1
             v == Selected(u, next)
  <2>1. next \in DOMAIN board
    <3>1. suite \in Nat /\ DOMAIN board = 1 .. Len(board) /\ Len(board) \in Nat
      BY <1>4, BoardIs
    <3> QED
      BY <3>1, <1>4, <1>7
  <2>2. ui' = oltk_redraw(Depressed(v, b)) /\ drawn' = drawn
    BY <1>7 DEF Redrawn
  <2> HIDE DEF next
  <2>3. Changes(v, u) /\ v.depressed = u.depressed /\ Kept_active(v, u)
    BY <2>1, <1>1, <1>4, SelectedIs
  <2> HIDE DEF v
  <2>4. v \in Ui /\ Len(v.button) = Len(ui.button) /\ v.depressed <= Len(v.button)
    BY <2>3, <1>1 DEF Changes
  <2>5. Actives(v) = {}
    BY <2>3, <2>4, <1>1, <1>2, <1>7, ActivesSame
  <2>6. Actives(ui') = {}
    BY <2>2, <2>4, <2>5, <1>1, DepressedIdle
  <2> QED
    BY <2>2, <2>6, <1>0, <1>7, PressIdle
<1>8. CASE /\ Clicks(ui, b, s.down) /\ at' = "popup"
           /\ Redrawn(ShowAll(u, {Dialog} \cup Items, TRUE))
  <2> DEFINE yes == TRUE
             v == ShowAll(u, {Dialog} \cup Items, yes)
  <2>1. ui' = oltk_redraw(v) /\ drawn' = drawn /\ yes \in BOOLEAN
    BY <1>8 DEF Redrawn
  <2> HIDE DEF yes
  <2>2. Changes(v, u) /\ v.depressed = u.depressed /\ Kept_active(v, u)
    BY <2>1, <1>1, <1>4, DialogIs
  <2> HIDE DEF v
  <2>3. v \in Ui /\ Len(v.button) = Len(u.button)
    BY <2>2 DEF Changes
  <2>4. Actives(ui') = {} /\ ui'.depressed = fed'
    BY <2>1, <2>2, <2>3, <1>2, <1>3, <1>8, ActivesSame, RedrawPress
  <2> QED
    BY <2>1, <2>4, PressIdle
<1>9. CASE Clicks(ui, b, s.down) /\ next_test(u, b)
  BY <1>6, <1>7, <1>9 DEF next_test, on_test_by_function, Begin, Redrawn
<1>10. CASE Clicks(ui, b, s.down) /\ on_test_by_function(u, ui.button[b].face)
  BY <1>6, <1>10 DEF on_test_by_function, Begin, Redrawn
<1> QED
  BY <1>3, <1>5, <1>8, <1>9, <1>10

\* What is pressed after a sample that the popup handles.
LEMMA PressChooses ==
  ASSUME UiInv, FingerOK, PressInv, Choose
  PROVE  /\ PressInv' /\ drawn' = drawn
         /\ \/ Actives(ui') = {}
            \/ /\ at' = "popup" /\ Head(samples).down
               /\ Actives(ui') = {ItemAt(ui, Items, Head(samples).p)}
               /\ ItemAt(ui, Items, Head(samples).p) \in Items
<1> DEFINE s == Head(samples)
           b == ItemAt(ui, Items, s.p)
           u == FedItems(ui, Items, s.p, s.down)
           w == oltk_redraw(u)
           chosen == b - Dialog
<1>0. at = "popup" /\ samples # <<>>
  BY DEF Choose
<1>1. /\ \A k \in Actives(w) : k = b /\ s.down /\ k \in Items
      /\ w.depressed = fed /\ u.depressed = fed /\ Changes(u, ui) /\ Alike(u, ui)
      /\ s \in Sample /\ b \in 0 .. Len(ui.button)
      /\ Clicks(ui, b, s.down) => b = pressed.button /\ b \in Actives(ui) /\ Actives(u) = {}
  BY <1>0, ChoosePress
<1>2. /\ fed' = fed /\ board' = board
      /\ pressed' = IF s.down THEN [sample |-> s, button |-> b] ELSE pressed
      /\ \/ ui' = w /\ at' = at /\ drawn' = drawn
         \/ /\ Clicks(ui, b, s.down) /\ at' = "loop"
            /\ Redrawn(Depressed(Selected(ShowAll(u, {Dialog} \cup Items, FALSE), chosen), fed))
  BY DEF Choose, Note, Redrawn
<1>3. /\ board \in Boards /\ suite \in DOMAIN board /\ Built(ui, board) /\ fed \in 0 .. Len(ui.button)
  BY DEF UiInv
<1>4. Items' = Items
  BY <1>2, BoardStays
<1>5. PressInv => \A k \in Actives(ui) : k \in Items
  BY <1>0 DEF PressInv
<1>6. /\ Dialog \in Nat /\ Len(ui.button) = Dialog + Len(board) /\ Len(board) \in Nat
      /\ DOMAIN board = 1 .. Len(board) /\ ui \in Ui /\ ui.depressed <= Len(ui.button)
      /\ \A k : k \in Items <=> k \in 1 .. Len(ui.button) /\ k > Dialog
  <2>1. /\ Dialog \in Nat /\ Len(ui.button) = Dialog + Len(board) /\ Len(board) \in Nat
        /\ DOMAIN board = 1 .. Len(board)
        /\ \A k : k \in Items <=> k \in 1 .. Len(ui.button) /\ k > Dialog
    BY <1>3, Numbers
  <2>2. ui \in Ui /\ ui.depressed <= Len(ui.button)
    BY <1>3 DEF Built
  <2> QED
    BY <2>1, <2>2
<1> HIDE DEF s, b, u, w, chosen
<1>7. CASE ui' = w /\ at' = at /\ drawn' = drawn
  <2>1. \A k \in Actives(ui') : k \in Items' /\ k = pressed'.button
    BY <1>1, <1>2, <1>4, <1>7
  <2>2. PressInv'
    BY <2>1, <1>0, <1>1, <1>2, <1>7 DEF PressInv
  <2>3. Actives(w) = {} \/ (s.down /\ Actives(w) = {b} /\ b \in Items)
    BY <1>1
  <2> QED
    BY <2>2, <2>3, <1>0, <1>7 DEF s, b
<1>8. CASE /\ Clicks(ui, b, s.down) /\ at' = "loop"
           /\ Redrawn(Depressed(Selected(ShowAll(u, {Dialog} \cup Items, FALSE), chosen), fed))
  <2> DEFINE no == FALSE
             off == ShowAll(u, {Dialog} \cup Items, no)
             v   == Selected(off, chosen)
  <2>1. chosen \in DOMAIN board
    <3>1. b \in Items
      BY <1>1, <1>5, <1>8
    <3>2. chosen = b - Dialog
      BY DEF chosen
    <3>3. b \in 1 .. Dialog + Len(board) /\ b > Dialog
      BY <3>1, <1>6
    <3>4. b - Dialog \in 1 .. Len(board)
      BY <3>3, <1>6
    <3> QED
      BY <3>2, <3>4, <1>6
  <2>2. ui' = oltk_redraw(Depressed(v, fed)) /\ drawn' = drawn /\ no \in BOOLEAN
    BY <1>8 DEF Redrawn
  <2>3. Built(u, board) /\ u \in Ui /\ Len(u.button) = Len(ui.button) /\ u.depressed <= Len(u.button)
    BY <1>1, <1>3, <1>6, BuiltStays DEF Changes
  <2> HIDE DEF no
  <2>4. Changes(off, u) /\ Kept_active(off, u)
    BY <2>2, <2>3, <1>3, DialogIs
  <2> HIDE DEF off
  <2>5. Built(off, board) /\ Len(off.button) = Len(u.button) /\ off.depressed <= Len(u.button)
    BY <2>3, <2>4, <1>3, BuiltStays DEF Changes
  <2>6. Changes(v, off) /\ Kept_active(v, off)
    BY <2>1, <2>5, <1>3, SelectedIs
  <2> HIDE DEF v
  <2>7. v \in Ui /\ Len(v.button) = Len(ui.button) /\ v.depressed <= Len(v.button)
    BY <2>3, <2>5, <2>6 DEF Changes
  <2>8. Actives(v) = {}
    BY <2>3, <2>4, <2>5, <2>6, <2>7, <1>1, <1>8, ActivesSame
  <2>9. Actives(ui') = {}
    BY <2>2, <2>7, <2>8, <1>3, DepressedIdle
  <2> QED
    BY <2>2, <2>9, <1>8, PressIdle
<1> QED
  BY <1>2, <1>7, <1>8

\* Nothing is pressed and nothing shown or hidden.
LEMMA PressSame ==
  ASSUME PressInv, UNCHANGED <<board, fed, pressed>>, at' \in {at, "exited"},
         Len(ui'.button) = Len(ui.button), ui'.depressed = ui.depressed,
         \A b \in 1 .. Len(ui.button) : /\ ui'.button[b].active = ui.button[b].active
                                        /\ Listens(ui', b) <=> Listens(ui, b)
  PROVE  PressInv' /\ Actives(ui') = Actives(ui)
<1>1. Actives(ui') = Actives(ui)
  BY DEF Actives
<1>2. \A b \in Actives(ui) : b \in 1 .. Len(ui.button)
  BY DEF Actives
<1>3. Items' = Items
  BY BoardStays
<1> QED
  BY <1>1, <1>2, <1>3 DEF PressInv

\* What is pressed stays so while the buttons stay.
LEMMA PressStays ==
  ASSUME PressInv, UNCHANGED <<board, fed, pressed>>, at' \in {at, "exited"},
         ui'.button = ui.button, ui'.depressed = ui.depressed
  PROVE  PressInv' /\ Actives(ui') = Actives(ui)
BY PressSame DEF Listens

\* A text on the view.
LEMMA PressShows ==
  ASSUME UiInv, PressInv, NEW i \in Pids, NEW text \in Labels, Shows(i, text),
         UNCHANGED <<board, fed, pressed, at>>
  PROVE  PressInv' /\ Actives(ui') = Actives(ui)
<1>1. CASE i # 1
  <2>1. ui' = [ui EXCEPT !.screen = Paint(ui.screen, PointsOf(Layout.view), <<View, text>>)]
    BY <1>1 DEF Shows
  <2>2. ui \in Ui
    BY DEF UiInv, Built
  <2>3. ui'.button = ui.button /\ ui'.depressed = ui.depressed
    BY <2>1, <2>2 DEF Ui
  <2> QED
    BY <2>3, PressStays
<1>2. CASE i = 1
  <2> DEFINE u == oltk_button_set_name(ui, View, text)
  <2>1. ui' = oltk_redraw(u)
    BY <1>2 DEF Shows, Redrawn, oltk_view_set_text
  <2>2. ui \in Ui /\ View \in 1 .. Len(ui.button) /\ View \in {View, Popup}
    BY Numbers DEF UiInv
  <2>3. u \in Ui /\ Changes(u, ui) /\ Alike(u, ui) /\ Kept_active(u, ui) /\ u.depressed = ui.depressed
    BY <2>2, SetNameIs
  <2> HIDE DEF u
  <2>4. Len(u.button) = Len(ui.button)
    BY <2>3 DEF Changes
  <2>5. /\ Len(ui'.button) = Len(ui.button) /\ ui'.depressed = ui.depressed
        /\ Kept_active(ui', u)
    BY <2>1, <2>3, <2>4, RedrawIs
  <2>6. \A b \in 1 .. Len(ui.button) : Listens(ui', b) <=> Listens(ui, b)
    BY <2>1, <2>2, <2>3, <2>4, RedrawPress, ChangesListens
  <2>7. \A b \in 1 .. Len(ui.button) : ui'.button[b].active = ui.button[b].active
    BY <2>3, <2>4, <2>5 DEF Kept_active
  <2> QED
    BY <2>5, <2>6, <2>7, PressSame
<1> QED
  BY <1>1, <1>2

\* After a test nothing is pressed.
LEMMA PressReturns ==
  ASSUME UiInv, PressInv, Return
  PROVE  PressInv' /\ Actives(ui') = {}
<1>1. at = "run" /\ at' = "loop" /\ ui' = oltk_redraw(Depressed(ui, fed))
  BY DEF Return, Redrawn
<1>2. Actives(ui) = {}
  BY <1>1 DEF PressInv
<1>3. ui \in Ui /\ fed \in 0 .. Len(ui.button) /\ ui.depressed <= Len(ui.button)
  BY DEF UiInv, Built
<1>4. Actives(ui') = {}
  BY <1>1, <1>2, <1>3, DepressedIdle
<1> QED
  BY <1>1, <1>4, PressIdle

\* What a step of a process may do to the screen and to the finger's samples.
LEMMA WorksShow ==
  ASSUME MachineInv, UiInv, NEW i \in Pids,
         Works(i) \/ Key(i) \/ Steals(i) \/ excute_request(i)
  PROVE  /\ UNCHANGED <<board, suite, test, fed, pressed, clicked>> /\ at' \in {at, "exited"}
         /\ procs[i].prog # <<>> /\ (blocked => blocked') /\ samples' \in {samples, <<>>}
         /\ \/ UNCHANGED <<ui, drawn>>
            \/ at' = at /\ \E text \in Labels : Shows(i, text)
<1>1. /\ UNCHANGED <<board, suite, test, fed, pressed, clicked>> /\ at' \in {at, "exited"}
      /\ procs[i].prog # <<>> /\ (blocked => blocked') /\ samples' \in {samples, <<>>}
      /\ \/ UNCHANGED <<ui, drawn>>
         \/ at' = at /\ \E text \in {"ON", "Fail", "PASS", "FAIL"} : Shows(i, text)
         \/ at' = at /\ Shows(i, Step(i).arg)
  <2>0. blocked \in BOOLEAN
    BY DEF UiInv
  <2>1. CASE Fork(i) \/ Path(i) \/ Countdown(i) \/ Power(i) \/ Kill(i) \/ Copy(i) \/ Bind(i)
    BY <2>0, <2>1 DEF Fork, Path, Countdown, Power, Kill, Copy, Bind, control, history, finger,
       Does, Drained
  <2>2. CASE Key(i) \/ Steals(i) \/ excute_request(i) \/ Respond(i) \/ File(i)
    <3>1. CASE Key(i)
      BY <2>0, <3>1 DEF Key, control, history, finger, Does, Drained
    <3>2. CASE Steals(i)
      BY <2>0, <3>2 DEF Steals, control, history, finger, Does, Drained
    <3>3. CASE excute_request(i)
      BY <2>0, <3>3 DEF excute_request, control, history, finger, Does, Drained
    <3>4. CASE Respond(i)
      BY <2>0, <3>4 DEF Respond, control, history, finger, Does, Drained
    <3>5. CASE File(i)
      BY <2>0, <3>5 DEF File, control, history, finger, Does, Drained
    <3> QED
      BY <2>2, <3>1, <3>2, <3>3, <3>4, <3>5
  <2>3. CASE Block(i)
    BY <2>0, <2>3 DEF Block, control, finger, Does
  <2>4. CASE Text(i)
    BY <2>0, <2>4 DEF Text, control, finger, Does
  <2>5. CASE Set(i)
    BY <2>0, <2>5 DEF Set, control, finger, Does
  <2>6. CASE Need(i)
    BY <2>0, <2>6 DEF Need, control, finger, Does
  <2>7. CASE Judge(i)
    <3>1. \E text \in {"ON", "Fail", "PASS", "FAIL"} : Shows(i, text)
      BY <2>7 DEF Judge
    <3> QED
      BY <3>1, <2>0, <2>7 DEF Judge, control, finger, Does
  <2> QED
    BY <2>1, <2>2, <2>3, <2>4, <2>5, <2>6, <2>7 DEF Works
<1>2. Step(i).arg \in Labels
  <2>1. procs[i].prog \in Seq(AnyStep)
    BY DEF MachineInv, ProcsOK, Process
  <2>2. Step(i) \in AnyStep
    BY <2>1, <1>1 DEF Step
  <2> QED
    BY <2>2 DEF AnyStep, Labels
<1>3. {"ON", "Fail", "PASS", "FAIL"} \subseteq Labels
  BY DEF Labels, Args, Texts
<1>4. CASE at' = at /\ \E text \in {"ON", "Fail", "PASS", "FAIL"} : Shows(i, text)
  BY <1>1, <1>3, <1>4
<1>5. CASE at' = at /\ Shows(i, Step(i).arg)
  BY <1>1, <1>2, <1>5
<1> QED
  BY <1>1, <1>4, <1>5

\* No step of a process presses anything.
LEMMA PressWorks ==
  ASSUME MachineInv, UiInv, PressInv, NEW i \in Pids,
         Works(i) \/ Key(i) \/ Steals(i) \/ excute_request(i)
  PROVE  PressInv' /\ Actives(ui') = Actives(ui)
<1>1. /\ UNCHANGED <<board, fed, pressed>> /\ at' \in {at, "exited"}
      /\ UNCHANGED ui \/ (at' = at /\ \E text \in Labels : Shows(i, text))
  BY WorksShow
<1> QED
  BY <1>1, PressStays, PressShows

\* The program's own steps, and those of its children, as they change its program.
LEMMA MainMoves ==
  ASSUME MachineInv, Works(1) \/ Key(1) \/ Steals(1) \/ excute_request(1)
  PROVE  /\ Main # <<>> /\ at = "run" /\ at' \in {"run", "exited"} /\ Main' \in {Tail(Main), <<>>}
         /\ Main[1].op = "block" => blocked'
         /\ Main[1].op \in {"wait", "waitchild"} => samples' = <<>>
<1>1. 1 \in Pids /\ procs[1].prog = Main /\ procs \in [Pids -> Process] /\ ProcsOK
  BY StationAssumption DEF Pids, Main, MachineInv, ProcsOK
<1>2. Main # <<>>
  BY <1>1 DEF Works, Key, Steals, excute_request, Fork, Path, Countdown, Block, Text, Set, Power,
     File, Need, Kill, Judge, Copy, Bind, Respond, Does
<1>3. Main[1] \in TestStep /\ at = "run" /\ \A op : Does(1, op) <=> Main[1].op = op
  BY <1>2, MainStep
<1>4. ~ Key(1) /\ ~ Steals(1) /\ ~ excute_request(1) /\ ~ Bind(1) /\ ~ Respond(1)
  BY <1>3 DEF Key, Steals, excute_request, Bind, Respond, TestStep, PlainOps, FileOps
<1>5. Then(1) \in [Pids -> Process] /\ Then(1)[1].prog = Tail(Main)
  <2>1. /\ Then(1) \in [Pids -> Process]
        /\ Then(1)[1] = [procs[1] EXCEPT !.prog = Tail(procs[1].prog)]
    BY <1>1, <1>2, ThenIs
  <2>2. procs[1] \in Process
    BY <1>1
  <2> QED
    BY <1>1, <2>1, <2>2 DEF Process
<1>6. Stops(1)[1].prog = <<>>
  <2>1. Stops(1)[1] = [procs[1] EXCEPT !.prog = <<>>]
    BY <1>1 DEF Stops
  <2>2. procs[1] \in Process
    BY <1>1
  <2> QED
    BY <2>1, <2>2 DEF Process
<1>7. ASSUME procs' = Then(1) \/ procs' = Stops(1) PROVE Main' \in {Tail(Main), <<>>}
  BY <1>5, <1>6, <1>7 DEF Main
<1>8. CASE Path(1) \/ Countdown(1) \/ Block(1) \/ Text(1) \/ Set(1) \/ Power(1)
  <2>1. procs' = Then(1) \/ procs' = Stops(1)
    BY <1>8 DEF Path, Countdown, Block, Text, Set, Power
  <2>2. at' = at
    BY <1>8 DEF Path, Countdown, Block, Text, Set, Power, control
  <2>3. Main[1].op = "block" => blocked'
    BY <1>3, <1>8 DEF Path, Countdown, Block, Text, Set, Power
  <2>4. Main[1].op \in {"wait", "waitchild"} => samples' = <<>>
    BY <1>3, <1>8 DEF Path, Countdown, Block, Text, Set, Power, Drained
  <2> QED
    BY <1>2, <1>3, <1>7, <2>1, <2>2, <2>3, <2>4
<1>9. CASE Need(1) \/ Judge(1)
  <2>1. procs' = Then(1) \/ procs' = Stops(1)
    BY <1>9 DEF Need, Judge
  <2> QED
    BY <1>2, <1>3, <1>7, <1>9, <2>1 DEF Need, Judge, control
<1>10. CASE File(1)
  <2>1. at' = at /\ Main[1].op \in {"unlink", "open", "fill", "append", "make"}
    BY <1>3, <1>10 DEF File, control
  <2>2. CASE procs' = Then(1)
    BY <1>2, <1>3, <1>7, <2>1, <2>2
  <2>3. CASE \E n : procs' = [Then(1) EXCEPT ![1].fd = n]
    <3>1. PICK n : procs' = [Then(1) EXCEPT ![1].fd = n]
      BY <2>3
    <3>2. procs'[1] = [Then(1)[1] EXCEPT !.fd = n]
      BY <3>1, <1>1, <1>5
    <3>3. Then(1)[1] \in Process
      BY <1>1, <1>5
    <3>4. procs'[1].prog = Tail(Main)
      BY <3>2, <3>3, <1>5 DEF Process
    <3> QED
      BY <1>2, <1>3, <2>1, <3>4 DEF Main
  <2> QED
    BY <1>10, <2>2, <2>3 DEF File
<1>11. CASE Kill(1)
  <2>1. procs'[1] = Then(1)[1] /\ Main[1].op = "kill" /\ at' = at
    BY <1>1, <1>3, <1>11 DEF Kill, control
  <2> QED
    BY <1>2, <1>3, <1>5, <2>1 DEF Main
<1>12. CASE Copy(1)
  <2>1. Main[1].op \in {"truncate", "copy"} /\ at' = at
    BY <1>3, <1>12 DEF Copy, control
  <2>2. procs' = [c \in Pids |-> [Then(1)[c] EXCEPT !.torn = Then(1)[c].torn \/ Then(1)[c].what = "request"]]
    BY <1>12 DEF Copy
  <2> DEFINE torn == Then(1)[1].torn \/ Then(1)[1].what = "request"
  <2>3. procs'[1] = [Then(1)[1] EXCEPT !.torn = torn] /\ Then(1)[1] \in Process
    BY <1>1, <1>5, <2>2
  <2> HIDE DEF torn
  <2>4. procs'[1].prog = Tail(Main)
    BY <1>5, <2>3 DEF Process
  <2> QED
    BY <1>2, <1>3, <2>1, <2>4 DEF Main
<1>13. CASE Fork(1)
  <2>1. Main[1].op \in {"fork", "spawn"} /\ at' \in {at, "exited"}
    BY <1>3, <1>13 DEF Fork
  <2>2. CASE \E c \in Pids : c # 1 /\ \E x : procs' = [Then(1) EXCEPT ![c] = x]
    <3>1. procs'[1] = Then(1)[1]
      BY <1>1, <1>5, <2>2
    <3> QED
      BY <1>2, <1>3, <1>5, <2>1, <3>1 DEF Main
  <2>3. CASE procs' = [procs EXCEPT ![1] = [procs[1] EXCEPT !.prog = <<>>]]
    <3>1. procs'[1] = [procs[1] EXCEPT !.prog = <<>>] /\ procs[1] \in Process
      BY <1>1, <2>3
    <3>2. procs'[1].prog = <<>>
      BY <3>1 DEF Process
    <3> QED
      BY <1>2, <1>3, <2>1, <3>2 DEF Main
  <2> QED
    BY <1>13, <2>2, <2>3 DEF Fork
<1> QED
  BY <1>4, <1>8, <1>9, <1>10, <1>11, <1>12, <1>13 DEF Works

\* A child's step leaves the program of the test alone.
LEMMA ChildMoves ==
  ASSUME MachineInv, NEW c \in Pids \ {1}, Works(c) \/ Key(c) \/ Steals(c) \/ excute_request(c)
  PROVE  Main' = Main
<1>0. 1 \in Pids /\ procs \in [Pids -> Process]
  BY StationAssumption DEF Pids, MachineInv, ProcsOK
<1>1. procs[c].prog # <<>>
  <2>1. CASE Works(c)
    <3>1. CASE Fork(c) \/ Path(c) \/ Countdown(c) \/ Block(c) \/ Text(c) \/ Set(c)
      BY <3>1 DEF Fork, Path, Countdown, Block, Text, Set, Does
    <3>2. CASE Power(c) \/ File(c) \/ Need(c) \/ Kill(c)
      BY <3>2 DEF Power, File, Need, Kill, Does
    <3>3. CASE Judge(c) \/ Copy(c) \/ Bind(c) \/ Respond(c)
      BY <3>3 DEF Judge, Copy, Bind, Respond, Does
    <3> QED
      BY Zenon, <2>1, <3>1, <3>2, <3>3 DEF Works
  <2>2. CASE Key(c)
    BY <2>2 DEF Key, Does
  <2>3. CASE Steals(c)
    BY <2>3 DEF Steals, Does
  <2>4. CASE excute_request(c)
    BY <2>4 DEF excute_request, Does
  <2> QED
    BY <2>1, <2>2, <2>3, <2>4
<1>2. Step(c) \in ChildStep(procs[c].what) /\ \A op : Does(c, op) <=> Step(c).op = op
  BY <1>1, ChildStepIs
<1>3. ~ Fork(c) /\ ~ Need(c) /\ ~ Kill(c) /\ ~ Judge(c) /\ ~ Copy(c)
  BY <1>2 DEF Fork, Need, Kill, Judge, Copy, ChildStep, ChildOps
<1>4. CASE Steals(c)
  BY <1>4 DEF Steals, machine, Main
<1>5. CASE excute_request(c)
  <2>1. \E d \in Pids : \E x : d # 1 /\ procs' = [procs EXCEPT ![d] = x]
    BY <1>5 DEF excute_request
  <2> QED
    BY <1>0, <2>1 DEF Main
<1>6. Then(c)[1] = procs[1] /\ Then(c) \in [Pids -> Process] /\ Stops(c)[1] = procs[1]
  <2>1. Stops(c)[1] = procs[1]
    BY <1>0 DEF Stops
  <2>2. ProcsOK /\ c \in Pids /\ 1 \in Pids \ {c}
    BY <1>0 DEF MachineInv
  <2>3. Then(c) \in [Pids -> Process] /\ \A d \in Pids \ {c} : Then(c)[d] = procs[d]
    BY <1>1, <2>2, ThenIs
  <2> QED
    BY <2>1, <2>2, <2>3
<1>7. ASSUME \/ procs' = Then(c) \/ procs' = Stops(c)
             \/ \E x : procs' = [Then(c) EXCEPT ![c] = x]
      PROVE  Main' = Main
  BY <1>0, <1>6, <1>7 DEF Main
<1>8. CASE Path(c) \/ Countdown(c) \/ Block(c) \/ Text(c) \/ Set(c) \/ Power(c) \/ Key(c) \/ Bind(c)
  <2>1. procs' = Then(c) \/ procs' = Stops(c)
    BY <1>8 DEF Path, Countdown, Block, Text, Set, Power, Key, Bind
  <2> QED
    BY <1>7, <2>1
<1>9. CASE File(c)
  <2>1. procs' = Then(c) \/ \E x : procs' = [Then(c) EXCEPT ![c] = x]
    BY <1>9 DEF File
  <2> QED
    BY <1>7, <2>1
<1>10. CASE Respond(c)
  <2>1. procs' = Then(c) \/ procs' = Stops(c) \/ \E x : procs' = [Then(c) EXCEPT ![c] = x]
    BY <1>10 DEF Respond
  <2> QED
    BY <1>7, <2>1
<1> QED
  BY <1>3, <1>4, <1>5, <1>8, <1>9, <1>10 DEF Works

\* A fill follows a block in the rest of a program too, once the block is done.
LEMMA TailBlocks ==
  ASSUME NEW X, NEW p \in Seq(X), p # <<>>, Blocks(p), p[1].op # "block"
  PROVE  Blocks(Tail(p))
<1>1. /\ Len(p) \in Nat \ {0} /\ Len(Tail(p)) = Len(p) - 1
      /\ \A k \in 1 .. Len(p) - 1 : Tail(p)[k] = p[k + 1]
  BY TailOf
<1>2. ASSUME NEW k \in 1 .. Len(p) - 1, Tail(p)[k].op = "fill"
      PROVE  k >= 3 /\ Tail(p)[k - 2].op = "block"
  <2>1. k + 1 \in 1 .. Len(p) /\ p[k + 1].op = "fill"
    BY <1>1, <1>2
  <2>2. k + 1 >= 3 /\ p[(k + 1) - 2].op = "block"
    BY <2>1 DEF Blocks
  <2>3. (k + 1) - 2 = k - 1 /\ k - 1 # 1 /\ k >= 2
    BY <2>2
  <2>4. k - 2 \in 1 .. Len(p) - 1 /\ (k - 2) + 1 = k - 1 /\ k >= 3
    BY <1>1, <2>3
  <2> QED
    BY <1>1, <2>2, <2>3, <2>4
<1> QED
  BY <1>1, <1>2 DEF Blocks

\* What the operator sees while the program listens is the topmost button there.
LEMMA SeenRight ==
  ASSUME UiInv, PaintInv, at \in {"loop", "popup"}, NEW p \in Points
  PROVE  ui.screen[p][1] \in Seen(Topmost(ui, p))
<1>1. ui \in Ui /\ Clean(ui) /\ (RightAt(ui, p) \/ (drawn /\ Overdrawn(ui, p)))
  BY DEF UiInv, PaintInv, Built
<1>2. CASE drawn /\ Overdrawn(ui, p)
  BY <1>2 DEF Overdrawn, Seen
<1>3. CASE RightAt(ui, p)
  <2>1. ~ Covers(Empty, p)
    BY DEF Covers, Empty, Points
  <2>2. Topmost(ui, p) # 0 => ~ ui.button[Topmost(ui, p)].update
    BY <1>1, TopmostIs DEF Clean
  <2>3. ui.screen[p] = Picture(ui)[p]
    BY <1>1, <1>3, <2>1, <2>2 DEF RightAt, Clean
  <2>4. Picture(ui)[p] = IF Topmost(ui, p) = 0 THEN Background ELSE Face(ui, Topmost(ui, p))
    BY DEF Picture
  <2>5. Picture(ui)[p][1] = Topmost(ui, p)
    <3>1. CASE Topmost(ui, p) = 0
      BY <2>4, <3>1 DEF Background
    <3>2. CASE Topmost(ui, p) # 0
      BY <2>4, <3>2 DEF Face
    <3> QED
      BY <3>1, <3>2
  <2> QED
    BY <2>3, <2>5 DEF Seen
<1> QED
  BY <1>1, <1>2, <1>3

\* The button that handles a sample is the one on top there.
LEMMA HandlerTop ==
  ASSUME UiInv, at = "loop", NEW p \in Points, Handler(ui, p) # 0
  PROVE  Topmost(ui, p) = Handler(ui, p)
<1> DEFINE b == Handler(ui, p)
           t == Topmost(ui, p)
           n == Len(ui.button)
<1>1. /\ ui \in Ui /\ board \in Boards /\ Built(ui, board) /\ ShownOf(ui, suite, FALSE)
      /\ n \in Nat
  <2>1. ui \in Ui /\ board \in Boards /\ Built(ui, board) /\ ShownOf(ui, suite, FALSE)
    BY DEF UiInv, Built
  <2> QED
    BY <2>1, UiIs
<1>2. /\ b \in 1 .. n /\ Listens(ui, b) /\ Covers(ui.button[b].rect, p)
      /\ \A k \in 1 .. n : Listens(ui, k) /\ Covers(ui.button[k].rect, p) => k <= b
  BY <1>1, HandlerIs
<1>3. /\ t \in 0 .. n /\ (t # 0 => t \in 1 .. n /\ ui.button[t].show /\ Covers(ui.button[t].rect, p))
      /\ \A k \in 1 .. n : ui.button[k].show /\ Covers(ui.button[k].rect, p) => k <= t
  BY <1>1, TopmostIs
<1>4. Dialog \in Nat /\ Dialog = Popup + 1 /\ Popup \in Nat
  BY <1>1, Numbers
<1> HIDE DEF b, t, n
<1>5. b <= t
  BY <1>2, <1>3 DEF Listens
<1>6. b # View
  BY <1>1, <1>2 DEF Listens, Built, n
<1>7. t \in 1 .. n /\ t # View
  BY <1>2, <1>3, <1>5, <1>6, <1>1 DEF View
<1>8. t # Dialog
  <2>1. ASSUME t = Dialog PROVE FALSE
    <3>1. ~ ui.button[t].show
      BY <1>1, <1>4, <1>7, <2>1 DEF ShownOf, n
    <3> QED
      BY <1>3, <1>7, <3>1
  <2> QED
    BY <2>1
<1>9. Listens(ui, t)
  BY <1>1, <1>3, <1>7, <1>8 DEF Listens, Built, n
<1>10. t <= b
  BY <1>2, <1>3, <1>7, <1>9
<1> QED
  BY <1>1, <1>2, <1>3, <1>5, <1>10 DEF b, t

\* The item that handles a sample is the button on top there.
LEMMA ItemTop ==
  ASSUME UiInv, at = "popup", NEW p \in Points, ItemAt(ui, Items, p) # 0
  PROVE  Topmost(ui, p) = ItemAt(ui, Items, p)
<1> DEFINE items == Items
           b == ItemAt(ui, items, p)
           t == Topmost(ui, p)
           n == Len(ui.button)
<1>1. /\ ui \in Ui /\ board \in Boards /\ Built(ui, board) /\ n \in Nat
  <2>1. ui \in Ui /\ board \in Boards /\ Built(ui, board)
    BY DEF UiInv, Built
  <2> QED
    BY <2>1, UiIs
<1>2. Dialog \in Nat /\ Dialog >= 2 /\ \A k : k \in items <=> k \in 1 .. n /\ k > Dialog
  <2>1. /\ Dialog \in Nat /\ Dialog = Popup + 1 /\ Popup \in Nat /\ Popup >= 5
        /\ \A k : k \in Items <=> k \in 1 .. Len(ui.button) /\ k > Dialog
    BY <1>1, Numbers
  <2>2. Dialog >= 2
    BY <2>1
  <2> QED
    BY <2>1, <2>2
<1>3. items \subseteq 1 .. n
  BY <1>2
<1> HIDE DEF items
<1>4. /\ b \in items /\ Listens(ui, b) /\ Covers(ui.button[b].rect, p)
      /\ \A k \in items : Listens(ui, k) /\ Covers(ui.button[k].rect, p) => k <= b
  <2>1. b # 0
    BY DEF items
  <2> QED
    BY <1>1, <1>3, <2>1, ItemAtIs
<1>5. /\ t \in 0 .. n /\ (t # 0 => t \in 1 .. n /\ ui.button[t].show /\ Covers(ui.button[t].rect, p))
      /\ \A k \in 1 .. n : ui.button[k].show /\ Covers(ui.button[k].rect, p) => k <= t
  BY <1>1, TopmostIs
<1>6. b \in 1 .. n /\ b > Dialog
  BY <1>2, <1>4
<1> HIDE DEF b, t, n
<1>7. b <= t
  BY <1>4, <1>5, <1>6 DEF Listens
<1>8. t \in 1 .. n /\ t > Dialog /\ t # View /\ t # Dialog
  BY <1>1, <1>2, <1>5, <1>6, <1>7 DEF View
<1>9. t \in items /\ Listens(ui, t)
  BY <1>1, <1>2, <1>5, <1>8 DEF Listens, Built, n
<1>10. t <= b
  BY <1>4, <1>5, <1>8, <1>9
<1> QED
  BY <1>1, <1>5, <1>6, <1>7, <1>10 DEF b, t, items

\* The sample that the program handles was heard as it was touched.
LEMMA HeardFirst ==
  ASSUME HeardInv, FingerOK, ~ blocked, at \in {"loop", "popup"}, samples # <<>>
  PROVE  /\ Tail(samples) = <<>>
         /\ Head(samples).when = at
         /\ Head(samples).seen \in Seen(Topmost(ui, Head(samples).p))
<1>1. samples \in Seq(Sample)
  BY DEF FingerOK
<1>2. Len(samples) \in Nat \ {0} /\ Tail(samples) \in Seq(Sample) /\ Len(Tail(samples)) = Len(samples) - 1
      /\ Head(samples) = samples[1]
  BY <1>1, TailOf
<1>3. Len(samples) <= 1 /\ samples[1].when = at /\ samples[1].seen \in Seen(Topmost(ui, samples[1].p))
  BY <1>2 DEF HeardInv, Heard
<1>4. Len(Tail(samples)) <= 0
  BY <1>2, <1>3
<1> DEFINE q == Tail(samples)
<1>5. q = <<>>
  <2>1. q \in Seq(Sample) /\ Len(q) <= 0
    BY <1>2, <1>4
  <2> HIDE DEF q
  <2> QED
    BY <2>1
<1> QED
  BY <1>2, <1>3, <1>5

\* A click is on what was pressed and seen; otherwise nothing is clicked.
LEMMA PressedSo ==
  ASSUME PressInv, HeardInv, FingerOK, AsPressed, at \in {"loop", "popup"}, samples # <<>>,
         drawn' = drawn, NEW b, Note(Head(samples), b),
         Clicks(ui, b, Head(samples).down) => b = pressed.button /\ b \in Actives(ui)
  PROVE  AsPressed'
<1> DEFINE s == Head(samples)
<1>1. CASE ~ Clicks(ui, b, s.down)
  <2>1. clicked' = clicked
    BY <1>1 DEF Note
  <2> QED
    BY <2>1 DEF AsPressed
<1>2. CASE Clicks(ui, b, s.down)
  <2>1. clicked' = [button |-> b, press |-> pressed, release |-> s, blocked |-> blocked]
    BY <1>2 DEF Note
  <2> DEFINE was == blocked
  <2>2. /\ clicked'.button = b /\ clicked'.press = pressed /\ clicked'.release = s
        /\ clicked'.blocked = was
    <3>1. clicked' = [button |-> b, press |-> pressed, release |-> s, blocked |-> was]
      BY <2>1
    <3> HIDE DEF was, s
    <3> QED
      BY <3>1
  <2>3. b = pressed.button
    BY <1>2
  <2>4. ASSUME ~ blocked
        PROVE  /\ pressed.sample.when # "run" /\ pressed.sample.seen \in Seen(pressed.button)
               /\ s.when # "run"
    <3>1. Actives(ui) # {}
      BY <1>2
    <3>2. s.when = at
      BY <2>4, HeardFirst
    <3> QED
      BY <2>4, <3>1, <3>2 DEF HeardInv, Told
  <2> HIDE DEF s
  <2>5. ASSUME ~ blocked PROVE \/ pressed.sample.seen = b
                               \/ drawn /\ pressed.sample.seen = View
    BY <2>3, <2>4, <2>5 DEF Seen
  <2> QED
    BY <2>2, <2>3, <2>4, <2>5 DEF AsPressed, was
<1> QED
  BY <1>1, <1>2

\* A test that begins, or none.
LEMMA FeedBegins ==
  ASSUME MachineInv, UiInv, FingerOK, Feed
  PROVE  \/ at' \in {"loop", "popup"}
         \/ at' = "run" /\ Main' \in Good
<1> DEFINE s == Head(samples)
           b == Handler(ui, s.p)
           u == Fed(ui, b, s.down)
           cb == ui.button[b].cb
<1>0. at = "loop" /\ samples # <<>>
  BY DEF Feed
<1>1. b # 0 => b \in 1 .. Len(ui.button) /\ ui.button[b].show
  BY <1>0, FeedIs
<1>2. 1 \in Pids /\ procs \in [Pids -> Process]
  BY StationAssumption DEF Pids, MachineInv, ProcsOK
<1>3. /\ board \in Boards /\ suite \in DOMAIN board /\ test \in 0 .. Len(board[suite])
      /\ Built(ui, board) /\ ShownOf(ui, suite, FALSE)
      /\ Len(board[suite]) \in Nat /\ board[suite] \in Seq(DOMAIN TestFunctions)
  BY <1>0, BoardIs DEF UiInv
<1>4. \/ at' \in {"loop", "popup"}
      \/ next_test(u, b)
      \/ b # 0 /\ cb = "test" /\ Begin(ui.button[b].face)
  BY <1>0 DEF Feed, Clicks, on_test_by_function
<1> HIDE DEF s, b, u, cb
<1>5. ASSUME NEW t \in DOMAIN TestFunctions, Begin(t) PROVE at' = "run" /\ Main' \in Good
  <2> DEFINE p == TestFunctions[t]
             n == runs + 1
             mid == [procs[1] EXCEPT !.prog = p]
  <2>1. at' = "run" /\ procs' = [procs EXCEPT ![1].prog = p, ![1].run = n]
    BY <1>5 DEF Begin
  <2>2. p \in Good
    BY TestsGood
  <2>3. procs[1] \in Process
    BY <1>2
  <2> HIDE DEF p, n
  <2>4. mid.prog = p /\ [mid EXCEPT !.run = n].prog = mid.prog
    BY <2>3 DEF Process
  <2>5. procs'[1] = [mid EXCEPT !.run = n]
    BY <2>1, <2>3, <1>2 DEF Process
  <2> QED
    BY <2>1, <2>2, <2>4, <2>5 DEF Main
<1>6. CASE next_test(u, b)
  <2>1. CASE test < Len(board[suite]) /\ Begin(board[suite][test + 1])
    <3> DEFINE t == board[suite][test + 1]
    <3>1. test + 1 \in 1 .. Len(board[suite])
      BY <2>1, <1>3
    <3>2. t \in DOMAIN TestFunctions /\ Begin(t)
      BY <2>1, <3>1, <1>3
    <3> HIDE DEF t
    <3> QED
      BY <3>2, <1>5
  <2>2. CASE at' = at
    BY <2>2, <1>0
  <2>3. CASE Begin("log")
    <3> DEFINE t == "log"
    <3>1. t \in DOMAIN TestFunctions /\ Begin(t)
      BY <2>3, LogTest
    <3> HIDE DEF t
    <3> QED
      BY <3>1, <1>5
  <2> QED
    BY <1>6, <2>1, <2>2, <2>3 DEF next_test, on_test_by_function
<1>7. CASE b # 0 /\ cb = "test" /\ Begin(ui.button[b].face)
  <2>1. ui.button[b].face \in DOMAIN TestFunctions
    BY <1>1, <1>3, <1>7, TestButton DEF cb
  <2> QED
    BY <2>1, <1>5, <1>7
<1> QED
  BY <1>4, <1>6, <1>7

\* What is heard after a sample was handled, by a button that may have been pressed with it.
LEMMA HeardAfter ==
  ASSUME HeardInv, FingerOK, at \in {"loop", "popup"}, samples # <<>>, samples' = Tail(samples),
         blocked' = blocked, drawn' = drawn, NEW b, Note(Head(samples), b),
         \/ Actives(ui') = {}
         \/ Head(samples).down /\ Topmost(ui, Head(samples).p) = b,
         \/ at' \in {"loop", "popup"}
         \/ at' = "run" /\ Main' \in Good
  PROVE  HeardInv'
<1> SUFFICES ASSUME ~ blocked PROVE HeardInv'
  BY DEF HeardInv
<1> DEFINE s == Head(samples)
<1>1. samples' = <<>> /\ s.when = at /\ s.seen \in Seen(Topmost(ui, s.p))
  BY HeardFirst
<1> HIDE DEF s
<1>2. Heard'
  <2>1. Len(samples') <= 1 /\ 1 .. Len(samples') = {}
    BY <1>1
  <2> QED
    BY <2>1 DEF Heard
<1>3. ASSUME Actives(ui') # {}
      PROVE  Told'
  <2>1. s.down /\ Topmost(ui, s.p) = b
    BY <1>3 DEF s
  <2>2. pressed' = [sample |-> s, button |-> b]
    BY <2>1 DEF Note, s
  <2>3. pressed'.sample = s /\ pressed'.button = b
    BY <2>2
  <2>4. s.seen \in Seen(b)
    BY <1>1, <2>1
  <2> QED
    BY <1>1, <2>3, <2>4 DEF Seen, Told
<1>4. CASE at' \in {"loop", "popup"}
  BY <1>1, <1>2, <1>3, <1>4 DEF HeardInv
<1>5. CASE at' = "run" /\ Main' \in Good
  <2>1. Blocks(Main')
    BY <1>5 DEF Good, Whole
  <2> QED
    BY <1>1, <1>5, <2>1 DEF HeardInv
<1> QED
  BY <1>4, <1>5

\* What is heard and clicked by a sample that the main loop handles.
LEMMA HeardFeeds ==
  ASSUME MachineInv, UiInv, PaintInv, FingerOK, PressInv, HeardInv, AsPressed, Feed
  PROVE  PressInv' /\ HeardInv' /\ AsPressed'
<1> DEFINE s == Head(samples)
           b == Handler(ui, s.p)
<1>0. /\ at = "loop" /\ samples # <<>> /\ samples' = Tail(samples) /\ blocked' = blocked
      /\ Note(s, b)
  BY DEF Feed
<1>1. /\ PressInv' /\ drawn' = drawn
      /\ \/ Actives(ui') = {}
         \/ s.down /\ Actives(ui') = {b}
  BY PressFeeds
<1>2. Clicks(ui, b, s.down) => b = pressed.button /\ b \in Actives(ui)
  BY <1>0, FeedPress
<1>3. s.p \in Points /\ s \in Sample
  <2>1. s \in Sample
    BY <1>0, FeedIs
  <2> QED
    BY <2>1 DEF Sample
<1>4. Actives(ui') = {} \/ (s.down /\ Topmost(ui, s.p) = b)
  <2>1. ASSUME s.down, Actives(ui') = {b} PROVE Topmost(ui, s.p) = b
    <3>1. b \in 1 .. Len(ui'.button)
      BY <2>1 DEF Actives
    <3>2. b # 0
      BY <3>1
    <3> QED
      BY <3>2, <1>0, <1>3, HandlerTop
  <2> QED
    BY <2>1, <1>1
<1>5. at' \in {"loop", "popup"} \/ (at' = "run" /\ Main' \in Good)
  BY FeedBegins
<1> HIDE DEF b
<1>6. HeardInv'
  BY <1>0, <1>1, <1>4, <1>5, HeardAfter
<1>7. AsPressed'
  BY <1>0, <1>1, <1>2, PressedSo
<1> QED
  BY <1>1, <1>6, <1>7

\* What is heard and clicked by a sample that the popup handles.
LEMMA HeardChooses ==
  ASSUME UiInv, PaintInv, FingerOK, PressInv, HeardInv, AsPressed, Choose
  PROVE  PressInv' /\ HeardInv' /\ AsPressed'
<1> DEFINE s == Head(samples)
           b == ItemAt(ui, Items, s.p)
<1>0. /\ at = "popup" /\ samples # <<>> /\ samples' = Tail(samples) /\ blocked' = blocked
      /\ Note(s, b) /\ at' \in {"loop", "popup"}
  BY DEF Choose
<1>1. /\ PressInv' /\ drawn' = drawn
      /\ \/ Actives(ui') = {}
         \/ s.down /\ Actives(ui') = {b}
  BY PressChooses
<1>2. Clicks(ui, b, s.down) => b = pressed.button /\ b \in Actives(ui)
  BY <1>0, ChoosePress
<1>3. s.p \in Points
  <2>1. s \in Sample
    BY <1>0, ChoosePress
  <2> QED
    BY <2>1 DEF Sample
<1>4. Actives(ui') = {} \/ (s.down /\ Topmost(ui, s.p) = b)
  <2>1. ASSUME s.down, Actives(ui') = {b} PROVE Topmost(ui, s.p) = b
    <3>1. b \in 1 .. Len(ui'.button)
      BY <2>1 DEF Actives
    <3>2. b # 0
      BY <3>1
    <3> QED
      BY <3>2, <1>0, <1>3, ItemTop
  <2> QED
    BY <2>1, <1>1
<1> HIDE DEF b
<1>5. HeardInv'
  BY <1>0, <1>1, <1>4, HeardAfter
<1>6. AsPressed'
  BY <1>0, <1>1, <1>2, PressedSo
<1> QED
  BY <1>1, <1>5, <1>6

\* What is touched while the program listens is heard as it is seen; while a test
\* runs it is touched in a countdown, or in a step that sleeps.
LEMMA HeardTouched ==
  ASSUME MachineInv, UiInv, PaintInv, HeardInv, NEW p \in Touchable, Touch(p)
  PROVE  HeardInv'
<1> SUFFICES ASSUME ~ blocked PROVE HeardInv'
  BY DEF Touch, HeardInv
<1> DEFINE s == [p |-> p, down |-> ~ down, when |-> at, seen |-> ui.screen[p][1]]
<1>1. /\ at' = at /\ ui' = ui /\ drawn' = drawn /\ pressed' = pressed /\ blocked' = blocked
      /\ Main' = Main /\ samples' = Append(samples, s)
      /\ \/ at \in {"loop", "popup"} /\ samples = <<>>
         \/ at = "run" /\ Main # <<>> /\ Head(Main).op \in LongSteps \cup {"waitchild"}
  BY DEF Touch, control, machine, Main
<1>2. s.p = p /\ s.when = at /\ s.seen = ui.screen[p][1]
  OBVIOUS
<1> HIDE DEF s
<1>3. CASE at \in {"loop", "popup"}
  <2>1. Len(samples') <= 1 /\ \A i \in 1 .. Len(samples') : samples'[i] = s
    BY <1>1, <1>3
  <2>2. p \in Points
    BY StationAssumption
  <2>3. ui.screen[p][1] \in Seen(Topmost(ui, p))
    BY <1>3, <2>2, SeenRight
  <2>4. Heard'
    BY <1>1, <1>2, <2>1, <2>3 DEF Heard, Seen
  <2>5. Actives(ui') # {} => Told'
    BY <1>1, <1>3 DEF HeardInv, Told, Seen
  <2> QED
    BY <1>1, <1>3, <2>4, <2>5 DEF HeardInv
<1>4. CASE at = "run"
  <2>1. Main \in Seq(TestStep) /\ Main # <<>> /\ Main[1].op \in LongSteps \cup {"waitchild"}
    BY <1>1, <1>4 DEF MachineInv, ProcsOK
  <2>2. Main[1] \in TestStep /\ 1 \in 1 .. Len(Main)
    BY <2>1
  <2>3. Blocks(Main)
    BY <1>4 DEF HeardInv
  <2>4. Main[1].op # "fill"
    BY <2>2, <2>3 DEF Blocks
  <2>5. Main[1].op \in {"wait", "waitchild", "block"}
    BY <2>1, <2>2, <2>4 DEF TestStep, LongSteps, PlainOps, FileOps
  <2> QED
    BY <1>1, <1>4, <2>1, <2>3, <2>5 DEF HeardInv, Blocks
<1> QED
  BY <1>1, <1>3, <1>4

\* A test that returns leaves no samples, unless it slept.
LEMMA HeardReturns ==
  ASSUME UiInv, PressInv, HeardInv, Return
  PROVE  HeardInv'
<1> SUFFICES ASSUME ~ blocked PROVE HeardInv'
  BY DEF Return, HeardInv
<1>1. at = "run" /\ Main = <<>> /\ at' = "loop" /\ samples' = samples
  BY DEF Return, finger, Main
<1>2. samples' = <<>>
  BY <1>1 DEF HeardInv
<1>3. Heard'
  <2>1. Len(samples') <= 1 /\ 1 .. Len(samples') = {}
    BY <1>2
  <2> QED
    BY <2>1 DEF Heard
<1>4. Actives(ui') = {}
  BY PressReturns
<1> QED
  BY <1>1, <1>3, <1>4 DEF HeardInv

\* What was heard stays heard while the buttons stay and the view may be drawn over.
LEMMA HeardStays ==
  ASSUME HeardInv, at \in {"loop", "popup"}, UNCHANGED <<at, pressed>>, blocked => blocked',
         ui'.button = ui.button, drawn => drawn', samples' \in {samples, <<>>}
  PROVE  HeardInv'
<1> SUFFICES ASSUME ~ blocked PROVE HeardInv'
  BY DEF HeardInv
<1>1. \A p : Topmost(ui', p) = Topmost(ui, p)
  BY DEF Topmost
<1>2. Heard /\ (Actives(ui) # {} => Told)
  BY DEF HeardInv
<1>3. Heard'
  <2>1. CASE samples' = samples
    BY <1>1, <1>2, <2>1 DEF Heard, Seen
  <2>2. CASE samples' = <<>>
    <3>1. Len(samples') <= 1 /\ 1 .. Len(samples') = {}
      BY <2>2
    <3> QED
      BY <3>1 DEF Heard
  <2> QED
    BY <2>1, <2>2
<1>4. Actives(ui') # {} => Told'
  BY <1>2 DEF Actives, Told, Seen
<1> QED
  BY <1>3, <1>4 DEF HeardInv

\* The steps of the processes: a countdown drops what was touched, and a child
\* changes no more than what is seen.
LEMMA HeardWorks ==
  ASSUME MachineInv, UiInv, HeardInv, NEW i \in Pids,
         Works(i) \/ Key(i) \/ Steals(i) \/ excute_request(i)
  PROVE  HeardInv'
<1>1. /\ pressed' = pressed /\ at' \in {at, "exited"} /\ procs[i].prog # <<>>
      /\ (blocked => blocked') /\ samples' \in {samples, <<>>}
      /\ \/ UNCHANGED <<ui, drawn>>
         \/ at' = at /\ \E text \in Labels : Shows(i, text)
  BY WorksShow
<1>2. CASE at' = "exited"
  BY <1>2 DEF HeardInv
<1>3. CASE at' = at /\ at \in {"loop", "popup"}
  <2>1. i # 1
    BY <1>1, <1>3 DEF MachineInv, ProcsOK, Main
  <2>2. ui'.button = ui.button /\ (drawn => drawn')
    <3>1. CASE UNCHANGED <<ui, drawn>>
      BY <3>1
    <3>2. CASE \E text \in Labels : Shows(i, text)
      <4>1. PICK text \in Labels : Shows(i, text)
        BY <3>2
      <4>2. /\ ui' = [ui EXCEPT !.screen = Paint(ui.screen, PointsOf(Layout.view), <<View, text>>)]
            /\ drawn'
        BY <4>1, <2>1 DEF Shows
      <4>3. ui \in Ui
        BY DEF UiInv, Built
      <4> QED
        BY <4>2, <4>3 DEF Ui
    <3> QED
      BY <1>1, <3>1, <3>2
  <2> QED
    BY <1>1, <1>3, <2>2, HeardStays
<1>4. CASE at' = at /\ at = "run" /\ i # 1
  <2>1. Main' = Main
    BY <1>4, ChildMoves
  <2> QED
    BY <1>1, <1>4, <2>1 DEF HeardInv, Blocks
<1>5. CASE at' = at /\ at = "run" /\ i = 1
  <2> SUFFICES ASSUME ~ blocked' PROVE HeardInv'
    BY DEF HeardInv
  <2>1. /\ Main # <<>> /\ Main' \in {Tail(Main), <<>>}
        /\ Main[1].op = "block" => blocked'
        /\ Main[1].op \in {"wait", "waitchild"} => samples' = <<>>
    BY <1>5, MainMoves
  <2>2. Blocks(Main) /\ Main[1].op # "block" /\ Main \in Seq(TestStep)
    BY <1>1, <1>5, <2>1 DEF HeardInv, MachineInv, ProcsOK
  <2>3. samples' = <<>>
    BY <1>1, <1>5, <2>1, <2>2 DEF HeardInv
  <2>4. Blocks(Main')
    <3>1. CASE Main' = Tail(Main)
      BY <3>1, <2>1, <2>2, TailBlocks
    <3>2. CASE Main' = <<>>
      <4>1. 1 .. Len(Main') = {}
        BY <3>2
      <4> QED
        BY <4>1 DEF Blocks
    <3> QED
      BY <2>1, <3>1, <3>2
  <2> QED
    BY <1>5, <2>3, <2>4 DEF HeardInv
<1> QED
  BY <1>1, <1>2, <1>3, <1>4, <1>5 DEF HeardInv, MachineInv, TypesOK

\* What the operator knows survives whatever leaves the buttons alone.
LEMMA OperatorKept ==
  ASSUME OperatorInv, UNCHANGED <<board, fed, pressed, clicked, blocked, procs, samples>>,
         at' \in {at, "exited"}, ui'.button = ui.button, ui'.depressed = ui.depressed,
         drawn' = drawn
  PROVE  OperatorInv'
<1>0. PressInv /\ HeardInv /\ AsPressed
  BY DEF OperatorInv
<1>1. PressInv' /\ Actives(ui') = Actives(ui)
  BY <1>0, PressStays
<1>2. AsPressed'
  BY <1>0 DEF AsPressed
<1>3. HeardInv'
  <2>1. CASE at' = "exited"
    BY <2>1 DEF HeardInv
  <2>2. CASE at' = at /\ at \in {"loop", "popup"}
    BY <2>2, <1>0, HeardStays
  <2>3. CASE at' = at /\ at \notin {"loop", "popup"}
    BY <2>3, <1>0 DEF HeardInv, Main, Blocks
  <2> QED
    BY <2>1, <2>2, <2>3
<1> QED
  BY <1>1, <1>2, <1>3 DEF OperatorInv

\* A click stays what it was.
LEMMA ClickStays ==
  ASSUME AsPressed, clicked' = clicked, drawn => drawn'
  PROVE  AsPressed'
BY DEF AsPressed

\* Every step leaves the operator's clicks as he meant them.
LEMMA OperatorStays ==
  ASSUME StationInv, OperatorInv, [Next]_vars
  PROVE  OperatorInv'
<1>0. /\ MachineInv /\ UiInv /\ PaintInv /\ FingerOK
      /\ PressInv /\ HeardInv /\ AsPressed
  BY DEF StationInv, OperatorInv
<1>1. ASSUME NEW p \in Touchable, Touch(p) PROVE OperatorInv'
  <2>1. /\ UNCHANGED <<board, fed, pressed, clicked, at, ui, drawn>>
    BY <1>1 DEF Touch, control
  <2>2. PressInv'
    BY <2>1, <1>0, PressStays
  <2>3. AsPressed'
    BY <2>1, <1>0, ClickStays
  <2>4. HeardInv'
    BY <1>0, <1>1, HeardTouched
  <2> QED
    BY <2>2, <2>3, <2>4 DEF OperatorInv
<1>2. CASE Feed
  BY <1>0, <1>2, HeardFeeds DEF OperatorInv
<1>3. CASE Choose
  BY <1>0, <1>3, HeardChooses DEF OperatorInv
<1>4. CASE Signal
  <2>1. /\ UNCHANGED <<board, fed, pressed, clicked, blocked, procs, samples, at, drawn>>
        /\ ui' = [ui EXCEPT !.abort = TRUE]
    BY <1>4 DEF Signal, control, machine, finger, history
  <2>2. ui'.button = ui.button /\ ui'.depressed = ui.depressed
    BY <2>1, <1>0 DEF UiInv, Built, Ui
  <2> QED
    BY <2>1, <2>2, OperatorKept
<1>5. CASE Exit
  <2>1. /\ UNCHANGED <<board, fed, pressed, clicked, ui, drawn>> /\ at' = "exited"
    BY <1>5 DEF Exit, finger, history
  <2>2. PressInv' /\ AsPressed'
    BY <2>1, <1>0, PressStays, ClickStays
  <2>3. HeardInv'
    BY <2>1 DEF HeardInv
  <2> QED
    BY <2>2, <2>3 DEF OperatorInv
<1>6. CASE Return
  <2>1. clicked' = clicked /\ drawn' = drawn
    BY <1>6 DEF Return, Redrawn
  <2>2. AsPressed'
    BY <2>1, <1>0, ClickStays
  <2> QED
    BY <2>2, <1>0, <1>6, PressReturns, HeardReturns DEF OperatorInv
<1>7. ASSUME NEW i \in Pids, Works(i) \/ Key(i) \/ Steals(i) \/ excute_request(i)
      PROVE  OperatorInv'
  <2>1. /\ clicked' = clicked
        /\ UNCHANGED <<ui, drawn>> \/ \E text \in Labels : Shows(i, text)
    BY <1>0, <1>7, WorksShow
  <2>2. drawn => drawn'
    BY <2>1 DEF Shows, Redrawn
  <2>3. AsPressed'
    BY <1>0, <2>1, <2>2, ClickStays
  <2> QED
    BY <2>3, <1>0, <1>7, PressWorks, HeardWorks DEF OperatorInv
<1>8. CASE UNCHANGED vars
  <2>1. UNCHANGED <<board, fed, pressed, clicked, blocked, procs, samples, at, ui, drawn>>
    BY <1>8 DEF vars, control, machine, finger, history
  <2> QED
    BY <2>1, OperatorKept
<1> QED
  BY <1>1, <1>2, <1>3, <1>4, <1>5, <1>6, <1>7, <1>8 DEF Next

\* At the start nothing is pressed.
LEMMA OperatorInit == Init => OperatorInv
<1> SUFFICES ASSUME Init PROVE OperatorInv
  OBVIOUS
<1> DEFINE w == setup_popup(setup_check(oltk_view_add(oltk_new, Layout.view)), board)
<1>1. /\ board \in Boards /\ ui = oltk_redraw(w) /\ at = "loop" /\ suite = 1 /\ samples = <<>>
      /\ clicked = [button |-> 0]
  BY DEF Init
<1>2. Holds(w, Dialog + Len(board), {View, Pass, Quit, Fail, Popup} \cup TestsOf(1))
  BY <1>1, SetupIs
<1> HIDE DEF w
<1>3. w \in Ui /\ \A b \in 1 .. Len(w.button) : ~ w.button[b].active
  BY <1>2 DEF Holds, Fits
<1>4. Actives(ui) = {}
  <2>1. Actives(w) = {}
    BY <1>3 DEF Actives
  <2> QED
    BY <2>1, <1>1, <1>3, RedrawPress
<1>5. PressInv
  BY <1>1, <1>4 DEF PressInv
<1>6. HeardInv
  <2>1. Len(samples) <= 1 /\ 1 .. Len(samples) = {}
    BY <1>1
  <2> QED
    BY <2>1, <1>1, <1>4 DEF HeardInv, Heard
<1>7. AsPressed
  <2>1. clicked.button = 0
    BY <1>1
  <2> QED
    BY <2>1 DEF AsPressed
<1> QED
  BY <1>5, <1>6, <1>7 DEF OperatorInv

\* Nothing is clicked that the operator did not see and mean, unless a test slept.
THEOREM AsPressedHolds == Spec => []AsPressed
<1>1. Init => OperatorInv
  BY OperatorInit
<1>2. StationInv /\ OperatorInv /\ [Next]_vars => OperatorInv'
  BY OperatorStays
<1>3. OperatorInv => AsPressed
  BY DEF OperatorInv
<1> QED
  BY <1>1, <1>2, <1>3, StationAlways, PTL DEF Spec
=============================================================================
