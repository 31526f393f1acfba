----------------------------- MODULE GsmdTimer -----------------------------
(***************************************************************************)
(* The software timers of gsmd (gsm/src/gsmd/timer.c) and the code that    *)
(* uses them: the wakeup timer of atcmd.c and the alive timers of gsmd.c.  *)
(*                                                                         *)
(* All timers share the one-shot kernel timer ITIMER_REAL.  Its SIGALRM    *)
(* runs gsmd_timer_check_n_run, callbacks included, inside the signal      *)
(* handler (gsmd.c:356), so between any two steps of the main program; the *)
(* list operations themselves are single steps here.  In the main program  *)
(* the steps of a call, and reading the clock and setting the kernel timer *)
(* inside calc_next_expiration, are steps of their own between which time  *)
(* may pass and the signal come.                                           *)
(***************************************************************************)
EXTENDS Naturals, Sequences, FiniteSets

CONSTANTS
  WakeupTime,   \* GSMD_MODEM_WAKEUP_TIMEOUT, in ticks of the model
  AliveTime,    \* GSMD_ALIVE_TIMEOUT
  IntervalTime, \* GSMD_ALIVE_INTERVAL
  Horizon,      \* bound: no timer is registered to expire after this time
  MaxIntervals, \* bound: interval timers
  MaxTimers,    \* bound: the main program registers no timer with a larger id
  MaxLag        \* ticks that may pass while timer code is being executed

ASSUME GsmdTimerAssumption ==
  /\ WakeupTime \in Nat /\ AliveTime \in Nat /\ IntervalTime \in Nat
  /\ Horizon \in Nat /\ MaxIntervals \in Nat /\ MaxTimers \in Nat /\ MaxLag \in Nat
  /\ MaxLag < WakeupTime /\ WakeupTime <= AliveTime /\ AliveTime <= IntervalTime

VARIABLES
  list,      \* gsmd_timers, the registered timers
  wakeup,    \* g->wakeup_timer: the id of the timer, 0 is NULL
  itimer,    \* when the kernel timer expires; 0 if it is off
  clock,     \* gettimeofday
  main,      \* what the main program is doing in timer.c
  handler,   \* what the signal handler is doing
  lag,       \* ticks since main or handler was entered
  slow,      \* history: has time passed inside timer code?
  fresh      \* id of the next timer

vars == <<list, wakeup, itimer, clock, main, handler, lag, slow, fresh>>

Kinds == {"wakeup", "check", "interval"}

Timer == [id : Nat \ {0}, kind : Kinds, expires : Nat]

Period(k) == CASE k = "wakeup" -> WakeupTime
               [] k = "check"  -> AliveTime
               [] OTHER        -> IntervalTime

\* The main program: outside timer.c, or inside it at pc; min and now are the
\* locals of calc_next_expiration.  assign is the timer that the caller then
\* assigns to g->wakeup_timer (0 for NULL), if it assigns one.
Idle == [pc |-> "idle", min |-> 0, now |-> 0, assign |-> {}]
Calculating(assign) == [Idle EXCEPT !.pc = "calc", !.assign = assign]
-----------------------------------------------------------------------------
\* gsmd_timer_register: the interval becomes the absolute time of expiry.
\* Past the horizon the model does not follow it.
Registered(id, k) ==
  IF clock + Period(k) <= Horizon
    THEN <<[id |-> id, kind |-> k, expires |-> clock + Period(k)]>>
    ELSE <<>>

\* tv_later(now, expires)
Due_never_equal(now, t) == now > t.expires
Due(now, t) == now >= t.expires

\* The time of the next expiration in a list that is not empty.
Soonest_last(l) == l[Len(l)].expires
Soonest(l) ==
  LET times == {l[i].expires : i \in 1 .. Len(l)}
  IN  CHOOSE e \in times : \A f \in times : e <= f

\* setitimer: a value of zero switches the timer off, and a negative one is
\* refused (EINVAL) and leaves it as it is.  e and now give the difference.
setitimer(e, now) ==
  IF e > now THEN clock + (e - now) ELSE IF e = now THEN 0 ELSE itimer

\* calc_next_expiration in one step, as the signal handler runs it.
calc_next_expiration(l) == IF l = <<>> THEN itimer ELSE setitimer(Soonest(l), clock)

Removed(l, k) == SubSeq(l, 1, k - 1) \o SubSeq(l, k + 1, Len(l))
-----------------------------------------------------------------------------
(***************************************************************************)
(* The main program.  It runs while no signal is handled or due: the kernel *)
(* delivers one before it returns to the program.                          *)
(***************************************************************************)
SignalDue == itimer # 0 /\ clock >= itimer

MainRuns(pc) == main.pc = pc /\ handler.pc = "idle" /\ ~ SignalDue

\* wakeup_timer: g->wakeup_timer is assigned after the registration.
atcmd_wakeup_modem ==
  /\ MainRuns("idle")
  /\ wakeup = 0
  /\ fresh <= MaxTimers /\ clock + WakeupTime <= Horizon
  /\ list' = list \o Registered(fresh, "wakeup")
  /\ main' = Calculating({fresh})
  /\ fresh' = fresh + 1
  /\ UNCHANGED <<wakeup, itimer, clock, handler, lag, slow>>

\* The modem has said that it is ready.
gmsd_alive_start ==
  /\ MainRuns("idle")
  /\ fresh <= MaxTimers /\ clock + IntervalTime <= Horizon
  /\ Cardinality({i \in 1 .. Len(list) : list[i].kind = "interval"}) < MaxIntervals
  /\ list' = list \o Registered(fresh, "interval")
  /\ main' = Calculating({})
  /\ fresh' = fresh + 1
  /\ UNCHANGED <<wakeup, itimer, clock, handler, lag, slow>>

\* null_wakeup_cb finds the wakeup timer set ...
null_wakeup_cb ==
  /\ MainRuns("idle")
  /\ wakeup # 0
  /\ main' = [Idle EXCEPT !.pc = "unregister"]
  /\ UNCHANGED <<list, wakeup, itimer, clock, handler, lag, slow, fresh>>

\* ... unregisters what it is now, and then it is NULL.  If it was taken away in
\* between, what the program does is not defined and the model stops.
gsmd_timer_unregister ==
  /\ MainRuns("unregister")
  /\ \E k \in 1 .. Len(list) : list[k].id = wakeup /\ list' = Removed(list, k)
  /\ main' = Calculating({0})
  /\ UNCHANGED <<wakeup, itimer, clock, handler, lag, slow, fresh>>

\* calc_next_expiration: the clock is read and the minimum taken ...
Calculate ==
  /\ MainRuns("calc")
  /\ list # <<>>
  /\ main' = [main EXCEPT !.pc = "set", !.min = Soonest(list), !.now = clock]
  /\ UNCHANGED <<list, wakeup, itimer, clock, handler, lag, slow, fresh>>

\* ... and the kernel timer set to their difference.  Without a timer it is
\* left as it is.  The caller goes on.
Finish ==
  /\ \/ MainRuns("calc") /\ list = <<>> /\ UNCHANGED itimer
     \/ MainRuns("set") /\ itimer' = setitimer(main.min, main.now)
  /\ wakeup' = IF main.assign = {} THEN wakeup ELSE CHOOSE w \in main.assign : TRUE
  /\ main' = Idle
  /\ lag' = 0
  /\ UNCHANGED <<list, clock, handler, slow, fresh>>
-----------------------------------------------------------------------------
(***************************************************************************)
(* SIGALRM: gsmd_timer_check_n_run.                                        *)
(***************************************************************************)
Signal ==
  /\ handler.pc = "idle" /\ SignalDue
  /\ itimer' = 0
  /\ handler' = [pc |-> "scan", now |-> clock, at |-> 1]
  /\ UNCHANGED <<list, wakeup, clock, main, lag, slow, fresh>>

\* The next timer is not due.
Skip ==
  /\ handler.pc = "scan" /\ handler.at <= Len(list)
  /\ ~ Due(handler.now, list[handler.at])
  /\ handler' = [handler EXCEPT !.at = @ + 1]
  /\ UNCHANGED <<list, wakeup, itimer, clock, main, lag, slow, fresh>>

\* wakeup_timeout: g->wakeup_timer is NULL after its own timeout; any other
\* timer that runs leaves it alone.
TimedOut_kept(t) == wakeup
TimedOut(t) == IF t.id = wakeup THEN 0 ELSE wakeup

RunOnce ==
  /\ handler.pc = "scan" /\ handler.at <= Len(list)
  /\ LET t == list[handler.at]
     IN  /\ Due(handler.now, t) /\ t.kind # "interval"
         /\ wakeup' = TimedOut(t)
  /\ list' = Removed(list, handler.at)
  /\ UNCHANGED <<itimer, clock, main, handler, lag, slow, fresh>>

\* alive_interval_tmr_cb registers the timer of the check, perhaps a wakeup
\* timer (atcmd_submit), and itself again.  Each registration calculates the
\* next expiration; as the minimum of a longer list is not later, the last
\* calculation decides.
RunInterval ==
  /\ handler.pc = "scan" /\ handler.at <= Len(list)
  /\ LET t == list[handler.at]
     IN  /\ Due(handler.now, t) /\ t.kind = "interval"
         /\ \E w \in {<<>>} \cup IF wakeup = 0 THEN {Registered(fresh + 1, "wakeup")} ELSE {} :
              /\ list' = Removed(list, handler.at) \o Registered(fresh, "check") \o w
                           \o Registered(t.id, "interval")
              /\ wakeup' = IF w = <<>> THEN wakeup ELSE fresh + 1
  /\ itimer' = calc_next_expiration(list')
  /\ fresh' = fresh + 2
  /\ UNCHANGED <<clock, main, handler, lag, slow>>

\* The end of the list: the next expiration is calculated.
Return ==
  /\ handler.pc = "scan" /\ handler.at > Len(list)
  /\ itimer' = calc_next_expiration(list)
  /\ handler' = [pc |-> "idle", now |-> 0, at |-> 0]
  /\ lag' = IF main.pc = "idle" THEN 0 ELSE lag
  /\ UNCHANGED <<list, wakeup, clock, main, slow, fresh>>
-----------------------------------------------------------------------------
\* Time passes; SIGALRM is delivered on time.
Tick ==
  /\ clock < Horizon + MaxLag
  /\ handler.pc = "idle" => ~ SignalDue
  /\ \/ MainRuns("idle") /\ UNCHANGED <<lag, slow>>
     \/ /\ ~ MainRuns("idle") /\ lag < MaxLag
        /\ lag' = lag + 1
        /\ slow' = TRUE
  /\ clock' = clock + 1
  /\ UNCHANGED <<list, wakeup, itimer, main, handler, fresh>>

Init ==
  /\ list = <<>> /\ wakeup = 0 /\ itimer = 0 /\ clock = 1
  /\ main = Idle
  /\ handler = [pc |-> "idle", now |-> 0, at |-> 0]
  /\ lag = 0 /\ slow = FALSE /\ fresh = 1

Main == Calculate \/ Finish \/ gsmd_timer_unregister

Handler == Skip \/ RunOnce \/ RunInterval \/ Return

Next ==
  \/ atcmd_wakeup_modem \/ gmsd_alive_start \/ null_wakeup_cb \/ Main
  \/ Signal \/ Handler \/ Tick

\* Time passes, the signal is delivered, and code that was entered goes on.
Spec == Init /\ [][Next]_vars /\ WF_vars(Main) /\ WF_vars(Signal) /\ WF_vars(Handler)
             /\ WF_vars(Tick)
-----------------------------------------------------------------------------
(***************************************************************************)
(* Properties.                                                             *)
(***************************************************************************)
\* No timer code runs.
Quiet == main.pc = "idle" /\ handler.pc = "idle"

\* While no timer code runs, the kernel timer is set for the first registered
\* timer or before, as long as no time passes inside timer code: a minimum that
\* has expired when the difference is taken switches it off (timer.c:112-118).
Armed ==
  Quiet /\ ~ slow => \A i \in 1 .. Len(list) : itimer # 0 /\ itimer <= list[i].expires

\* Every registered timer leaves the list in the end, by its callback or
\* because it is unregistered, under the same condition.
EveryTimerRuns ==
  \A n \in 1 .. Horizon + MaxTimers :
    (\E i \in 1 .. Len(list) : list[i].id = n /\ list[i].expires <= Horizon)
      ~> (slow \/ \A i \in 1 .. Len(list) : list[i].id # n \/ list[i].expires > clock)

Wakeups == {list[j].id : j \in {j \in 1 .. Len(list) : list[j].kind = "wakeup"}}

\* Whenever no timer code runs, g->wakeup_timer does not outlive its timer,
\* although both the signal handler and main set and clear it (atcmd.c:567-625).
NoStalePointer == Quiet => wakeup \in Wakeups \cup {0}
=============================================================================
