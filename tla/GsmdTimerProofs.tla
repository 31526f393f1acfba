-------------------------- MODULE GsmdTimerProofs --------------------------
(* Proofs about the timers, for every period, bound and lag.               *)
EXTENDS GsmdTimer, SeqLemmas

\* The timers of a list have ids of their own, which were given before f.
ListInv(l, f) ==
  /\ l \in Seq(Timer) /\ Distinct(l)
  /\ \A t, u \in Members(l) : t.id = u.id => t = u
  /\ \A t \in Members(l) : t.id < f

Types ==
  /\ ListInv(list, fresh) /\ fresh \in Nat \ {0}
  /\ wakeup \in Nat /\ clock \in Nat /\ lag \in 0 .. MaxLag
  /\ DOMAIN main = {"pc", "min", "now", "assign"}
  /\ main.pc \in {"idle", "calc", "set", "unregister"} /\ main.assign \subseteq Nat
  /\ handler \in [pc : {"idle", "scan"}, now : Nat, at : Nat]
  /\ handler.pc = "scan" => handler.now <= clock /\ handler.at >= 1

IsWakeup(t, n) == t.kind = "wakeup" /\ t.id = n

\* Unless main is about to assign it, the pointer is right.
Pointed ==
  main.assign = {} => wakeup = 0 \/ \E t \in Members(list) : IsWakeup(t, wakeup)

\* What main is about to assign is NULL, or a wakeup timer that is not due as
\* long as main is in timer.c.
Assigned ==
  /\ main.pc \in {"idle", "unregister"} => main.assign = {}
  /\ \A n \in main.assign :
       n = 0 \/ \E t \in Members(list) : IsWakeup(t, n) /\ clock + WakeupTime <= t.expires + lag

PointerInv == Types /\ Pointed /\ Assigned

\* The timer at k is taken out of a list, and nothing else.
LEMMA RemovedTimer ==
  ASSUME NEW f, NEW l, ListInv(l, f), NEW k \in 1 .. Len(l)
  PROVE  /\ ListInv(Removed(l, k), f)
         /\ l[k] \in Members(l) /\ l[k] \in Timer
         /\ Members(Removed(l, k)) = Members(l) \ {l[k]}
<1> DEFINE a == SubSeq(l, 1, k - 1)
           b == <<l[k]>>
           c == SubSeq(l, k + 1, Len(l))
<1>1. l \in Seq(Timer) /\ Len(l) \in Nat /\ l[k] \in Timer /\ l[k] \in Members(l)
  BY DEF ListInv, Members
<1>2. a \in Seq(Timer) /\ b \in Seq(Timer) /\ c \in Seq(Timer)
  BY <1>1
<1>3. l = (a \o b) \o c
  <2>1. SubSeq(l, k, k) = b
    <3>1. \A i \in k .. k : l[i] \in Timer
      BY <1>1
    <3>2. /\ SubSeq(l, k, k) \in Seq(Timer)
          /\ Len(SubSeq(l, k, k)) = IF k <= k THEN k - k + 1 ELSE 0
          /\ \A i \in 1 .. k - k + 1 : SubSeq(l, k, k)[i] = l[k + i - 1]
      BY <3>1, SubSeqProperties
    <3>3. Len(SubSeq(l, k, k)) = 1 /\ SubSeq(l, k, k)[1] = l[k]
      BY <3>2
    <3>4. b \in Seq(Timer) /\ Len(b) = 1 /\ b[1] = l[k]
      BY <1>1
    <3> QED
      <4> DEFINE q == SubSeq(l, k, k)
      <4>1. q \in Seq(Timer) /\ Len(q) = 1 /\ q[1] = l[k]
        BY <3>2, <3>3
      <4> HIDE DEF q, b
      <4>2. Len(q) = Len(b) /\ \A i \in 1 .. Len(q) : q[i] = b[i]
        BY <3>4, <4>1
      <4>3. q = b
        BY <3>4, <4>1, <4>2, SeqEqual
      <4> QED
        BY <4>3 DEF q
  <2>2. a \o SubSeq(l, k, k) = SubSeq(l, 1, k)
    <3>1. 1 \in 1 .. Len(l) + 1 /\ k - 1 \in 1 - 1 .. Len(l) /\ k \in k - 1 .. Len(l)
          /\ (k - 1) + 1 = k
      BY <1>1
    <3>2. SubSeq(l, 1, k - 1) \o SubSeq(l, (k - 1) + 1, k) = SubSeq(l, 1, k)
      BY <1>1, <3>1, ConcatAdjacentSubSeq
    <3> QED
      BY <3>1, <3>2
  <2>3. SubSeq(l, 1, k) \o c = SubSeq(l, 1, Len(l))
    <3>1. 1 \in 1 .. Len(l) + 1 /\ k \in 1 - 1 .. Len(l) /\ Len(l) \in k .. Len(l)
      BY <1>1
    <3> QED
      BY <1>1, <3>1, ConcatAdjacentSubSeq
  <2>4. SubSeq(l, 1, Len(l)) = l
    BY <1>1
  <2> QED
    BY <2>1, <2>2, <2>3, <2>4
<1>4. Members(b) = {l[k]}
  BY MembersOne
<1>5. Removed(l, k) = a \o c
  BY DEF Removed
<1> HIDE DEF a, b, c
<1> DEFINE ab == a \o b
<1>6. /\ ab \in Seq(Timer) /\ Members(ab) = Members(a) \cup Members(b)
      /\ Distinct(ab) <=> Distinct(a) /\ Distinct(b) /\ Members(a) \cap Members(b) = {}
  BY <1>2, ConcatProperties, MembersConcat, DistinctConcat
<1>7. l = ab \o c
  BY <1>3
<1> HIDE DEF ab
<1>8. /\ Members(l) = Members(ab) \cup Members(c)
      /\ Distinct(ab) /\ Distinct(c) /\ Members(ab) \cap Members(c) = {}
  <2>1. Distinct(ab \o c) /\ Members(ab \o c) = Members(l)
    BY <1>7 DEF ListInv
  <2> QED
    BY <1>2, <1>6, <2>1, MembersConcat, DistinctConcat
<1>9. /\ a \o c \in Seq(Timer) /\ Distinct(a \o c)
      /\ Members(a \o c) = Members(a) \cup Members(c)
  <2>1. Distinct(a) /\ Members(a) \cap Members(c) = {}
    BY <1>6, <1>8
  <2> QED
    BY <1>2, <1>8, <2>1, ConcatProperties, MembersConcat, DistinctConcat
<1>10. Members(a \o c) = Members(l) \ {l[k]}
  BY <1>4, <1>6, <1>8, <1>9
<1> QED
  BY <1>1, <1>5, <1>9, <1>10 DEF ListInv

\* A timer is put behind the others.
LEMMA AddedTimer ==
  ASSUME NEW f \in Nat, NEW g \in Nat, f <= g, NEW l, ListInv(l, f), clock \in Nat,
         NEW id \in Nat \ {0}, id < g, \A t \in Members(l) : t.id # id,
         NEW k \in Kinds
  PROVE  /\ ListInv(l \o Registered(id, k), g)
         /\ Members(l \o Registered(id, k)) = Members(l) \cup Members(Registered(id, k))
         /\ \A t \in Members(Registered(id, k)) :
              t.id = id /\ t.kind = k /\ t.expires = clock + Period(k)
         /\ Registered(id, k) # <<>> => Members(Registered(id, k)) # {}
         /\ clock + Period(k) <= Horizon => Registered(id, k) # <<>>
<1> DEFINE r == Registered(id, k)
           t == [id |-> id, kind |-> k, expires |-> clock + Period(k)]
<1>1. Period(k) \in Nat
  BY GsmdTimerAssumption DEF Period
<1>2. t \in Timer
  BY <1>1 DEF Timer
<1>3. r = <<t>> \/ (r = <<>> /\ ~ (clock + Period(k) <= Horizon))
  BY DEF Registered
<1>f. t.id = id /\ t.kind = k /\ t.expires = clock + Period(k)
  OBVIOUS
<1> HIDE DEF r, t
<1>4. /\ r \in Seq(Timer) /\ Distinct(r) /\ \A u \in Members(r) : u = t
      /\ r # <<>> => Members(r) # {}
  <2>1. CASE r = <<t>>
    BY <1>2, <2>1, MembersOne
  <2>2. CASE r = <<>>
    BY <2>2 DEF Members, Distinct
  <2> QED
    BY <1>3, <2>1, <2>2
<1>5. l \in Seq(Timer) /\ Distinct(l)
  BY DEF ListInv
<1>6. Members(l) \cap Members(r) = {}
  BY <1>4, <1>f
<1>7. /\ l \o r \in Seq(Timer) /\ Distinct(l \o r)
      /\ Members(l \o r) = Members(l) \cup Members(r)
  BY <1>4, <1>5, <1>6, ConcatProperties, MembersConcat, DistinctConcat
<1>8. \A u \in Members(l) : u.id \in Nat /\ u.id < g
  <2>1. \A u \in Members(l) : u \in Timer /\ u.id < f
    BY <1>5 DEF ListInv, Members
  <2> QED
    BY <2>1 DEF Timer
<1>9. \A u, v \in Members(l \o r) : u.id = v.id => u = v
  BY <1>4, <1>7, <1>f DEF ListInv
<1>10. ListInv(l \o r, g)
  BY <1>4, <1>7, <1>8, <1>9, <1>f DEF ListInv
<1>11. clock + Period(k) <= Horizon => r # <<>>
  BY <1>3
<1> QED
  BY <1>4, <1>7, <1>10, <1>11, <1>f DEF r

\* New ids are not in the list yet.
LEMMA FreshTimer ==
  ASSUME NEW f \in Nat, NEW l, ListInv(l, f), NEW id \in Nat, id >= f
  PROVE  \A t \in Members(l) : t.id # id
<1>1. \A t \in Members(l) : t \in Timer /\ t.id < f
  BY DEF ListInv, Members
<1>2. \A t \in Timer : t.id \in Nat
  BY DEF Timer
<1> QED
  BY <1>1, <1>2

\* The invariant of the next list.
LEMMA ListInvNext == ListInv(list, fresh)' <=> ListInv(list', fresh')
BY DEF ListInv, Members, Distinct

\* The locals of a calculation that has begun.
LEMMA Begun ==
  ASSUME NEW a
  PROVE  /\ DOMAIN Calculating(a) = {"pc", "min", "now", "assign"}
         /\ Calculating(a).pc = "calc" /\ Calculating(a).assign = a
BY DEF Calculating, Idle

\* The main program.
LEMMA MainPointer ==
  ASSUME PointerInv,
         \/ atcmd_wakeup_modem \/ gmsd_alive_start \/ null_wakeup_cb \/ gsmd_timer_unregister
         \/ Calculate \/ Finish
  PROVE  PointerInv'
<1> USE DEF PointerInv
<1>1. CASE atcmd_wakeup_modem
  <2>1. /\ fresh \in Nat \ {0} /\ ListInv(list, fresh) /\ clock \in Nat /\ lag \in 0 .. MaxLag
    BY DEF Types
  <2>2. /\ clock + WakeupTime <= Horizon /\ wakeup = 0
        /\ list' = list \o Registered(fresh, "wakeup")
        /\ main' = Calculating({fresh}) /\ fresh' = fresh + 1
        /\ UNCHANGED <<wakeup, clock, handler, lag>>
    BY <1>1 DEF atcmd_wakeup_modem
  <2>3. \A t \in Members(list) : t.id # fresh
    BY <2>1, FreshTimer
  <2>4. /\ fresh + 1 \in Nat /\ fresh <= fresh + 1 /\ fresh < fresh + 1 /\ "wakeup" \in Kinds
        /\ Period("wakeup") = WakeupTime
    BY <2>1 DEF Kinds, Period
  <2>5. /\ ListInv(list', fresh + 1)
        /\ Members(list') = Members(list) \cup Members(Registered(fresh, "wakeup"))
        /\ \A t \in Members(Registered(fresh, "wakeup")) :
             t.id = fresh /\ t.kind = "wakeup" /\ t.expires = clock + WakeupTime
        /\ Members(Registered(fresh, "wakeup")) # {}
    <3>1. clock + Period("wakeup") <= Horizon
      BY <2>2, <2>4
    <3>2. /\ ListInv(list \o Registered(fresh, "wakeup"), fresh + 1)
          /\ Members(list \o Registered(fresh, "wakeup"))
               = Members(list) \cup Members(Registered(fresh, "wakeup"))
          /\ \A t \in Members(Registered(fresh, "wakeup")) :
               t.id = fresh /\ t.kind = "wakeup" /\ t.expires = clock + Period("wakeup")
          /\ Registered(fresh, "wakeup") # <<>> => Members(Registered(fresh, "wakeup")) # {}
          /\ clock + Period("wakeup") <= Horizon => Registered(fresh, "wakeup") # <<>>
      BY SMTT(30), <2>1, <2>3, <2>4, AddedTimer
    <3> QED
      BY <2>2, <2>4, <3>1, <3>2
  <2>6. Types'
    BY <2>1, <2>2, <2>4, <2>5, ListInvNext, Begun DEF Types
  <2>7. main'.assign = {fresh} /\ main'.pc = "calc"
    BY <2>2 DEF Calculating, Idle
  <2>8. \E t \in Members(list') : IsWakeup(t, fresh) /\ clock + WakeupTime <= t.expires + lag
    <3>1. clock + WakeupTime <= (clock + WakeupTime) + lag
      BY <2>1, GsmdTimerAssumption
    <3> QED
      BY <2>5, <3>1 DEF IsWakeup
  <2>9. Pointed' /\ Assigned'
    BY <2>2, <2>7, <2>8 DEF Pointed, Assigned, IsWakeup, Members
  <2> QED
    BY <2>6, <2>9
<1>2. CASE gmsd_alive_start
  <2>1. /\ fresh \in Nat \ {0} /\ ListInv(list, fresh) /\ clock \in Nat
    BY DEF Types
  <2>2. /\ main.pc = "idle" /\ list' = list \o Registered(fresh, "interval")
        /\ main' = Calculating({}) /\ fresh' = fresh + 1
        /\ UNCHANGED <<wakeup, clock, handler, lag>>
    BY <1>2 DEF gmsd_alive_start, MainRuns
  <2>3. \A t \in Members(list) : t.id # fresh
    BY <2>1, FreshTimer
  <2>4. /\ fresh + 1 \in Nat /\ fresh <= fresh + 1 /\ fresh < fresh + 1 /\ "interval" \in Kinds
    BY <2>1 DEF Kinds
  <2>5. /\ ListInv(list', fresh + 1)
        /\ Members(list') = Members(list) \cup Members(Registered(fresh, "interval"))
    BY <2>1, <2>2, <2>3, <2>4, AddedTimer
  <2>6. Types'
    BY <2>1, <2>2, <2>4, <2>5, ListInvNext, Begun DEF Types
  <2>7. main.assign = {} /\ main'.assign = {} /\ main'.pc = "calc"
    BY <2>2 DEF Calculating, Idle, Assigned
  <2>8. Pointed' /\ Assigned'
    BY <2>2, <2>5, <2>7 DEF Pointed, Assigned, IsWakeup, Members
  <2> QED
    BY <2>6, <2>8
<1>3. CASE null_wakeup_cb
  <2>1. /\ main.pc = "idle" /\ main' = [Idle EXCEPT !.pc = "unregister"]
        /\ UNCHANGED <<list, wakeup, clock, handler, lag, fresh>>
    BY <1>3 DEF null_wakeup_cb, MainRuns
  <2>2. main.assign = {} /\ main'.assign = {} /\ main'.pc = "unregister"
    BY <2>1 DEF Idle, Assigned
  <2>3. Types'
    BY <2>1, ListInvNext DEF Types, Idle
  <2> QED
    BY <2>1, <2>2, <2>3 DEF Pointed, Assigned, IsWakeup, Members
<1>4. CASE gsmd_timer_unregister
  <2>1. PICK k \in 1 .. Len(list) : list[k].id = wakeup /\ list' = Removed(list, k)
    BY <1>4 DEF gsmd_timer_unregister
  <2>2. /\ main' = Calculating({0}) /\ UNCHANGED <<wakeup, clock, handler, lag, fresh>>
    BY <1>4 DEF gsmd_timer_unregister
  <2>3. ListInv(list', fresh)
    BY <2>1, RemovedTimer DEF Types
  <2>4. main'.assign = {0} /\ main'.pc = "calc"
    BY <2>2 DEF Calculating, Idle
  <2>5. Types'
    BY <2>2, <2>3, ListInvNext, Begun DEF Types
  <2> QED
    BY <2>4, <2>5 DEF Pointed, Assigned
<1>5. CASE Calculate
  <2>1. /\ main.pc = "calc" /\ list # <<>>
        /\ main' = [main EXCEPT !.pc = "set", !.min = Soonest(list), !.now = clock]
        /\ UNCHANGED <<list, wakeup, clock, handler, lag, fresh>>
    BY <1>5 DEF Calculate, MainRuns
  <2>2. Types'
    BY <2>1, ListInvNext DEF Types
  <2> QED
    BY <2>1, <2>2 DEF Pointed, Assigned, IsWakeup, Members, Types
<1>6. CASE Finish
  <2>1. /\ wakeup' = IF main.assign = {} THEN wakeup ELSE CHOOSE w \in main.assign : TRUE
        /\ main' = Idle /\ lag' = 0 /\ UNCHANGED <<list, clock, handler, fresh>>
    BY <1>6 DEF Finish
  <2>2. main.assign # {} => wakeup' \in main.assign
    BY <2>1
  <2>3. wakeup' = 0 \/ \E t \in Members(list) : IsWakeup(t, wakeup')
    BY <2>1, <2>2 DEF Pointed, Assigned
  <2>4. main'.assign = {} /\ main'.pc = "idle"
    BY <2>1 DEF Idle
  <2>5. wakeup' \in Nat
    BY <2>1, <2>2 DEF Types
  <2>6. 0 \in 0 .. MaxLag
    BY GsmdTimerAssumption
  <2>7. Types'
    BY <2>1, <2>5, <2>6, ListInvNext DEF Types, Idle
  <2> QED
    BY <2>1, <2>3, <2>4, <2>7 DEF Pointed, Assigned, IsWakeup, Members
<1> QED
  BY <1>1, <1>2, <1>3, <1>4, <1>5, <1>6

\* What main is about to assign does not run before main has left timer.c.
LEMMA NotDue ==
  ASSUME PointerInv, NEW t \in Members(list), handler.pc = "scan", Due(handler.now, t)
  PROVE  ~ (clock + WakeupTime <= t.expires + lag)
<1>1. /\ handler.now \in Nat /\ clock \in Nat /\ lag \in 0 .. MaxLag
      /\ handler.now <= clock /\ t.expires <= handler.now
  BY DEF PointerInv, Types, Due, ListInv, Members, Timer
<1>2. t.expires \in Nat
  <2>1. t \in Timer
    BY DEF PointerInv, Types, ListInv, Members
  <2> QED
    BY <2>1 DEF Timer
<1> QED
  BY <1>1, <1>2, GsmdTimerAssumption

\* The timers but the one that runs, which main is not about to assign.
LEMMA OthersStay ==
  ASSUME PointerInv, handler.pc = "scan", NEW k \in 1 .. Len(list),
         Due(handler.now, list[k]), Members(list) \ {list[k]} \subseteq Members(list'),
         UNCHANGED <<main, clock, lag>>
  PROVE  Assigned'
<1>1. list[k] \in Members(list) /\ ~ (clock + WakeupTime <= list[k].expires + lag)
  BY NotDue, RemovedTimer DEF PointerInv, Types
<1>2. \A n \in main.assign : n = 0 \/ \E t \in Members(list') :
        IsWakeup(t, n) /\ clock + WakeupTime <= t.expires + lag
  BY <1>1 DEF PointerInv, Assigned
<1> QED
  BY <1>2 DEF PointerInv, Assigned, IsWakeup, Members

\* The signal handler, which is entered at any point of the main program.
LEMMA HandlerPointer ==
  ASSUME PointerInv, Signal \/ Skip \/ RunOnce \/ RunInterval \/ Return
  PROVE  PointerInv'
<1>1. CASE Signal
  BY <1>1, ListInvNext DEF PointerInv, Types, Pointed, Assigned, IsWakeup, Members, Signal
<1>2. CASE Skip
  <2>1. /\ UNCHANGED <<list, wakeup, clock, main, lag, fresh>> /\ handler.pc = "scan"
        /\ handler' = [handler EXCEPT !.at = @ + 1]
    BY <1>2 DEF Skip
  <2>2. Types'
    <3>1. /\ handler' \in [pc : {"idle", "scan"}, now : Nat, at : Nat]
          /\ handler'.pc = "scan" => handler'.now <= clock /\ handler'.at >= 1
      BY <2>1 DEF PointerInv, Types
    <3>2. ListInv(list, fresh)'
      BY <2>1, ListInvNext DEF PointerInv, Types
    <3> QED
      BY <2>1, <3>1, <3>2 DEF PointerInv, Types
  <2>3. Pointed' /\ Assigned'
    BY <2>1 DEF PointerInv, Pointed, Assigned, IsWakeup, Members
  <2> QED
    BY <2>2, <2>3 DEF PointerInv
<1>3. CASE RunOnce
  <2> DEFINE k == handler.at
             t == list[k]
  <2>1. /\ handler.pc = "scan" /\ Due(handler.now, t) /\ wakeup' = TimedOut(t)
        /\ list' = Removed(list, k) /\ UNCHANGED <<clock, main, handler, lag, fresh>>
    BY <1>3 DEF RunOnce
  <2>2. k \in 1 .. Len(list)
    BY <1>3 DEF RunOnce, PointerInv, Types, ListInv
  <2>3. /\ ListInv(list', fresh) /\ t \in Members(list)
        /\ Members(list') = Members(list) \ {t}
    BY <2>1, <2>2, RemovedTimer DEF PointerInv, Types
  <2>4. Assigned'
    BY <2>1, <2>2, <2>3, OthersStay
  <2>5. Types'
    BY <2>1, <2>3, ListInvNext DEF PointerInv, Types, TimedOut
  <2>6. Pointed'
    <3>1. wakeup' \in {0, wakeup} /\ (t.id = wakeup => wakeup' = 0)
      BY <2>1 DEF TimedOut
    <3>2. ASSUME main.assign = {}, wakeup' # 0
          PROVE  \E u \in Members(list') : IsWakeup(u, wakeup')
      <4>1. wakeup' = wakeup /\ t.id # wakeup
        BY <3>1, <3>2
      <4>2. PICK u \in Members(list) : IsWakeup(u, wakeup)
        BY <3>2, <4>1 DEF PointerInv, Pointed
      <4> QED
        BY <2>3, <4>1, <4>2 DEF IsWakeup
    <3> QED
      BY <2>1, <3>2 DEF Pointed, IsWakeup, Members
  <2> QED
    BY <2>4, <2>5, <2>6 DEF PointerInv
<1>4. CASE RunInterval
  <2> DEFINE k == handler.at
             t == list[k]
  <2>1. /\ handler.pc = "scan" /\ Due(handler.now, t) /\ t.kind = "interval"
        /\ fresh' = fresh + 2 /\ UNCHANGED <<clock, main, handler, lag>>
    <3>1. handler.pc = "scan" /\ Due(handler.now, t) /\ t.kind = "interval"
      BY Zenon, <1>4 DEF RunInterval
    <3>2. fresh' = fresh + 2 /\ UNCHANGED <<clock, main, handler, lag, slow>>
      BY Zenon, <1>4 DEF RunInterval
    <3> QED
      BY <3>1, <3>2
  <2>r. handler.at <= Len(list)
    BY Zenon, <1>4 DEF RunInterval
  <2>2. PICK w \in {<<>>} \cup IF wakeup = 0 THEN {Registered(fresh + 1, "wakeup")} ELSE {} :
          /\ list' = Removed(list, k) \o Registered(fresh, "check") \o w
                       \o Registered(t.id, "interval")
          /\ wakeup' = IF w = <<>> THEN wakeup ELSE fresh + 1
    BY Zenon, <1>4 DEF RunInterval
  <2>3. /\ fresh \in Nat \ {0} /\ clock \in Nat /\ wakeup \in Nat
        /\ k \in 1 .. Len(list) /\ ListInv(list, fresh)
    <3>1. fresh \in Nat \ {0} /\ clock \in Nat /\ wakeup \in Nat /\ ListInv(list, fresh)
      BY DEF PointerInv, Types
    <3>2. handler.at \in Nat /\ handler.at >= 1
      BY <2>1 DEF PointerInv, Types
    <3>3. handler.at <= Len(list) /\ Len(list) \in Nat
      BY <2>r, <3>1 DEF ListInv
    <3> QED
      BY <3>1, <3>2, <3>3
  <2> DEFINE l1 == Removed(list, k)
             l2 == l1 \o Registered(fresh, "check")
             l3 == l2 \o w
             l4 == l3 \o Registered(t.id, "interval")
  <2>4. /\ ListInv(l1, fresh) /\ t \in Members(list) /\ t \in Timer
        /\ Members(l1) = Members(list) \ {t}
    BY <2>3, RemovedTimer
  <2>5. t.id \in Nat \ {0} /\ t.id < fresh /\ \A u \in Members(l1) : u.id # t.id
    BY <2>3, <2>4 DEF ListInv, Timer
  <2>6. {"check", "wakeup", "interval"} \subseteq Kinds
    BY DEF Kinds
  <2>7. /\ fresh + 1 \in Nat \ {0} /\ fresh + 2 \in Nat
        /\ fresh <= fresh + 1 /\ fresh < fresh + 1 /\ fresh + 1 <= fresh + 2
        /\ fresh + 1 < fresh + 2 /\ fresh + 2 <= fresh + 2 /\ t.id < fresh + 2 /\ t.id < fresh + 1
    BY <2>3, <2>5
  <2>l. list' = l4
    BY <2>2
  <2> HIDE DEF l1
  <2>8. /\ ListInv(l2, fresh + 1)
        /\ Members(l2) = Members(l1) \cup Members(Registered(fresh, "check"))
        /\ \A u \in Members(Registered(fresh, "check")) : u.id = fresh
    <3>1. \A u \in Members(l1) : u.id # fresh
      BY <2>3, <2>4, FreshTimer
    <3> QED
      BY <2>3, <2>4, <2>6, <2>7, <3>1, AddedTimer
  <2>9. \A u \in Members(l2) : u.id # t.id
    BY <2>3, <2>5, <2>8
  <2> HIDE DEF l2
  <2>10. /\ ListInv(l3, fresh + 2) /\ Members(l2) \subseteq Members(l3)
         /\ \A u \in Members(l3) : u.id # t.id
         /\ w # <<>> => \E u \in Members(l3) : IsWakeup(u, fresh + 1)
    <3>1. CASE w = <<>>
      <4>1. l3 = l2
        BY <2>8, <3>1 DEF ListInv
      <4>2. \A u \in Members(l2) : u.id < fresh + 2
        <5>1. \A u \in Members(l2) : u \in Timer /\ u.id < fresh + 1
          BY <2>8 DEF ListInv, Members
        <5>2. \A u \in Timer : u.id \in Nat
          BY DEF Timer
        <5> QED
          BY <2>7, <5>1, <5>2
      <4> HIDE DEF l3
      <4> QED
        BY <2>8, <2>9, <3>1, <4>1, <4>2 DEF ListInv
    <3>2. CASE w # <<>>
      <4>1. w = Registered(fresh + 1, "wakeup")
        BY <2>2, <3>2
      <4>2. \A u \in Members(l2) : u.id # fresh + 1
        BY <2>7, <2>8, FreshTimer
      <4>3. /\ ListInv(l3, fresh + 2)
            /\ Members(l3) = Members(l2) \cup Members(w)
            /\ \A u \in Members(w) : u.id = fresh + 1 /\ u.kind = "wakeup"
            /\ Members(w) # {}
        BY <2>3, <2>6, <2>7, <2>8, <3>2, <4>1, <4>2, AddedTimer
      <4>4. t.id # fresh + 1
        BY <2>5, <2>7
      <4> QED
        BY <2>9, <4>3, <4>4 DEF IsWakeup
    <3> QED
      BY <3>1, <3>2
  <2> HIDE DEF l3
  <2>11. /\ ListInv(l4, fresh + 2) /\ Members(l3) \subseteq Members(l4)
    BY <2>3, <2>5, <2>6, <2>7, <2>10, AddedTimer
  <2> HIDE DEF l4
  <2>12. Members(list) \ {t} \subseteq Members(list')
    BY <2>l, <2>4, <2>8, <2>10, <2>11
  <2>13. Assigned'
    BY <2>1, <2>3, <2>12, OthersStay
  <2>14. wakeup' \in Nat
    BY <2>2, <2>3, <2>7
  <2>15. Types'
    BY <2>l, <2>1, <2>3, <2>7, <2>11, <2>14, ListInvNext DEF PointerInv, Types
  <2>16. Pointed'
    <3>1. ASSUME main.assign = {}, wakeup' # 0
          PROVE  \E u \in Members(list') : IsWakeup(u, wakeup')
      <4>1. CASE w # <<>>
        BY <2>l, <2>2, <2>10, <2>11, <4>1
      <4>2. CASE w = <<>>
        <5>1. wakeup' = wakeup
          BY <2>2, <4>2
        <5>2. PICK u \in Members(list) : IsWakeup(u, wakeup)
          BY <3>1, <5>1 DEF PointerInv, Pointed
        <5>3. u # t
          BY <2>1, <5>2 DEF IsWakeup
        <5> QED
          BY <2>12, <5>1, <5>2, <5>3
      <4> QED
        BY <4>1, <4>2
    <3> QED
      BY <2>1, <3>1 DEF Pointed, IsWakeup, Members
  <2> QED
    BY <2>13, <2>15, <2>16 DEF PointerInv
<1>5. CASE Return
  <2>1. /\ UNCHANGED <<list, wakeup, clock, main, fresh>>
        /\ lag' = IF main.pc = "idle" THEN 0 ELSE lag
        /\ handler' = [pc |-> "idle", now |-> 0, at |-> 0]
    BY <1>5 DEF Return
  <2>2. lag' \in 0 .. MaxLag
    BY <2>1, GsmdTimerAssumption DEF PointerInv, Types
  <2>3. Types'
    BY <2>1, <2>2, ListInvNext DEF PointerInv, Types
  <2> QED
    BY <2>1, <2>3 DEF PointerInv, Pointed, Assigned, IsWakeup, Members
<1> QED
  BY <1>1, <1>2, <1>3, <1>4, <1>5

\* Time passes.
LEMMA TickPointer == ASSUME PointerInv, Tick PROVE PointerInv'
<1>1. /\ clock' = clock + 1 /\ UNCHANGED <<list, wakeup, main, handler, fresh>>
      /\ \/ MainRuns("idle") /\ lag' = lag
         \/ lag < MaxLag /\ lag' = lag + 1
  BY DEF Tick
<1>2. /\ clock \in Nat /\ lag \in 0 .. MaxLag /\ handler.now \in Nat /\ ListInv(list, fresh)
  BY DEF PointerInv, Types
<1>3. lag' \in 0 .. MaxLag /\ clock' \in Nat /\ (handler.now <= clock => handler.now <= clock')
  BY <1>1, <1>2, GsmdTimerAssumption
<1>4. Types'
  BY <1>1, <1>3, ListInvNext DEF PointerInv, Types
<1>5. Pointed'
  BY <1>1 DEF PointerInv, Pointed, IsWakeup, Members
<1>6. Assigned'
  <2>1. CASE MainRuns("idle") /\ lag' = lag
    BY <1>1, <2>1 DEF PointerInv, Assigned, MainRuns
  <2>2. CASE lag < MaxLag /\ lag' = lag + 1
    <3>1. \A t \in Members(list) : t.expires \in Nat
      <4>1. \A t \in Members(list) : t \in Timer
        BY <1>2 DEF ListInv, Members
      <4> QED
        BY <4>1 DEF Timer
    <3>2. \A t \in Members(list) : clock + WakeupTime <= t.expires + lag
                                     => clock' + WakeupTime <= t.expires + lag'
      BY <1>1, <1>2, <2>2, <3>1, GsmdTimerAssumption
    <3> QED
      BY <1>1, <3>2 DEF PointerInv, Assigned, IsWakeup, Members
  <2> QED
    BY <1>1, <2>1, <2>2
<1> QED
  BY <1>4, <1>5, <1>6 DEF PointerInv

\* Every step keeps the invariant.
LEMMA StepPointer == PointerInv /\ [Next]_vars => PointerInv'
<1> SUFFICES ASSUME PointerInv, [Next]_vars PROVE PointerInv'
  OBVIOUS
<1>1. CASE UNCHANGED vars
  BY <1>1, ListInvNext DEF vars, PointerInv, Types, Pointed, Assigned, IsWakeup, Members
<1> QED
  BY <1>1, MainPointer, HandlerPointer, TickPointer DEF Next, Main, Handler

\* g->wakeup_timer does not outlive its timer, wherever the signal comes.
THEOREM NoStalePointerHolds == Spec => []NoStalePointer
<1>1. Init => PointerInv
  BY GsmdTimerAssumption
     DEF Init, PointerInv, Types, Pointed, Assigned, ListInv, Idle, Members, Distinct
<1>3. PointerInv => NoStalePointer
  BY DEF PointerInv, Types, Pointed, Assigned, IsWakeup, ListInv, Members, NoStalePointer,
         Quiet, Wakeups
<1> QED
  BY <1>1, <1>3, StepPointer, PTL DEF Spec
-----------------------------------------------------------------------------
\* The next expiration of a list is that of one of its timers, and none is before.
LEMMA SoonestOf ==
  ASSUME NEW l, NEW f, ListInv(l, f), l # <<>>
  PROVE  /\ Soonest(l) \in Nat
         /\ \E t \in Members(l) : Soonest(l) = t.expires
         /\ \A t \in Members(l) : Soonest(l) <= t.expires
<1> DEFINE times == {l[i].expires : i \in 1 .. Len(l)}
<1>1. l \in Seq(Timer) /\ Len(l) \in Nat /\ Len(l) >= 1 /\ \A i \in 1 .. Len(l) : l[i] \in Timer
  BY EmptySeq DEF ListInv
<1>2. \A t \in Timer : t.expires \in Nat
  BY DEF Timer
<1>3. times \subseteq Nat
  BY <1>1, <1>2
<1>4. l[1].expires \in times
  BY <1>1
<1>5. Soonest(l) = CHOOSE e \in times : \A f1 \in times : e <= f1
  BY DEF Soonest
<1>m. /\ \A t \in Members(l) : t.expires \in times
      /\ \A e \in times : \E t \in Members(l) : e = t.expires
  BY DEF Members
<1> HIDE DEF times
<1>6. \E x \in times : \A y \in times : x <= y
  BY <1>3, <1>4, LeastNat
<1>7. Soonest(l) \in times /\ \A y \in times : Soonest(l) <= y
  BY <1>5, <1>6
<1> QED
  BY <1>3, <1>7, <1>m

\* The timers in front of the one that is taken out, also if others are added.
LEMMA FrontStays ==
  ASSUME NEW S, NEW l \in Seq(S), NEW k \in 1 .. Len(l)
  PROVE  /\ Removed(l, k) \in Seq(S) /\ Len(Removed(l, k)) = Len(l) - 1
         /\ \A i \in 1 .. k - 1 : Removed(l, k)[i] = l[i]
<1> DEFINE a == SubSeq(l, 1, k - 1)
           c == SubSeq(l, k + 1, Len(l))
<1>1. Len(l) \in Nat /\ \A i \in 1 .. Len(l) : l[i] \in S
  OBVIOUS
<1>2. \A i \in 1 .. k - 1 : l[i] \in S
  BY <1>1
<1>3. \A i \in k + 1 .. Len(l) : l[i] \in S
  BY <1>1
<1>4. /\ a \in Seq(S) /\ Len(a) = IF 1 <= k - 1 THEN k - 1 - 1 + 1 ELSE 0
      /\ \A i \in 1 .. k - 1 - 1 + 1 : a[i] = l[1 + i - 1]
  BY <1>1, <1>2, SubSeqProperties
<1>5. c \in Seq(S) /\ Len(c) = IF k + 1 <= Len(l) THEN Len(l) - (k + 1) + 1 ELSE 0
  BY <1>1, <1>3, SubSeqProperties
<1>6. Len(a) = k - 1 /\ Len(c) = Len(l) - k /\ \A i \in 1 .. k - 1 : a[i] = l[i]
  BY <1>1, <1>4, <1>5
<1>7. Removed(l, k) = a \o c
  BY DEF Removed
<1> HIDE DEF a, c
<1>8. /\ a \o c \in Seq(S) /\ Len(a \o c) = Len(a) + Len(c)
      /\ \A i \in 1 .. Len(a) + Len(c) :
           (a \o c)[i] = IF i <= Len(a) THEN a[i] ELSE c[i - Len(a)]
  BY <1>4, <1>5, ConcatProperties
<1>9. \A i \in 1 .. k - 1 : i \in 1 .. Len(a) + Len(c) /\ i <= Len(a)
  BY <1>1, <1>6
<1> QED
  BY <1>1, <1>6, <1>7, <1>8, <1>9

\* As long as no time has passed inside timer code: main and the handler are not
\* in it together; the kernel timer is early enough when it is not being
\* calculated; and when it is, no timer it is calculated for has expired.
ArmedInv ==
  ~ slow =>
    /\ itimer \in Nat
    /\ main.pc # "idle" => handler.pc = "idle" /\ ~ SignalDue
    /\ handler.pc = "idle" /\ main.pc \in {"idle", "unregister"} =>
         \A t \in Members(list) : itimer # 0 /\ itimer <= t.expires
    /\ main.pc \in {"calc", "set"} => \A t \in Members(list) : clock < t.expires
    /\ main.pc = "set" => main.now = clock /\ list # <<>> /\ main.min = Soonest(list)
    /\ handler.pc = "scan" =>
         handler.now = clock /\ \A i \in 1 .. Len(list) : i < handler.at => clock < list[i].expires

\* What the types say of the list.
LEMMA TimerTypes ==
  ASSUME Types
  PROVE  /\ list \in Seq(Timer) /\ Len(list) \in Nat
         /\ \A t \in Members(list) : t \in Timer /\ t.expires \in Nat
         /\ \A i \in 1 .. Len(list) : list[i] \in Members(list) /\ list[i].expires \in Nat
<1>1. list \in Seq(Timer) /\ \A i \in 1 .. Len(list) : list[i] \in Timer
  BY DEF Types, ListInv
<1>2. \A t \in Timer : t.expires \in Nat
  BY DEF Timer
<1> QED
  BY <1>1, <1>2 DEF Members

\* When main enters timer.c no timer has expired.
LEMMA Early ==
  ASSUME Types, ArmedInv, ~ slow, handler.pc = "idle", main.pc \in {"idle", "unregister"},
         ~ SignalDue
  PROVE  \A t \in Members(list) : clock < t.expires
<1>1. /\ itimer \in Nat /\ clock \in Nat /\ (itimer # 0 => ~ (clock >= itimer))
      /\ \A t \in Members(list) : itimer # 0 /\ itimer <= t.expires /\ t.expires \in Nat
  BY TimerTypes DEF ArmedInv, SignalDue, Types
<1> QED
  BY <1>1

\* The kernel timer after a calculation for timers that have not expired.
LEMMA Calculated ==
  ASSUME Types, list # <<>>, \A t \in Members(list) : clock < t.expires
  PROVE  /\ setitimer(Soonest(list), clock) \in Nat \ {0}
         /\ \A t \in Members(list) : setitimer(Soonest(list), clock) <= t.expires
<1>1. /\ Soonest(list) \in Nat
      /\ \E t \in Members(list) : Soonest(list) = t.expires
      /\ \A t \in Members(list) : Soonest(list) <= t.expires
  BY SoonestOf DEF Types
<1>2. clock \in Nat /\ clock < Soonest(list)
  BY <1>1 DEF Types
<1>3. clock + (Soonest(list) - clock) = Soonest(list) /\ Soonest(list) # 0
  BY <1>1, <1>2
<1>4. setitimer(Soonest(list), clock) = Soonest(list)
  BY <1>2, <1>3 DEF setitimer
<1> QED
  BY <1>1, <1>3, <1>4

\* A new timer expires later.
LEMMA Later ==
  ASSUME clock \in Nat, NEW k \in Kinds
  PROVE  clock < clock + Period(k)
<1>1. Period(k) \in Nat /\ Period(k) > 0
  BY GsmdTimerAssumption DEF Period
<1> QED
  BY <1>1

\* The main program.
LEMMA MainArmed ==
  ASSUME PointerInv, ArmedInv,
         \/ atcmd_wakeup_modem \/ gmsd_alive_start \/ null_wakeup_cb \/ gsmd_timer_unregister
         \/ Calculate \/ Finish
  PROVE  ArmedInv'
<1> SUFFICES ASSUME ~ slow' PROVE ArmedInv'
  BY DEF ArmedInv
<1>s. ~ slow
  BY DEF atcmd_wakeup_modem, gmsd_alive_start, null_wakeup_cb, gsmd_timer_unregister,
         Calculate, Finish
<1>t. Types /\ clock \in Nat /\ fresh \in Nat \ {0} /\ ListInv(list, fresh)
      /\ DOMAIN main = {"pc", "min", "now", "assign"} /\ itimer \in Nat
  BY <1>s DEF PointerInv, Types, ArmedInv
<1>m. Members(list)' = Members(list')
  BY DEF Members
<1>a. ASSUME NEW k \in Kinds, list' = list \o Registered(fresh, k), main.pc = "idle",
             handler.pc = "idle", ~ SignalDue, UNCHANGED <<itimer, clock, handler>>,
             main'.pc = "calc"
      PROVE  ArmedInv'
  <2>1. \A t \in Members(list) : t.id # fresh
    BY <1>t, FreshTimer
  <2>2. fresh + 1 \in Nat /\ fresh <= fresh + 1 /\ fresh < fresh + 1
    BY <1>t
  <2>3. /\ Members(list') = Members(list) \cup Members(Registered(fresh, k))
        /\ \A t \in Members(Registered(fresh, k)) : t.expires = clock + Period(k)
    <3>1. fresh \in Nat \ {0} /\ fresh \in Nat /\ fresh + 1 \in Nat
      BY <1>t
    <3>2. /\ Members(list \o Registered(fresh, k)) = Members(list) \cup Members(Registered(fresh, k))
          /\ \A t \in Members(Registered(fresh, k)) :
               t.id = fresh /\ t.kind = k /\ t.expires = clock + Period(k)
      BY <1>t, <2>1, <2>2, <3>1, AddedTimer
    <3> QED
      BY <1>a, <3>2
  <2>4. \A t \in Members(list') : clock < t.expires
    BY <1>a, <1>s, <1>t, <2>3, Early, Later
  <2> QED
    BY <1>a, <1>m, <1>t, <2>4 DEF ArmedInv, SignalDue
<1>1. CASE atcmd_wakeup_modem
  BY <1>1, <1>a, Begun DEF atcmd_wakeup_modem, MainRuns, Kinds
<1>2. CASE gmsd_alive_start
  BY <1>2, <1>a, Begun DEF gmsd_alive_start, MainRuns, Kinds
<1>3. CASE null_wakeup_cb
  <2>1. /\ main.pc = "idle" /\ handler.pc = "idle" /\ ~ SignalDue
        /\ main'.pc = "unregister"
        /\ UNCHANGED <<list, itimer, clock, handler>>
    BY <1>3 DEF null_wakeup_cb, MainRuns, Idle
  <2> QED
    BY <1>s, <2>1 DEF ArmedInv, SignalDue, Members
<1>4. CASE gsmd_timer_unregister
  <2>1. PICK k \in 1 .. Len(list) : list' = Removed(list, k)
    BY <1>4 DEF gsmd_timer_unregister
  <2>2. /\ main.pc = "unregister" /\ handler.pc = "idle" /\ ~ SignalDue
        /\ main' = Calculating({0}) /\ UNCHANGED <<itimer, clock, handler>>
    BY <1>4 DEF gsmd_timer_unregister, MainRuns
  <2>3. Members(list') \subseteq Members(list)
    BY <1>t, <2>1, RemovedTimer
  <2>4. \A t \in Members(list') : clock < t.expires
    BY <1>s, <1>t, <2>2, <2>3, Early
  <2> QED
    BY <1>m, <1>t, <2>2, <2>4, Begun DEF ArmedInv, SignalDue
<1>5. CASE Calculate
  <2>1. /\ main.pc = "calc" /\ list # <<>> /\ handler.pc = "idle" /\ ~ SignalDue
        /\ main' = [main EXCEPT !.pc = "set", !.min = Soonest(list), !.now = clock]
        /\ UNCHANGED <<list, itimer, clock, handler>>
    BY <1>5 DEF Calculate, MainRuns
  <2>2. main'.pc = "set" /\ main'.min = Soonest(list) /\ main'.now = clock
    BY <1>t, <2>1
  <2>3. \A t \in Members(list) : clock < t.expires
    BY <1>s, <2>1 DEF ArmedInv
  <2>4. list' = list /\ Soonest(list)' = Soonest(list')
    BY <2>1 DEF Soonest
  <2>5. itimer' \in Nat /\ handler'.pc = "idle" /\ ~ SignalDue' /\ main'.pc = "set"
    BY <1>t, <2>1, <2>2 DEF SignalDue
  <2>6. \A t \in Members(list)' : clock' < t.expires
    BY <1>m, <2>1, <2>3
  <2>7. main'.now = clock' /\ list' # <<>> /\ main'.min = Soonest(list)'
    BY <2>1, <2>2, <2>4
  <2> QED
    BY <2>5, <2>6, <2>7 DEF ArmedInv
<1>6. CASE Finish
  <2>1. /\ handler.pc = "idle" /\ main'.pc = "idle" /\ UNCHANGED <<list, clock, handler>>
        /\ \/ main.pc = "calc" /\ list = <<>> /\ itimer' = itimer
           \/ main.pc = "set" /\ itimer' = setitimer(main.min, main.now)
    BY <1>6 DEF Finish, MainRuns, Idle
  <2>2. CASE list = <<>> /\ itimer' = itimer
    BY <1>t, <2>1, <2>2 DEF ArmedInv, Members
  <2>3. CASE main.pc = "set" /\ itimer' = setitimer(main.min, main.now)
    <3>1. /\ list # <<>> /\ main.min = Soonest(list) /\ main.now = clock
          /\ \A t \in Members(list) : clock < t.expires
      BY <1>s, <2>3 DEF ArmedInv
    <3>2. itimer' \in Nat \ {0} /\ \A t \in Members(list) : itimer' <= t.expires
      BY <1>t, <2>3, <3>1, Calculated
    <3> QED
      BY <2>1, <3>2 DEF ArmedInv, Members
  <2> QED
    BY <2>1, <2>2, <2>3
<1> QED
  BY <1>1, <1>2, <1>3, <1>4, <1>5, <1>6

\* The signal handler; main is then not in timer.c.
LEMMA HandlerArmed ==
  ASSUME PointerInv, PointerInv', ArmedInv, Signal \/ Skip \/ RunOnce \/ RunInterval \/ Return
  PROVE  ArmedInv'
<1> SUFFICES ASSUME ~ slow' PROVE ArmedInv'
  BY DEF ArmedInv
<1>s. ~ slow
  BY DEF Signal, Skip, RunOnce, RunInterval, Return
<1>t. Types /\ Types' /\ clock \in Nat /\ fresh \in Nat \ {0} /\ ListInv(list, fresh)
      /\ handler \in [pc : {"idle", "scan"}, now : Nat, at : Nat] /\ itimer \in Nat
      /\ (handler.pc = "scan" => handler.at >= 1)
  BY <1>s DEF PointerInv, Types, ArmedInv
<1>m. Members(list)' = Members(list')
  BY DEF Members
<1>1. CASE Signal
  <2>1. handler.pc = "idle" /\ main.pc = "idle"
    BY <1>1, <1>s DEF Signal, ArmedInv
  <2>2. /\ itimer' = 0 /\ handler' = [pc |-> "scan", now |-> clock, at |-> 1]
        /\ UNCHANGED <<list, clock, main>>
    BY <1>1 DEF Signal
  <2>3. handler'.pc = "scan" /\ handler'.now = clock /\ handler'.at = 1
    BY <2>2
  <2>4. \A i \in 1 .. Len(list) : ~ (i < 1)
    BY <1>t, TimerTypes
  <2> QED
    BY <2>1, <2>2, <2>3, <2>4 DEF ArmedInv
<1>h. ASSUME handler.pc = "scan"
      PROVE  /\ main.pc = "idle" /\ handler.now = clock
             /\ \A i \in 1 .. Len(list) : i < handler.at => clock < list[i].expires
  BY <1>s, <1>h DEF ArmedInv
<1>2. CASE Skip
  <2>1. /\ handler.pc = "scan" /\ ~ Due(handler.now, list[handler.at])
        /\ handler.at <= Len(list)
        /\ handler' = [handler EXCEPT !.at = @ + 1]
        /\ UNCHANGED <<list, itimer, clock, main>>
    BY <1>2 DEF Skip
  <2>2. /\ main.pc = "idle" /\ handler.now = clock
        /\ \A i \in 1 .. Len(list) : i < handler.at => clock < list[i].expires
    BY <1>h, <2>1
  <2>3. handler'.pc = "scan" /\ handler'.now = clock /\ handler'.at = handler.at + 1
    BY <1>t, <2>1, <2>2
  <2>4. handler.at \in 1 .. Len(list)
    BY <1>t, <2>1, TimerTypes
  <2>5. clock < list[handler.at].expires
    BY <1>t, <2>1, <2>2, <2>4, TimerTypes DEF Due
  <2>6. ASSUME NEW i \in 1 .. Len(list), i < handler.at + 1 PROVE clock < list[i].expires
    BY <2>2, <2>4, <2>5, <2>6
  <2> QED
    BY <1>t, <2>1, <2>2, <2>3, <2>6 DEF ArmedInv
<1>3. CASE RunOnce
  <2>1. /\ handler.pc = "scan" /\ handler.at <= Len(list) /\ list' = Removed(list, handler.at)
        /\ UNCHANGED <<itimer, clock, main, handler>>
    BY <1>3 DEF RunOnce
  <2>2. handler.at \in 1 .. Len(list)
    BY <1>t, <2>1, TimerTypes
  <2>3. /\ Len(list') = Len(list) - 1
        /\ \A i \in 1 .. handler.at - 1 : list'[i] = list[i]
    BY <1>t, <2>1, <2>2, FrontStays, TimerTypes
  <2>4. ASSUME NEW i \in 1 .. Len(list'), i < handler.at PROVE clock < list'[i].expires
    <3>1. i \in 1 .. handler.at - 1 /\ i \in 1 .. Len(list)
      BY <2>2, <2>3, <2>4
    <3> QED
      BY <1>h, <2>1, <2>3, <2>4, <3>1
  <2> QED
    BY <1>h, <1>t, <2>1, <2>4 DEF ArmedInv
<1>4. CASE RunInterval
  <2> DEFINE k == handler.at
             t == list[k]
             r1 == Registered(fresh, "check")
             r3 == Registered(t.id, "interval")
             l1 == Removed(list, k)
  <2>1. /\ handler.pc = "scan" /\ k <= Len(list)
        /\ itimer' = calc_next_expiration(list')
        /\ UNCHANGED <<clock, main, handler>>
    BY <1>4 DEF RunInterval
  <2>2. PICK w \in {<<>>} \cup IF wakeup = 0 THEN {Registered(fresh + 1, "wakeup")} ELSE {} :
          list' = l1 \o r1 \o w \o r3
    BY <1>4 DEF RunInterval
  <2>3. k \in 1 .. Len(list) /\ list[k] \in Timer
    BY <1>t, <2>1, TimerTypes
  <2>4. ASSUME NEW id \in Nat \ {0}, NEW q \in Kinds PROVE Registered(id, q) \in Seq(Timer)
    <3>1. Period(q) \in Nat
      BY GsmdTimerAssumption DEF Period
    <3>2. [id |-> id, kind |-> q, expires |-> clock + Period(q)] \in Timer
      BY <1>t, <3>1 DEF Timer
    <3> QED
      BY <3>2 DEF Registered
  <2>5. r1 \in Seq(Timer) /\ w \in Seq(Timer) /\ r3 \in Seq(Timer)
    <3>1. t.id \in Nat \ {0} /\ fresh + 1 \in Nat \ {0}
      BY <1>t, <2>3 DEF Timer
    <3>2. "check" \in Kinds /\ "wakeup" \in Kinds /\ "interval" \in Kinds
      BY DEF Kinds
    <3>3. Registered(fresh + 1, "wakeup") \in Seq(Timer) /\ <<>> \in Seq(Timer)
      BY <2>4, <3>1, <3>2
    <3>4. w = <<>> \/ w = Registered(fresh + 1, "wakeup")
      BY <2>2
    <3>5. r1 \in Seq(Timer) /\ r3 \in Seq(Timer)
      BY <1>t, <2>4, <3>1, <3>2
    <3> QED
      BY <3>3, <3>4, <3>5
  <2>6. /\ l1 \in Seq(Timer) /\ Len(l1) = Len(list) - 1
        /\ \A i \in 1 .. k - 1 : l1[i] = list[i]
    BY <1>t, <2>3, FrontStays, TimerTypes
  <2> HIDE DEF l1, r1, r3
  <2> DEFINE n == Len(l1)
             l2 == l1 \o r1
             l3 == l2 \o w
  <2>7. n \in Nat /\ k - 1 <= n
    BY <1>t, <2>3, <2>6, TimerTypes
  <2>8. l2 \in Seq(Timer) /\ Len(l2) >= n /\ \A i \in 1 .. n : l2[i] = l1[i]
    BY <2>5, <2>6, ConcatProperties
  <2> HIDE DEF l2
  <2>9. l3 \in Seq(Timer) /\ Len(l3) >= n /\ \A i \in 1 .. n : l3[i] = l1[i]
    BY <2>5, <2>8, ConcatProperties
  <2> HIDE DEF l3
  <2>10. \A i \in 1 .. n : (l3 \o r3)[i] = l1[i]
    BY <2>5, <2>9, ConcatProperties
  <2>11. list' = l3 \o r3
    BY <2>2 DEF l2, l3
  <2>12. ASSUME NEW i \in 1 .. Len(list'), i < k PROVE clock < list'[i].expires
    <3>1. i \in 1 .. k - 1 /\ i \in 1 .. n /\ i \in 1 .. Len(list)
      BY <2>3, <2>6, <2>7, <2>12
    <3> QED
      BY <1>h, <2>1, <2>6, <2>10, <2>11, <2>12, <3>1
  <2>13. itimer' \in Nat
    <3>1. ListInv(list', fresh')
      BY <1>t, ListInvNext DEF Types
    <3>2. list' # <<>> => Soonest(list') \in Nat
      BY <3>1, SoonestOf
    <3> QED
      BY <1>t, <2>1, <3>2 DEF calc_next_expiration, setitimer
  <2> QED
    BY <1>h, <2>1, <2>12, <2>13 DEF ArmedInv
<1>5. CASE Return
  <2>1. /\ handler.pc = "scan" /\ handler.at > Len(list)
        /\ itimer' = calc_next_expiration(list) /\ handler'.pc = "idle"
        /\ UNCHANGED <<list, clock, main>>
    BY <1>5 DEF Return
  <2>2. main.pc = "idle" /\ \A i \in 1 .. Len(list) : clock < list[i].expires
    BY <1>h, <1>t, <2>1, TimerTypes
  <2>3. \A t \in Members(list) : clock < t.expires
    BY <2>2 DEF Members
  <2>4. CASE list = <<>>
    BY <1>t, <2>1, <2>2, <2>4 DEF calc_next_expiration, ArmedInv, Members
  <2>5. CASE list # <<>>
    <3>1. itimer' \in Nat \ {0} /\ \A t \in Members(list) : itimer' <= t.expires
      BY <1>t, <2>1, <2>3, <2>5, Calculated DEF calc_next_expiration
    <3> QED
      BY <2>1, <2>2, <3>1 DEF ArmedInv, Members
  <2> QED
    BY <2>4, <2>5
<1> QED
  BY <1>1, <1>2, <1>3, <1>4, <1>5

\* No timer is forgotten by the kernel timer as long as no time has passed inside
\* timer code.
THEOREM ArmedHolds == Spec => []Armed
<1>1. Init => PointerInv /\ ArmedInv
  BY GsmdTimerAssumption
     DEF Init, PointerInv, Types, Pointed, Assigned, ListInv, Idle, Members, Distinct, ArmedInv
<1>2. PointerInv /\ PointerInv' /\ ArmedInv /\ [Next]_vars => ArmedInv'
  <2> SUFFICES ASSUME PointerInv, PointerInv', ArmedInv, [Next]_vars PROVE ArmedInv'
    OBVIOUS
  <2>1. CASE UNCHANGED vars
    BY <2>1 DEF vars, ArmedInv, SignalDue, Members, Soonest
  <2>2. CASE Tick
    <3>1. /\ UNCHANGED <<list, itimer, main, handler>>
          /\ ~ slow' => main.pc = "idle" /\ handler.pc = "idle" /\ ~ slow
      BY <2>2 DEF Tick, MainRuns
    <3> QED
      BY <3>1 DEF ArmedInv, Members
  <2> QED
    BY <2>1, <2>2, MainArmed, HandlerArmed DEF Next, Main, Handler
<1>4. PointerInv /\ ArmedInv => Armed
  BY TimerTypes DEF PointerInv, ArmedInv, Armed, Quiet
<1> QED
  BY <1>1, <1>2, <1>4, StepPointer, PTL DEF Spec
=============================================================================
