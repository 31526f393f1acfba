---------------------------- MODULE AtCmdProofs ----------------------------
(* Proofs about the AT command engine, alone (AtCmd) and with a modem      *)
(* (AtSession), for every value of the constants.                          *)
EXTENDS AtSession, SeqLemmas

\* Index arithmetic of the tail of a sequence.
LEMMA PredInRange ==
  ASSUME NEW n \in Nat, NEW m \in Nat, n - 1 >= 1, n - 1 <= m
  PROVE  n - 1 \in 1 .. m
OBVIOUS

\* A sequence whose tail is not empty has at least two elements, and
\* conversely.
LEMMA TailEmpty ==
  ASSUME NEW S, NEW s \in Seq(S), s # <<>>
  PROVE  Tail(s) = <<>> <=> Len(s) = 1
<1>1. Tail(s) \in Seq(S) /\ Len(Tail(s)) = Len(s) - 1
  BY HeadTailProperties
<1>2. Len(s) \in Nat /\ Len(Tail(s)) \in Nat
  BY <1>1, LenProperties
<1>3. Len(<<>>) = 0 /\ (Tail(s) # <<>> => Len(Tail(s)) # 0)
  BY <1>1, EmptySeq
<1>4. CASE Tail(s) = <<>>
  BY <1>1, <1>2, <1>3, <1>4
<1>5. CASE Tail(s) # <<>>
  BY <1>1, <1>2, <1>3, <1>5
<1> QED
  BY <1>4, <1>5

-----------------------------------------------------------------------------
\* What atcmd_fill makes of requests: commands with fresh ids, unwritten.
LEMMA FillType ==
  ASSUME NEW n \in Nat \ {0}, NEW reqs \in Seq(Request),
         n + Len(reqs) <= MaxId + 1
  PROVE  /\ atcmd_fill(n, reqs) \in Seq(Unsent)
         /\ Len(atcmd_fill(n, reqs)) = Len(reqs)
<1> DEFINE f(i) == [id |-> n + i - 1, kind |-> reqs[i].kind,
                    rest |-> reqs[i].text, started |-> FALSE]
<1>0. MaxId \in Nat /\ Len(reqs) \in Nat
  BY AtCmdAssumption
<1>1. \A i \in 1 .. Len(reqs) : reqs[i] \in Request
  OBVIOUS
<1>2. \A i \in 1 .. Len(reqs) : f(i) \in Unsent
  BY <1>0, <1>1 DEF Unsent, Cmd, Ids, Request
<1> HIDE DEF f
<1>3. [i \in 1 .. Len(reqs) |-> f(i)] \in Seq(Unsent)
  BY <1>0, <1>2
<1>4. atcmd_fill(n, reqs) = [i \in 1 .. Len(reqs) |-> f(i)]
  BY DEF atcmd_fill, f
<1>5. Len(atcmd_fill(n, reqs)) = Len(reqs)
  BY <1>0, <1>3, <1>4
<1> QED
  BY <1>2, <1>3, <1>4, <1>5

\* The daemon's own commands are requests.
LEMMA FixedType ==
  ASSUME NEW k \in Kinds
  PROVE  Fixed(k) \in Request
BY DEF Fixed, Text, Request, Kinds

\* So is a sequence of them.
LEMMA FixedAllType ==
  ASSUME NEW ks \in Seq(Kinds)
  PROVE  FixedAll(ks) \in Seq(Request) /\ Len(FixedAll(ks)) = Len(ks)
<1>1. \A i \in 1 .. Len(ks) : Fixed(ks[i]) \in Request
  BY FixedType
<1>2. FixedAll(ks) \in Seq(Request)
  BY <1>1 DEF FixedAll
<1> QED
  BY <1>2 DEF FixedAll

\* A wakeup command put before requests is one of them.
LEMMA BatchType ==
  ASSUME NEW t \in BOOLEAN, NEW reqs \in Seq(Request)
  PROVE  Batch(t, reqs) \in Seq(Request)
<1>1. Fixed("wakeup") \in Request
  BY FixedType DEF Kinds
<1> QED
  BY <1>1 DEF Batch

\* What a callback submits is a sequence of requests.
LEMMA FollowUpsType ==
  ASSUME NEW c \in Cmd, NEW info \in BOOLEAN
  PROVE  FollowUps(c, info) \in Seq(Request)
<1>1. Setup \in Seq(Kinds)
  BY AtCmdAssumption
<1>2. <<"cpmb", "plain">> \in Seq(Kinds) /\ <<"plain">> \in Seq(Kinds) /\ <<>> \in Seq(Kinds)
  BY DEF Kinds
<1> QED
  BY <1>1, <1>2, FixedAllType DEF FollowUps
-----------------------------------------------------------------------------
\* The types of the variables a submission changes.
QueueTyped ==
  /\ pending \in Seq(Unsent)
  /\ when \in BOOLEAN
  /\ wakeup_timer \in BOOLEAN
  /\ next \in 1 .. MaxId + 1

\* A submission keeps them.
LEMMA SubmitType ==
  ASSUME TypeOK, NEW reqs \in Seq(Request), atcmd_submit(reqs)
  PROVE  /\ QueueTyped'
         /\ next' = next + Len(Batch(wakeup_timer, reqs))
<1> DEFINE b == Batch(wakeup_timer, reqs)
<1>1. b \in Seq(Request)
  BY BatchType DEF TypeOK
<1>2. next \in Nat \ {0} /\ next + Len(b) <= MaxId + 1 /\ Len(b) \in Nat /\ MaxId \in Nat
  BY <1>1, AtCmdAssumption DEF TypeOK, atcmd_submit, HasRoom
<1> HIDE DEF b
<1>3. atcmd_fill(next, b) \in Seq(Unsent)
  BY <1>1, <1>2, FillType
<1>4. pending' = pending \o atcmd_fill(next, b) /\ next' = next + Len(b)
  BY DEF atcmd_submit, b
<1>5. pending' \in Seq(Unsent)
  BY <1>3, <1>4 DEF TypeOK
<1>6. when' \in BOOLEAN /\ wakeup_timer' \in BOOLEAN
  BY DEF atcmd_submit, TypeOK
<1> QED
  BY <1>2, <1>4, <1>5, <1>6 DEF b, QueueTyped

\* The end of a command keeps the types of what it changes.
LEMMA DoneType ==
  ASSUME TypeOK, busy # <<>>,
         NEW p \in Seq(Unsent), NEW n \in 1 .. MaxId + 1,
         NEW ml \in SUBSET (0 .. MaxId), NEW res, atcmd_done(p, n, ml, res)
  PROVE  /\ pending' \in Seq(Unsent) /\ busy' \in Seq(Sent)
         /\ when' \in BOOLEAN /\ wakeup_timer' \in BOOLEAN
         /\ mlbuf' \subseteq 0 .. MaxId
         /\ next' \in 1 .. MaxId + 1
         /\ done' \subseteq Ids
         /\ DOMAIN alive' \subseteq Ids /\ \A i \in DOMAIN alive' : alive'[i] \in BOOLEAN
<1> DEFINE c    == Head(busy)
           t    == TimerAfter(c, wakeup_timer)
           reqs == FollowUps(c, ml # {})
           b    == Batch(t, reqs)
<1>1. c \in Cmd /\ busy' \in Seq(Sent)
  BY DEF TypeOK, atcmd_done, Sent
<1>2. t \in BOOLEAN
  BY DEF TypeOK, TimerAfter
<1>3. reqs \in Seq(Request)
  BY <1>1, FollowUpsType
<1>4. b \in Seq(Request)
  BY <1>2, <1>3, BatchType
<1>5. n + Len(b) <= MaxId + 1 /\ Len(b) \in Nat /\ MaxId \in Nat
  BY <1>4, AtCmdAssumption DEF atcmd_done, HasRoom
<1>6. atcmd_fill(n, b) \in Seq(Unsent)
  BY <1>4, <1>5, FillType
<1>7. pending' = p \o atcmd_fill(n, b) /\ next' = n + Len(b)
  BY DEF atcmd_done
<1>8. pending' \in Seq(Unsent) /\ next' \in 1 .. MaxId + 1
  BY <1>5, <1>6, <1>7
<1>9. when' \in BOOLEAN /\ wakeup_timer' \in BOOLEAN
  BY <1>2 DEF TypeOK, atcmd_done
<1>10. mlbuf' \subseteq 0 .. MaxId
  BY DEF atcmd_done
<1>11. done' \subseteq Ids
  BY <1>1 DEF atcmd_done, TypeOK, Cmd
<1>12. DOMAIN alive' \subseteq Ids /\ \A i \in DOMAIN alive' : alive'[i] \in BOOLEAN
  BY DEF atcmd_done, gsmd_alive_cb, TypeOK
<1> QED
  BY <1>1, <1>8, <1>9, <1>10, <1>11, <1>12
-----------------------------------------------------------------------------
\* Both ways to start (main with and without "wait") are well typed.
LEMMA InitType == Init => TypeOK
<1> SUFFICES ASSUME Init PROVE TypeOK
  OBVIOUS
<1>1. MaxId \in Nat
  BY AtCmdAssumption
<1>2. CASE pending = <<>> /\ next = 1
  <2>1. DOMAIN alive \subseteq Ids /\ \A i \in DOMAIN alive : alive[i] \in BOOLEAN
    BY DEF Init
  <2>2. pending \in Seq(Unsent) /\ busy \in Seq(Sent)
    BY <1>2 DEF Init
  <2>3. intervals \in Nat /\ ready \in BOOLEAN /\ when \in BOOLEAN /\ wakeup_timer \in BOOLEAN
    <3>1. intervals = 0 \/ intervals = 1
      BY DEF Init
    <3>2. ready \in BOOLEAN /\ when \in BOOLEAN /\ wakeup_timer \in BOOLEAN
      BY DEF Init
    <3> QED
      BY <3>1, <3>2
  <2>4. mlbuf = {} /\ running = TRUE /\ done = {} /\ dropped = {} /\ answered = {}
    BY DEF Init
  <2>5. next \in 1 .. MaxId + 1
    BY <1>1, <1>2
  <2> QED
    BY <2>1, <2>2, <2>3, <2>4, <2>5 DEF TypeOK
<1>3. CASE /\ pending = atcmd_fill(1, Batch(FALSE, <<Fixed("atz")>>))
           /\ next = 3 /\ MaxId >= 2
  <2>1. <<Fixed("atz")>> \in Seq(Request)
    BY FixedType DEF Kinds
  <2>2. Batch(FALSE, <<Fixed("atz")>>) \in Seq(Request)
    BY <2>1, BatchType
  <2>3. Len(Batch(FALSE, <<Fixed("atz")>>)) = 2
    BY DEF Batch
  <2>4. pending \in Seq(Unsent)
    <3> DEFINE b == Batch(FALSE, <<Fixed("atz")>>)
    <3>1. b \in Seq(Request) /\ Len(b) = 2 /\ pending = atcmd_fill(1, b)
      BY <1>3, <2>2, <2>3
    <3> HIDE DEF b
    <3>2. 1 + Len(b) <= MaxId + 1
      BY <1>1, <1>3, <3>1
    <3>3. 1 \in Nat \ {0}
      OBVIOUS
    <3> QED
      BY <3>1, <3>2, <3>3, FillType
  <2> QED
    <3>1. DOMAIN alive \subseteq Ids /\ \A i \in DOMAIN alive : alive[i] \in BOOLEAN
      BY DEF Init
    <3>2. busy \in Seq(Sent) /\ intervals \in Nat /\ next \in 1 .. MaxId + 1
      BY <1>1, <1>3 DEF Init
    <3> QED
      BY <1>1, <1>3, <2>4, <3>1, <3>2 DEF Init, TypeOK
<1> QED
  BY <1>2, <1>3, AtCmdAssumption DEF Init

\* Every handler keeps the types, one step per action of Next.
LEMMA StepType == TypeOK /\ [Next]_vars => TypeOK'
<1> SUFFICES ASSUME TypeOK, [Next]_vars PROVE TypeOK'
  OBVIOUS
<1> USE DEF history
<1>1. ASSUME NEW k \in {"plain", "silent"}, NEW text \in Texts, ClientSubmit(k, text)
      PROVE  TypeOK'
  <2>1. <<[kind |-> k, text |-> text]>> \in Seq(Request)
    BY AtCmdAssumption DEF Request, Kinds
  <2> QED
    BY <1>1, <2>1, SubmitType DEF ClientSubmit, TypeOK, QueueTyped
<1>2. CASE cancel_idle
  <2>1. <<Fixed("hangup")>> \in Seq(Request)
    BY FixedType DEF Kinds
  <2>2. QueueTyped'
    BY <1>2, <2>1, SubmitType DEF cancel_idle
  <2> QED
    BY <1>2, <2>2 DEF cancel_idle, TypeOK, QueueTyped
<1>3. CASE cancel_atcmd
  <2> DEFINE p == atcmd_fill(next, <<Fixed("hangup")>>) \o pending
  <2>1. <<Fixed("hangup")>> \in Seq(Request) /\ Len(<<Fixed("hangup")>>) = 1
    BY FixedType DEF Kinds
  <2>2. next \in Nat \ {0} /\ next + 1 <= MaxId + 1 /\ next + 1 \in 1 .. MaxId + 1
    BY <1>3, AtCmdAssumption DEF TypeOK, cancel_atcmd
  <2>3. atcmd_fill(next, <<Fixed("hangup")>>) \in Seq(Unsent)
    BY <2>1, <2>2, FillType
  <2>4. p \in Seq(Unsent)
    BY <2>3 DEF TypeOK
  <2>5. {} \in SUBSET (0 .. MaxId) /\ busy # <<>> /\ atcmd_done(p, next + 1, {}, "OK")
    BY <1>3 DEF cancel_atcmd
  <2> HIDE DEF p
  <2> QED
    BY <1>3, <2>2, <2>4, <2>5, DoneType DEF cancel_atcmd, TypeOK
<1>4. CASE WriteNothing
  BY <1>4 DEF WriteNothing, TypeOK
<1>5. CASE WriteZero
  BY <1>5 DEF WriteZero, TypeOK
<1>6. CASE WriteLine
  <2> DEFINE c == Head(pending)
             d == [c EXCEPT !.rest = Tail(@), !.started = TRUE]
  <2>1. c \in Cmd /\ c.rest # <<>> /\ c.rest \in Seq(Nat) /\ Tail(pending) \in Seq(Unsent)
    BY <1>6 DEF WriteLine, TypeOK, Unsent, Cmd
  <2>2. d \in Cmd /\ d.rest = Tail(c.rest)
    <3>1. Tail(c.rest) \in Seq(Nat)
      BY <2>1
    <3> QED
      BY <2>1, <3>1 DEF Cmd
  <2>3. Len(c.rest) = 1 => d \in Sent
    <3>1. Len(c.rest) = 1 => Tail(c.rest) = <<>>
      BY <2>1, TailEmpty
    <3> QED
      BY <2>2, <3>1 DEF Sent
  <2>4. Len(c.rest) # 1 => d \in Unsent
    <3>1. Len(c.rest) # 1 => Tail(c.rest) # <<>>
      BY <2>1, TailEmpty
    <3> QED
      BY <2>2, <3>1 DEF Unsent
  <2> HIDE DEF d
  <2>5. pending' \in Seq(Unsent) /\ busy' \in Seq(Sent)
    <3>1. CASE Len(c.rest) = 1
      <4>1. pending' = Tail(pending) /\ busy' = Append(busy, d)
        BY <1>6, <3>1 DEF WriteLine, Executing, d
      <4> QED
        BY <2>1, <2>3, <3>1, <4>1 DEF TypeOK
    <3>2. CASE Len(c.rest) # 1
      <4>1. pending' = <<d>> \o Tail(pending) /\ busy' = busy
        BY <1>6, <3>2 DEF WriteLine, PutBack, d
      <4> QED
        BY <2>1, <2>4, <3>2, <4>1 DEF TypeOK
    <3> QED
      BY <3>1, <3>2
  <2> QED
    BY <1>6, <2>5 DEF WriteLine, TypeOK
<1>7. ASSUME NEW rc \in 1 .. 3, WriteShort(rc)
      PROVE  TypeOK'
  <2> DEFINE c == Head(pending)
             s == Skipped(rc, c)
             d == [c EXCEPT !.rest[1] = @ - s, !.started = TRUE]
  <2>1. c \in Cmd /\ c.rest # <<>> /\ c.rest \in Seq(Nat) /\ Tail(pending) \in Seq(Unsent)
    BY <1>7 DEF WriteShort, TypeOK, Unsent, Cmd
  <2>2. s \in Nat /\ s <= c.rest[1] /\ c.rest[1] \in Nat
    BY <1>7, <2>1 DEF WriteShort, Skipped
  <2>3. [c.rest EXCEPT ![1] = @ - s] \in Seq(Nat) \ {<<>>}
    BY <2>1, <2>2
  <2>4. d \in Unsent
    BY <2>1, <2>3 DEF Cmd, Unsent
  <2>5. pending' = <<d>> \o Tail(pending) /\ when' \in BOOLEAN
    BY <1>7 DEF WriteShort, PutBack
  <2> HIDE DEF d
  <2>6. pending' \in Seq(Unsent)
    BY <2>1, <2>4, <2>5
  <2> QED
    BY <1>7, <2>5, <2>6 DEF WriteShort, TypeOK
<1>8. CASE RecvReady
  <2>1. <<Fixed("atz")>> \in Seq(Request)
    BY FixedType DEF Kinds
  <2>2. QueueTyped'
    BY <1>8, <2>1, SubmitType DEF RecvReady
  <2> QED
    BY <1>8, <2>2 DEF RecvReady, TypeOK, QueueTyped
<1>9. CASE RecvInfo
  <2> DEFINE reqs == FollowUps(Head(busy), TRUE)
  <2>1. Head(busy) \in Cmd
    BY <1>9 DEF RecvInfo, TypeOK, Sent
  <2>2. reqs \in Seq(Request)
    BY <2>1, FollowUpsType
  <2>3. Head(busy).id \in 0 .. MaxId
    BY <2>1, AtCmdAssumption DEF Cmd, Ids
  <2>4. CASE mlbuf # {} /\ reqs # <<>>
    <3>1. atcmd_submit(reqs)
      BY <1>9, <2>4 DEF RecvInfo
    <3> HIDE DEF reqs
    <3> QED
      BY <1>9, <2>2, <2>3, <3>1, SubmitType DEF RecvInfo, TypeOK, QueueTyped
  <2>5. CASE ~ (mlbuf # {} /\ reqs # <<>>)
    BY <1>9, <2>3, <2>5 DEF RecvInfo, TypeOK
  <2> QED
    BY <2>4, <2>5
<1>10. CASE RecvText
  <2>1. busy # <<>> => Head(busy).id \in 0 .. MaxId
    BY AtCmdAssumption DEF TypeOK, Sent, Cmd, Ids
  <2>2. (IF busy = <<>> THEN 0 ELSE Head(busy).id) \in 0 .. MaxId
    BY <2>1, AtCmdAssumption
  <2>3. mlbuf' \subseteq 0 .. MaxId
    BY <1>10, <2>2 DEF RecvText, TypeOK
  <2> QED
    BY <1>10, <2>3 DEF RecvText, TypeOK
<1>11. CASE RecvRegistered
  <2>1. FixedAll(<<"plain", "plain">>) \in Seq(Request)
    <3>1. <<"plain", "plain">> \in Seq(Kinds)
      BY DEF Kinds
    <3> QED
      BY <3>1, FixedAllType
  <2>2. QueueTyped'
    BY <1>11, <2>1, SubmitType DEF RecvRegistered
  <2> QED
    BY <1>11, <2>2 DEF RecvRegistered, TypeOK, QueueTyped
<1>12. CASE atcmd_prompt
  BY <1>12 DEF atcmd_prompt, TypeOK
<1>13. ASSUME NEW res \in {"OK", "ERROR", "CME", "BUSY"}, RecvFinal(res)
       PROVE  TypeOK'
  <2>1. busy # <<>> /\ atcmd_done(pending, next, mlbuf, res) /\ mlbuf \in SUBSET (0 .. MaxId)
    BY <1>13 DEF RecvFinal, TypeOK
  <2>2. Head(busy).id \in Ids
    BY <2>1 DEF TypeOK, Sent, Cmd
  <2> QED
    BY <1>13, <2>1, <2>2, DoneType DEF RecvFinal, TypeOK
<1>14. CASE wakeup_timeout
  <2>1. busy # <<>> => Head(busy).id \in Ids /\ Tail(busy) \in Seq(Sent)
    BY DEF TypeOK, Sent, Cmd
  <2> QED
    BY <1>14, <2>1 DEF wakeup_timeout, Discarded, WakeQueue, TypeOK
<1>15. CASE alive_interval_tmr_cb
  <2>1. <<Fixed("alive")>> \in Seq(Request)
    BY FixedType DEF Kinds
  <2>2. Len(Batch(wakeup_timer, <<Fixed("alive")>>)) \in {1, 2}
    BY DEF Batch, TypeOK
  <2>3. QueueTyped' /\ next' = next + Len(Batch(wakeup_timer, <<Fixed("alive")>>))
    BY <1>15, <2>1, SubmitType DEF alive_interval_tmr_cb
  <2>4. next' - 1 \in Ids
    <3> DEFINE len == Len(Batch(wakeup_timer, <<Fixed("alive")>>))
    <3>0. len \in {1, 2}
      BY <2>2
    <3>3. next' = next + len
      BY <2>3
    <3> HIDE DEF len
    <3>1. len \in Nat /\ len >= 1 /\ MaxId \in Nat
      BY <3>0, AtCmdAssumption
    <3>2. next \in Nat /\ next >= 1 /\ next' \in Nat /\ next' <= MaxId + 1
      BY <2>3, <3>1 DEF QueueTyped, TypeOK
    <3>4. next' - 1 >= 1 /\ next' - 1 <= MaxId
      BY <3>1, <3>2, <3>3
    <3> QED
      BY <3>1, <3>2, <3>4, PredInRange DEF Ids
  <2>5. DOMAIN alive' \subseteq Ids /\ \A i \in DOMAIN alive' : alive'[i] \in BOOLEAN
    BY <1>15, <2>4 DEF alive_interval_tmr_cb, TypeOK
  <2> QED
    BY <1>15, <2>3, <2>5 DEF alive_interval_tmr_cb, TypeOK, QueueTyped
<1>16. ASSUME NEW i \in Ids, alive_tmr_cb(i)
       PROVE  TypeOK'
  BY <1>16 DEF alive_tmr_cb, SurvivesTimeout, TypeOK
<1>17. CASE UNCHANGED vars
  BY <1>17 DEF vars, TypeOK
<1> QED
  BY <1>1, <1>2, <1>3, <1>4, <1>5, <1>6, <1>7, <1>8, <1>9, <1>10, <1>11, <1>12,
     <1>13, <1>14, <1>15, <1>16, <1>17 DEF Next

\* The state of the AT command engine stays well typed; in particular every
\* pending command has something left to write and no busy one has.
THEOREM TypeCorrect == Spec => []TypeOK
BY InitType, StepType, PTL DEF Spec
-----------------------------------------------------------------------------
(* No lost wakeup.                                                         *)

\* Submitting to an idle queue sets the flag, and to a resting queue leaves
\* its first command, and so what it rests for, as it is.
LEMMA SubmitNoLostWakeup ==
  ASSUME TypeOK, NoLostWakeup, NEW reqs \in Seq(Request), atcmd_submit(reqs),
         busy' = busy
  PROVE  NoLostWakeup'
<1> DEFINE q == atcmd_fill(next, Batch(wakeup_timer, reqs))
<1>1. pending' = pending \o q /\ when' = (when \/ pending = <<>>)
  BY DEF atcmd_submit
<1>2. q \in Seq(Unsent)
  <2> DEFINE b == Batch(wakeup_timer, reqs)
  <2>1. b \in Seq(Request)
    BY BatchType DEF TypeOK
  <2>2. next \in Nat \ {0} /\ next + Len(b) <= MaxId + 1
    BY DEF TypeOK, atcmd_submit, HasRoom
  <2> HIDE DEF b
  <2>3. atcmd_fill(next, b) \in Seq(Unsent)
    BY <2>1, <2>2, FillType
  <2> QED
    BY <2>3 DEF b
<1> HIDE DEF q
<1>3. CASE pending = <<>>
  BY <1>1, <1>3 DEF NoLostWakeup
<1>4. CASE pending # <<>>
  <2>1. Head(pending') = Head(pending)
    BY <1>1, <1>2, <1>4 DEF TypeOK
  <2> QED
    BY <1>1, <1>4, <2>1 DEF NoLostWakeup
<1> QED
  BY <1>3, <1>4

\* No handler stops polling with something to write and nothing to wait for:
\* one step per action, atcmd_done being the case with the most work.
LEMMA StepNoLostWakeup == TypeOK /\ NoLostWakeup /\ [Next]_vars => NoLostWakeup'
<1> SUFFICES ASSUME TypeOK, NoLostWakeup, [Next]_vars PROVE NoLostWakeup'
  OBVIOUS
<1> USE DEF history
<1>1. ASSUME NEW k \in {"plain", "silent"}, NEW text \in Texts, ClientSubmit(k, text)
      PROVE  NoLostWakeup'
  <2>1. <<[kind |-> k, text |-> text]>> \in Seq(Request)
    BY AtCmdAssumption DEF Request, Kinds
  <2> QED
    BY <1>1, <2>1, SubmitNoLostWakeup DEF ClientSubmit
<1>2. ASSUME NEW k \in Kinds, atcmd_submit(<<Fixed(k)>>), busy' = busy
      PROVE  NoLostWakeup'
  <2>1. <<Fixed(k)>> \in Seq(Request)
    BY FixedType
  <2> QED
    BY <1>2, <2>1, SubmitNoLostWakeup
<1>3. CASE cancel_idle
  BY <1>2, <1>3 DEF cancel_idle, Kinds
<1>4. CASE cancel_atcmd
  BY <1>4 DEF cancel_atcmd, atcmd_done, WakeQueue, NoLostWakeup
<1>5. CASE WriteNothing
  BY <1>5 DEF WriteNothing, NoLostWakeup
<1>6. CASE WriteZero
  BY <1>6 DEF WriteZero, NoLostWakeup
<1>7. CASE WriteLine
  <2> DEFINE c == Head(pending)
             d == [c EXCEPT !.rest = Tail(@), !.started = TRUE]
  <2>1. CASE Len(c.rest) = 1
    <3>1. busy' = Append(busy, d)
      BY <1>7, <2>1 DEF WriteLine, Executing
    <3>2. busy' # <<>>
      BY <3>1 DEF TypeOK
    <3> QED
      BY <3>2 DEF NoLostWakeup
  <2>2. CASE Len(c.rest) # 1
    <3>1. pending' = <<d>> \o Tail(pending)
      BY <1>7, <2>2 DEF WriteLine, PutBack, Executing
    <3>2. c \in Cmd /\ Tail(pending) \in Seq(Unsent)
      BY <1>7 DEF WriteLine, TypeOK, Unsent
    <3>3. d.started
      BY <3>2 DEF Cmd
    <3> HIDE DEF d
    <3>4. Head(pending') = d
      BY <3>1, <3>2
    <3> QED
      BY <3>3, <3>4 DEF NoLostWakeup
  <2> QED
    BY <2>1, <2>2
<1>8. ASSUME NEW rc \in 1 .. 3, WriteShort(rc)
      PROVE  NoLostWakeup'
  <2> DEFINE c == Head(pending)
             d == [c EXCEPT !.rest[1] = @ - Skipped(rc, c), !.started = TRUE]
  <2>1. pending' = <<d>> \o Tail(pending)
    BY <1>8 DEF WriteShort, PutBack
  <2>2. c \in Cmd /\ Tail(pending) \in Seq(Unsent)
    BY <1>8 DEF WriteShort, TypeOK, Unsent
  <2>3. d.started
    BY <2>2 DEF Cmd
  <2> HIDE DEF d
  <2>4. Head(pending') = d
    BY <2>1, <2>2
  <2> QED
    BY <2>3, <2>4 DEF NoLostWakeup
<1>9. CASE RecvReady
  BY <1>2, <1>9 DEF RecvReady, Kinds
<1>10. CASE RecvInfo
  <2> DEFINE reqs == FollowUps(Head(busy), TRUE)
  <2>1. Head(busy) \in Cmd
    BY <1>10 DEF RecvInfo, TypeOK, Sent
  <2>2. reqs \in Seq(Request)
    BY <2>1, FollowUpsType
  <2>3. \/ atcmd_submit(reqs) /\ busy' = busy
        \/ UNCHANGED <<pending, when, busy>>
    BY <1>10 DEF RecvInfo
  <2> HIDE DEF reqs
  <2> QED
    BY <2>2, <2>3, SubmitNoLostWakeup DEF NoLostWakeup
<1>11. CASE RecvText
  BY <1>11 DEF RecvText, NoLostWakeup
<1>12. CASE RecvRegistered
  <2>1. <<"plain", "plain">> \in Seq(Kinds)
    BY DEF Kinds
  <2>2. FixedAll(<<"plain", "plain">>) \in Seq(Request)
    BY <2>1, FixedAllType
  <2> QED
    BY <1>12, <2>2, SubmitNoLostWakeup DEF RecvRegistered
<1>13. CASE atcmd_prompt
  BY <1>13 DEF atcmd_prompt, NoLostWakeup
<1>14. ASSUME NEW res \in {"OK", "ERROR", "CME", "BUSY"}, RecvFinal(res)
       PROVE  NoLostWakeup'
  BY <1>14 DEF RecvFinal, atcmd_done, WakeQueue, NoLostWakeup
<1>15. CASE wakeup_timeout
  BY <1>15 DEF wakeup_timeout, WakeQueue, NoLostWakeup
<1>16. CASE alive_interval_tmr_cb
  BY <1>2, <1>16 DEF alive_interval_tmr_cb, Kinds
<1>17. ASSUME NEW i \in Ids, alive_tmr_cb(i)
       PROVE  NoLostWakeup'
  BY <1>17 DEF alive_tmr_cb, NoLostWakeup
<1>18. CASE UNCHANGED vars
  BY <1>18 DEF vars, NoLostWakeup
<1> QED
  BY <1>1, <1>3, <1>4, <1>5, <1>6, <1>7, <1>8, <1>9, <1>10, <1>11, <1>12,
     <1>13, <1>14, <1>15, <1>16, <1>17, <1>18 DEF Next

\* Whatever the clients, the modem and the timers do, the queue is never left
\* with commands to write, the UART not polled and nothing to wait for.
THEOREM NoLostWakeupHolds == Spec => []NoLostWakeup
<1>1. Init => NoLostWakeup
  BY DEF Init, NoLostWakeup
<1> QED
  BY <1>1, TypeCorrect, StepNoLostWakeup, PTL DEF Spec
-----------------------------------------------------------------------------
(* The wakeup timer runs only for a wakeup command that is in the queues.  *)

\* A wakeup command is in a concatenation iff it is in one of its parts.
LEMMA HasConcat ==
  ASSUME NEW S, NEW p \in Seq(S), NEW q \in Seq(S)
  PROVE  HasWakeup(p \o q) <=> HasWakeup(p) \/ HasWakeup(q)
<1>1. /\ Len(p \o q) = Len(p) + Len(q)
      /\ \A i \in 1 .. Len(p) + Len(q) :
           (p \o q)[i] = IF i <= Len(p) THEN p[i] ELSE q[i - Len(p)]
  BY ConcatProperties
<1>2. Len(p) \in Nat /\ Len(q) \in Nat
  OBVIOUS
<1>3. ASSUME HasWakeup(p) PROVE HasWakeup(p \o q)
  BY <1>1, <1>2, <1>3 DEF HasWakeup
<1>4. ASSUME HasWakeup(q) PROVE HasWakeup(p \o q)
  <2>1. PICK i \in 1 .. Len(q) : q[i].kind = "wakeup"
    BY <1>4 DEF HasWakeup
  <2>2. i + Len(p) \in 1 .. Len(p) + Len(q) /\ ~ (i + Len(p) <= Len(p))
    BY <1>2, <2>1
  <2>3. (i + Len(p)) - Len(p) = i
    BY <1>2, <2>1
  <2>4. (p \o q)[i + Len(p)] = q[i]
    BY <1>1, <2>2, <2>3
  <2> QED
    BY <1>1, <2>1, <2>2, <2>4 DEF HasWakeup
<1>5. ASSUME HasWakeup(p \o q) PROVE HasWakeup(p) \/ HasWakeup(q)
  <2>1. PICK i \in 1 .. Len(p) + Len(q) : (p \o q)[i].kind = "wakeup"
    BY <1>1, <1>5 DEF HasWakeup
  <2>2. CASE i <= Len(p)
    BY <1>1, <1>2, <2>1, <2>2 DEF HasWakeup
  <2>3. CASE ~ (i <= Len(p))
    <3>1. i - Len(p) \in 1 .. Len(q)
      BY <1>2, <2>1, <2>3
    <3> QED
      BY <1>1, <2>1, <2>3, <3>1 DEF HasWakeup
  <2> QED
    BY <2>2, <2>3
<1> QED
  BY <1>3, <1>4, <1>5

\* ... in a sequence of one command iff it is that command.
LEMMA HasOne == ASSUME NEW e PROVE HasWakeup(<<e>>) <=> e.kind = "wakeup"
BY DEF HasWakeup

\* ... in a non-empty sequence iff it is its head or in its tail.
LEMMA HasHeadTail ==
  ASSUME NEW S, NEW q \in Seq(S), q # <<>>
  PROVE  HasWakeup(q) <=> Head(q).kind = "wakeup" \/ HasWakeup(Tail(q))
<1>1. q = <<Head(q)>> \o Tail(q) /\ Tail(q) \in Seq(S) /\ <<Head(q)>> \in Seq(S)
  OBVIOUS
<1>2. HasWakeup(<<Head(q)>> \o Tail(q)) <=> HasWakeup(<<Head(q)>>) \/ HasWakeup(Tail(q))
  BY <1>1, HasConcat
<1>3. HasWakeup(<<Head(q)>>) <=> Head(q).kind = "wakeup"
  BY HasOne
<1> QED
  BY <1>1, <1>2, <1>3

\* ... and never in the empty one.
LEMMA HasEmpty == ~ HasWakeup(<<>>)
BY DEF HasWakeup

\* With the timer off, what a submission puts into the queue starts with a
\* wakeup command.
LEMMA FillHasWakeup ==
  ASSUME NEW n \in Nat \ {0}, NEW reqs \in Seq(Request), reqs # <<>>,
         n + Len(Batch(FALSE, reqs)) <= MaxId + 1
  PROVE  HasWakeup(atcmd_fill(n, Batch(FALSE, reqs)))
<1> DEFINE b == Batch(FALSE, reqs)
           f == atcmd_fill(n, b)
<1>1. b = <<Fixed("wakeup")>> \o reqs
  BY DEF Batch
<1>2. Fixed("wakeup") \in Request
  BY FixedType DEF Kinds
<1>3. b \in Seq(Request) /\ Len(b) \in Nat /\ Len(b) >= 1 /\ b[1] = Fixed("wakeup")
  <2> DEFINE w == <<Fixed("wakeup")>>
  <2>1. w \in Seq(Request) /\ Len(w) = 1 /\ w[1] = Fixed("wakeup")
    BY <1>2
  <2> HIDE DEF w, b
  <2>2. b = w \o reqs
    BY <1>1 DEF w
  <2>3. /\ b \in Seq(Request)
        /\ Len(b) = Len(w) + Len(reqs)
        /\ \A i \in 1 .. Len(w) + Len(reqs) :
             b[i] = IF i <= Len(w) THEN w[i] ELSE reqs[i - Len(w)]
    BY <2>1, <2>2, ConcatProperties
  <2>4. Len(reqs) \in Nat
    OBVIOUS
  <2> QED
    BY <2>1, <2>3, <2>4
<1>4. n + Len(b) <= MaxId + 1
  OBVIOUS
<1> HIDE DEF b
<1>5. Len(f) = Len(b)
  BY <1>3, <1>4, FillType
<1>6. 1 \in 1 .. Len(b)
  BY <1>3
<1>7. f[1].kind = "wakeup"
  BY <1>3, <1>6 DEF atcmd_fill, Fixed
<1> HIDE DEF f
<1>8. HasWakeup(f)
  BY <1>5, <1>6, <1>7 DEF HasWakeup
<1> QED
  BY <1>8 DEF f, b

\* atcmd_submit starts the timer only together with a wakeup command.
LEMMA SubmitHasWakeup ==
  ASSUME TypeOK, TimerHasWakeup, NEW reqs \in Seq(Request), reqs # <<>>,
         atcmd_submit(reqs), busy' = busy
  PROVE  TimerHasWakeup'
<1> DEFINE b == Batch(wakeup_timer, reqs)
           q == atcmd_fill(next, b)
<1>1. pending' = pending \o q
  BY DEF atcmd_submit
<1>2. b \in Seq(Request)
  BY BatchType DEF TypeOK
<1>3. next \in Nat \ {0} /\ next + Len(b) <= MaxId + 1
  BY DEF TypeOK, atcmd_submit, HasRoom
<1>4. q \in Seq(Unsent)
  BY <1>2, <1>3, FillType
<1>5. ~ wakeup_timer => HasWakeup(q)
  BY <1>3, FillHasWakeup DEF TypeOK
<1> HIDE DEF q, b
<1>6. HasWakeup(pending') <=> HasWakeup(pending) \/ HasWakeup(q)
  BY <1>1, <1>4, HasConcat DEF TypeOK
<1> QED
  BY <1>5, <1>6 DEF TimerHasWakeup

\* The callback of a wakeup command stops the timer; any other command that
\* ends leaves the wakeup where it is, in pending or behind it in busy.
LEMMA DoneHasWakeup ==
  ASSUME TypeOK, TimerHasWakeup, busy # <<>>,
         NEW p \in Seq(Unsent), HasWakeup(pending) => HasWakeup(p),
         NEW n \in 1 .. MaxId + 1, NEW ml, NEW res, atcmd_done(p, n, ml, res)
  PROVE  TimerHasWakeup'
<1> DEFINE c    == Head(busy)
           t    == TimerAfter(c, wakeup_timer)
           reqs == FollowUps(c, ml # {})
           b    == Batch(t, reqs)
           q    == atcmd_fill(n, b)
<1>1. /\ pending' = p \o q /\ busy' = Tail(busy)
      /\ wakeup_timer' = (t \/ reqs # <<>>)
      /\ n + Len(b) <= MaxId + 1
  BY DEF atcmd_done, HasRoom
<1>2. c \in Cmd /\ t \in BOOLEAN
  BY DEF TypeOK, Sent, TimerAfter
<1>3. reqs \in Seq(Request)
  BY <1>2, FollowUpsType
<1>4. b \in Seq(Request) /\ n \in Nat \ {0}
  BY <1>2, <1>3, BatchType
<1>5. q \in Seq(Unsent)
  BY <1>1, <1>4, FillType
<1>6. ASSUME reqs # <<>>, ~ t PROVE HasWakeup(q)
  <2> HIDE DEF t, reqs, q
  <2>1. t = FALSE
    BY <1>2, <1>6
  <2>2. b = Batch(FALSE, reqs)
    BY <2>1
  <2>3. n + Len(Batch(FALSE, reqs)) <= MaxId + 1
    BY <1>1, <2>2
  <2>4. HasWakeup(atcmd_fill(n, Batch(FALSE, reqs)))
    BY <1>3, <1>4, <1>6, <2>3, FillHasWakeup
  <2> QED
    BY <2>2, <2>4 DEF q
<1>7. t => wakeup_timer /\ c.kind # "wakeup"
  BY DEF TimerAfter
<1> HIDE DEF q, b, reqs, t
<1>8. HasWakeup(pending') <=> HasWakeup(p) \/ HasWakeup(q)
  BY <1>1, <1>5, HasConcat
<1>9. HasWakeup(busy) <=> c.kind = "wakeup" \/ HasWakeup(busy')
  BY <1>1, HasHeadTail DEF TypeOK
<1> QED
  BY <1>1, <1>2, <1>6, <1>7, <1>8, <1>9 DEF TimerHasWakeup

\* The handlers keep a wakeup command queued while the timer runs.
LEMMA StepHasWakeup == TypeOK /\ TimerHasWakeup /\ [Next]_vars => TimerHasWakeup'
<1> SUFFICES ASSUME TypeOK, TimerHasWakeup, [Next]_vars PROVE TimerHasWakeup'
  OBVIOUS
<1> USE DEF history
<1>0. ASSUME UNCHANGED <<pending, busy, wakeup_timer>>
      PROVE  TimerHasWakeup'
  BY <1>0 DEF TimerHasWakeup
<1>1. ASSUME NEW k \in {"plain", "silent"}, NEW text \in Texts, ClientSubmit(k, text)
      PROVE  TimerHasWakeup'
  <2>1. <<[kind |-> k, text |-> text]>> \in Seq(Request)
    BY AtCmdAssumption DEF Request, Kinds
  <2>2. <<[kind |-> k, text |-> text]>> # <<>>
    OBVIOUS
  <2> QED
    BY <1>1, <2>1, <2>2, SubmitHasWakeup DEF ClientSubmit
<1>2. ASSUME NEW k \in Kinds, atcmd_submit(<<Fixed(k)>>), busy' = busy
      PROVE  TimerHasWakeup'
  <2>1. <<Fixed(k)>> \in Seq(Request) /\ <<Fixed(k)>> # <<>>
    BY FixedType
  <2> QED
    BY <1>2, <2>1, SubmitHasWakeup
<1>3. CASE cancel_idle
  BY <1>2, <1>3 DEF cancel_idle, Kinds
<1>4. CASE cancel_atcmd
  <2> DEFINE q == atcmd_fill(next, <<Fixed("hangup")>>)
             p == q \o pending
  <2>1. <<Fixed("hangup")>> \in Seq(Request) /\ Len(<<Fixed("hangup")>>) = 1
    BY FixedType DEF Kinds
  <2>2. next \in Nat \ {0} /\ next + 1 <= MaxId + 1 /\ next + 1 \in 1 .. MaxId + 1
    BY <1>4, AtCmdAssumption DEF TypeOK, cancel_atcmd
  <2>3. q \in Seq(Unsent)
    BY <2>1, <2>2, FillType
  <2> HIDE DEF q
  <2>4. p \in Seq(Unsent)
    BY <2>3 DEF TypeOK
  <2>5. HasWakeup(pending) => HasWakeup(p)
    BY <2>3, HasConcat DEF TypeOK
  <2>6. busy # <<>> /\ atcmd_done(p, next + 1, {}, "OK")
    BY <1>4 DEF cancel_atcmd, q
  <2> HIDE DEF p
  <2> QED
    BY <2>2, <2>4, <2>5, <2>6, DoneHasWakeup
<1>5. CASE WriteNothing
  BY <1>0, <1>5 DEF WriteNothing
<1>6. CASE WriteZero
  BY <1>0, <1>6 DEF WriteZero
<1>7. CASE WriteLine
  <2> DEFINE c == Head(pending)
             d == [c EXCEPT !.rest = Tail(@), !.started = TRUE]
  <2>1. pending # <<>> /\ pending \in Seq(Unsent) /\ busy \in Seq(Sent)
        /\ Tail(pending) \in Seq(Unsent) /\ c \in Cmd
    BY <1>7 DEF WriteLine, TypeOK, Unsent
  <2>2. d.kind = c.kind
    BY <2>1 DEF Cmd
  <2>3. HasWakeup(pending) <=> d.kind = "wakeup" \/ HasWakeup(Tail(pending))
    BY <2>1, <2>2, HasHeadTail
  <2>4. \/ pending' = Tail(pending) /\ busy' = Append(busy, d)
        \/ pending' = <<d>> \o Tail(pending) /\ busy' = busy
    BY <1>7 DEF WriteLine, PutBack, Executing
  <2>5. wakeup_timer' = wakeup_timer
    BY <1>7 DEF WriteLine
  <2> HIDE DEF d
  <2>6. HasWakeup(<<d>>) <=> d.kind = "wakeup"
    BY HasOne
  <2>7. CASE pending' = Tail(pending) /\ busy' = Append(busy, d)
    <3> DEFINE S == Sent \cup {d}
    <3>1. busy \in Seq(S) /\ <<d>> \in Seq(S) /\ busy' = busy \o <<d>>
      BY <2>1, <2>7, AppendIsConcat
    <3>2. HasWakeup(busy') <=> HasWakeup(busy) \/ HasWakeup(<<d>>)
      BY <3>1, HasConcat
    <3> QED
      BY <2>3, <2>5, <2>6, <2>7, <3>2 DEF TimerHasWakeup
  <2>8. CASE pending' = <<d>> \o Tail(pending) /\ busy' = busy
    <3> DEFINE S == Unsent \cup {d}
    <3>1. Tail(pending) \in Seq(S) /\ <<d>> \in Seq(S)
      BY <2>1
    <3>2. HasWakeup(pending') <=> HasWakeup(<<d>>) \/ HasWakeup(Tail(pending))
      BY <2>8, <3>1, HasConcat
    <3> QED
      BY <2>3, <2>5, <2>6, <2>8, <3>2 DEF TimerHasWakeup
  <2> QED
    BY <2>4, <2>7, <2>8
<1>8. ASSUME NEW rc \in 1 .. 3, WriteShort(rc)
      PROVE  TimerHasWakeup'
  <2> DEFINE c == Head(pending)
             d == [c EXCEPT !.rest[1] = @ - Skipped(rc, c), !.started = TRUE]
  <2>1. pending # <<>> /\ pending \in Seq(Unsent)
        /\ Tail(pending) \in Seq(Unsent) /\ c \in Cmd
    BY <1>8 DEF WriteShort, TypeOK, Unsent
  <2>2. d.kind = c.kind
    BY <2>1 DEF Cmd
  <2>3. HasWakeup(pending) <=> d.kind = "wakeup" \/ HasWakeup(Tail(pending))
    BY <2>1, <2>2, HasHeadTail
  <2>4. pending' = <<d>> \o Tail(pending) /\ UNCHANGED <<busy, wakeup_timer>>
    BY <1>8 DEF WriteShort, PutBack
  <2> HIDE DEF d
  <2>5. HasWakeup(<<d>>) <=> d.kind = "wakeup"
    BY HasOne
  <2> DEFINE S == Unsent \cup {d}
  <2>6. Tail(pending) \in Seq(S) /\ <<d>> \in Seq(S)
    BY <2>1
  <2>7. HasWakeup(pending') <=> HasWakeup(<<d>>) \/ HasWakeup(Tail(pending))
    BY <2>4, <2>6, HasConcat
  <2> QED
    BY <2>3, <2>4, <2>5, <2>7 DEF TimerHasWakeup
<1>9. CASE RecvReady
  BY <1>2, <1>9 DEF RecvReady, Kinds
<1>10. CASE RecvInfo
  <2> DEFINE reqs == FollowUps(Head(busy), TRUE)
  <2>1. Head(busy) \in Cmd
    BY <1>10 DEF RecvInfo, TypeOK, Sent
  <2>2. reqs \in Seq(Request)
    BY <2>1, FollowUpsType
  <2>3. \/ reqs # <<>> /\ atcmd_submit(reqs) /\ busy' = busy
        \/ UNCHANGED <<pending, busy, wakeup_timer>>
    BY <1>10 DEF RecvInfo
  <2> HIDE DEF reqs
  <2> QED
    BY <1>0, <2>2, <2>3, SubmitHasWakeup
<1>11. CASE RecvText
  BY <1>0, <1>11 DEF RecvText
<1>12. CASE RecvRegistered
  <2>1. <<"plain", "plain">> \in Seq(Kinds) /\ Len(<<"plain", "plain">>) = 2
    BY DEF Kinds
  <2>2. FixedAll(<<"plain", "plain">>) \in Seq(Request)
        /\ Len(FixedAll(<<"plain", "plain">>)) = 2
    BY <2>1, FixedAllType
  <2>3. FixedAll(<<"plain", "plain">>) # <<>>
    BY <2>2, EmptySeq
  <2> QED
    BY <1>12, <2>2, <2>3, SubmitHasWakeup DEF RecvRegistered
<1>13. CASE atcmd_prompt
  BY <1>0, <1>13 DEF atcmd_prompt
<1>14. ASSUME NEW res \in {"OK", "ERROR", "CME", "BUSY"}, RecvFinal(res)
       PROVE  TimerHasWakeup'
  <2>1. busy # <<>> /\ atcmd_done(pending, next, mlbuf, res)
    BY <1>14 DEF RecvFinal
  <2>2. pending \in Seq(Unsent) /\ next \in 1 .. MaxId + 1
    BY DEF TypeOK
  <2> QED
    BY <2>1, <2>2, DoneHasWakeup
<1>15. CASE wakeup_timeout
  BY <1>15 DEF wakeup_timeout, TimerHasWakeup
<1>16. CASE alive_interval_tmr_cb
  BY <1>2, <1>16 DEF alive_interval_tmr_cb, Kinds
<1>17. ASSUME NEW i \in Ids, alive_tmr_cb(i)
       PROVE  TimerHasWakeup'
  BY <1>0, <1>17 DEF alive_tmr_cb
<1>18. CASE UNCHANGED vars
  BY <1>0, <1>18 DEF vars
<1> QED
  BY <1>1, <1>3, <1>4, <1>5, <1>6, <1>7, <1>8, <1>9, <1>10, <1>11, <1>12,
     <1>13, <1>14, <1>15, <1>16, <1>17, <1>18 DEF Next

\* gsmd_initsettings in main queues one with the timer it starts.
LEMMA InitHasWakeup == Init => TimerHasWakeup
<1> SUFFICES ASSUME Init, wakeup_timer PROVE HasWakeup(pending)
  BY DEF TimerHasWakeup
<1> DEFINE reqs == <<Fixed("atz")>>
<1>1. pending = atcmd_fill(1, Batch(FALSE, reqs))
  BY DEF Init
<1>2. reqs \in Seq(Request) /\ reqs # <<>> /\ Len(Batch(FALSE, reqs)) = 2
  BY FixedType DEF Kinds, Batch
<1>3. 1 \in Nat \ {0} /\ 1 + 2 <= MaxId + 1
  BY AtCmdAssumption
<1> HIDE DEF reqs
<1> QED
  BY <1>1, <1>2, <1>3, FillHasWakeup

\* No new wakeup command is made while the timer runs; so while it runs there
\* must be one whose callback or timeout will stop it.
THEOREM TimerHasWakeupHolds == Spec => []TimerHasWakeup
BY InitHasWakeup, TypeCorrect, StepHasWakeup, PTL DEF Spec
-----------------------------------------------------------------------------
(* The engine implements the queue of AtQueue, and frees no command twice.  *)

\* What the abstract queue is to the engine: the ids of a sequence of commands.
IdsOf(q) == [i \in 1 .. Len(q) |-> q[i].id]

\* The ids from n on, one for each of k new commands.
IdsFrom(n, k) == [i \in 1 .. k |-> n + i - 1]

\* Commands of both queues are commands.
LEMMA QueuesType ==
  ASSUME TypeOK
  PROVE  pending \in Seq(Cmd) /\ busy \in Seq(Cmd) /\ busy \o pending \in Seq(Cmd)
BY DEF TypeOK, Sent, Unsent

\* The ids of commands.
LEMMA IdsType ==
  ASSUME NEW q \in Seq(Cmd)
  PROVE  /\ IdsOf(q) \in Seq(Nat)
         /\ Len(IdsOf(q)) = Len(q)
         /\ \A i \in 1 .. Len(q) : IdsOf(q)[i] = q[i].id
<1>1. \A c \in Cmd : c.id \in Nat
  BY AtCmdAssumption DEF Cmd, Ids
<1>2. Len(q) \in Nat /\ \A i \in 1 .. Len(q) : q[i] \in Cmd
  OBVIOUS
<1>3. \A i \in 1 .. Len(q) : q[i].id \in Nat
  BY <1>1, <1>2
<1> QED
  BY <1>2, <1>3 DEF IdsOf

\* The ids of a concatenation.
LEMMA IdsConcat ==
  ASSUME NEW p \in Seq(Cmd), NEW q \in Seq(Cmd)
  PROVE  IdsOf(p \o q) = IdsOf(p) \o IdsOf(q)
<1>1. /\ p \o q \in Seq(Cmd)
      /\ Len(p \o q) = Len(p) + Len(q)
      /\ \A i \in 1 .. Len(p) + Len(q) :
           (p \o q)[i] = IF i <= Len(p) THEN p[i] ELSE q[i - Len(p)]
  BY ConcatProperties
<1>2. /\ IdsOf(p) \in Seq(Nat) /\ Len(IdsOf(p)) = Len(p)
      /\ \A i \in 1 .. Len(p) : IdsOf(p)[i] = p[i].id
  BY IdsType
<1>3. /\ IdsOf(q) \in Seq(Nat) /\ Len(IdsOf(q)) = Len(q)
      /\ \A i \in 1 .. Len(q) : IdsOf(q)[i] = q[i].id
  BY IdsType
<1>4. /\ IdsOf(p \o q) \in Seq(Nat) /\ Len(IdsOf(p \o q)) = Len(p) + Len(q)
      /\ \A i \in 1 .. Len(p) + Len(q) : IdsOf(p \o q)[i] = (p \o q)[i].id
  BY <1>1, IdsType
<1>5. /\ IdsOf(p) \o IdsOf(q) \in Seq(Nat)
      /\ Len(IdsOf(p) \o IdsOf(q)) = Len(p) + Len(q)
      /\ \A i \in 1 .. Len(p) + Len(q) :
           (IdsOf(p) \o IdsOf(q))[i]
             = IF i <= Len(p) THEN IdsOf(p)[i] ELSE IdsOf(q)[i - Len(p)]
  BY <1>2, <1>3, ConcatProperties
<1>6. Len(p) \in Nat /\ Len(q) \in Nat
  OBVIOUS
<1>7. ASSUME NEW i \in 1 .. Len(p) + Len(q)
      PROVE  IdsOf(p \o q)[i] = (IdsOf(p) \o IdsOf(q))[i]
  <2>1. CASE i <= Len(p)
    <3>1. i \in 1 .. Len(p)
      BY <1>6, <2>1
    <3> QED
      BY <1>1, <1>2, <1>4, <1>5, <2>1, <3>1
  <2>2. CASE ~ (i <= Len(p))
    <3>1. i - Len(p) \in 1 .. Len(q)
      BY <1>6, <2>2
    <3> QED
      BY <1>1, <1>3, <1>4, <1>5, <2>2, <3>1
  <2> QED
    BY <2>1, <2>2
<1> QED
  BY <1>4, <1>5, <1>7, SeqEqual

\* The ids of one command, of a head and of a tail.
LEMMA IdsHeadTail ==
  ASSUME NEW q \in Seq(Cmd), q # <<>>
  PROVE  /\ IdsOf(q) # <<>>
         /\ Head(IdsOf(q)) = Head(q).id
         /\ Tail(IdsOf(q)) = IdsOf(Tail(q))
         /\ IdsOf(q) = <<Head(q).id>> \o IdsOf(Tail(q))
<1>1. /\ Head(q) \in Cmd /\ Tail(q) \in Seq(Cmd) /\ Len(Tail(q)) = Len(q) - 1
      /\ \A i \in 1 .. Len(Tail(q)) : Tail(q)[i] = q[i + 1]
  BY HeadTailProperties
<1>2. Len(q) \in Nat /\ Len(q) >= 1 /\ Head(q) = q[1]
  BY EmptySeq
<1>3. /\ IdsOf(q) \in Seq(Nat) /\ Len(IdsOf(q)) = Len(q)
      /\ \A i \in 1 .. Len(q) : IdsOf(q)[i] = q[i].id
  BY IdsType
<1>4. /\ IdsOf(Tail(q)) \in Seq(Nat) /\ Len(IdsOf(Tail(q))) = Len(q) - 1
      /\ \A i \in 1 .. Len(q) - 1 : IdsOf(Tail(q))[i] = q[i + 1].id
  BY <1>1, IdsType
<1>5. IdsOf(q) # <<>>
  BY <1>2, <1>3, EmptySeq
<1>6. /\ Tail(IdsOf(q)) \in Seq(Nat) /\ Len(Tail(IdsOf(q))) = Len(q) - 1
      /\ \A i \in 1 .. Len(q) - 1 : Tail(IdsOf(q))[i] = IdsOf(q)[i + 1]
  BY <1>3, <1>5, HeadTailProperties
<1>7. \A i \in 1 .. Len(q) - 1 : i + 1 \in 1 .. Len(q)
  BY <1>2
<1>8. Tail(IdsOf(q)) = IdsOf(Tail(q))
  BY <1>3, <1>4, <1>6, <1>7, SeqEqual
<1>9. Head(IdsOf(q)) = Head(q).id
  BY <1>2, <1>3
<1>10. IdsOf(q) = <<Head(IdsOf(q))>> \o Tail(IdsOf(q))
  BY <1>3, <1>5
<1> QED
  BY <1>5, <1>8, <1>9, <1>10

\* The ids of the commands atcmd_fill makes are the next ones.
LEMMA IdsFill ==
  ASSUME NEW n \in Nat \ {0}, NEW reqs \in Seq(Request), n + Len(reqs) <= MaxId + 1
  PROVE  IdsOf(atcmd_fill(n, reqs)) = IdsFrom(n, Len(reqs))
<1>1. Len(atcmd_fill(n, reqs)) = Len(reqs)
  BY FillType
<1>2. \A i \in 1 .. Len(reqs) : atcmd_fill(n, reqs)[i].id = n + i - 1
  BY DEF atcmd_fill
<1> QED
  BY <1>1, <1>2 DEF IdsOf, IdsFrom
-----------------------------------------------------------------------------
\* Concatenations of ids associate.
LEMMA Regroup ==
  ASSUME NEW s \in Seq(Nat), NEW t \in Seq(Nat), NEW u \in Seq(Nat)
  PROVE  s \o (t \o u) = (s \o t) \o u
BY SMTT(30), ConcatAssociative

\* All but the first of k + 1 new ids are the k ids after it.
LEMMA IdsFromTail ==
  ASSUME NEW n \in Nat, NEW k \in Nat
  PROVE  IdsFrom(n, k + 1) # <<>> /\ Tail(IdsFrom(n, k + 1)) = IdsFrom(n + 1, k)
<1>1. /\ IdsFrom(n, k + 1) \in Seq(Int) /\ Len(IdsFrom(n, k + 1)) = k + 1
      /\ \A i \in 1 .. k + 1 : IdsFrom(n, k + 1)[i] = n + i - 1
  BY DEF IdsFrom
<1>2. /\ IdsFrom(n + 1, k) \in Seq(Int) /\ Len(IdsFrom(n + 1, k)) = k
      /\ \A i \in 1 .. k : IdsFrom(n + 1, k)[i] = n + 1 + i - 1
  BY DEF IdsFrom
<1>3. IdsFrom(n, k + 1) # <<>>
  BY <1>1, EmptySeq
<1>4. /\ Tail(IdsFrom(n, k + 1)) \in Seq(Int)
      /\ Len(Tail(IdsFrom(n, k + 1))) = k
      /\ \A i \in 1 .. k : Tail(IdsFrom(n, k + 1))[i] = IdsFrom(n, k + 1)[i + 1]
  BY <1>1, <1>3, HeadTailProperties
<1>5. \A i \in 1 .. k : Tail(IdsFrom(n, k + 1))[i] = IdsFrom(n + 1, k)[i]
  BY <1>1, <1>2, <1>4
<1> QED
  BY <1>2, <1>3, <1>4, <1>5, SeqEqual
-----------------------------------------------------------------------------
\* The ids in the engine's queues, and how they start.
Queue == IdsOf(busy \o pending)

\* The queue has the executing commands in front.
LEMMA QueueParts ==
  ASSUME TypeOK
  PROVE  /\ Queue = IdsOf(busy) \o IdsOf(pending)
         /\ busy # <<>> =>
              /\ Queue # <<>>
              /\ Head(Queue) = Head(busy).id
              /\ Tail(Queue) = IdsOf(Tail(busy)) \o IdsOf(pending)
<1>1. pending \in Seq(Cmd) /\ busy \in Seq(Cmd)
  BY QueuesType
<1>2. Queue = IdsOf(busy) \o IdsOf(pending)
  BY <1>1, IdsConcat DEF Queue
<1>3. ASSUME busy # <<>>
      PROVE  /\ Queue # <<>>
             /\ Head(Queue) = Head(busy).id
             /\ Tail(Queue) = IdsOf(Tail(busy)) \o IdsOf(pending)
  <2>1. IdsOf(busy) \in Seq(Nat) /\ IdsOf(pending) \in Seq(Nat)
    BY <1>1, IdsType
  <2>2. IdsOf(busy) # <<>> /\ Head(IdsOf(busy)) = Head(busy).id
        /\ Tail(IdsOf(busy)) = IdsOf(Tail(busy))
    BY <1>1, <1>3, IdsHeadTail
  <2> DEFINE p == IdsOf(busy)
             q == IdsOf(pending)
  <2>3. p \in Seq(Nat) /\ q \in Seq(Nat) /\ p # <<>>
    BY <2>1, <2>2
  <2> HIDE DEF p, q
  <2>4. p \o q # <<>> /\ Head(p \o q) = Head(p) /\ Tail(p \o q) = Tail(p) \o q
    BY <2>3, HeadTailConcat
  <2> QED
    BY <1>2, <2>2, <2>4 DEF p, q
<1> QED
  BY <1>2, <1>3
-----------------------------------------------------------------------------
\* A submission appends its commands to the queue.
LEMMA SubmitRefines ==
  ASSUME TypeOK, NEW reqs \in Seq(Request), reqs # <<>>, atcmd_submit(reqs),
         UNCHANGED <<busy, done, dropped>>
  PROVE  AbstractQueue!Submit
<1> DEFINE b == Batch(wakeup_timer, reqs)
           f == atcmd_fill(next, b)
<1>1. b \in Seq(Request) /\ next \in Nat \ {0} /\ next + Len(b) <= MaxId + 1
  BY BatchType DEF TypeOK, atcmd_submit, HasRoom
<1>2. Len(b) \in Nat /\ Len(b) >= 1
  <2>1. b # <<>>
    BY FixedType DEF Batch, Kinds
  <2> HIDE DEF b
  <2> QED
    BY <1>1, <2>1, EmptySeq
<1>3. pending' = pending \o f /\ next' = next + Len(b)
  BY DEF atcmd_submit
<1>4. f \in Seq(Unsent) /\ IdsOf(f) = IdsFrom(next, Len(b))
  <2> HIDE DEF b
  <2> QED
    BY <1>1, FillType, IdsFill
<1> HIDE DEF b, f
<1>5. f \in Seq(Cmd) /\ busy \in Seq(Cmd) /\ pending \in Seq(Cmd)
  BY <1>4, QueuesType DEF Unsent
<1>6. busy' \o pending' = (busy \o pending) \o f
  BY SMTT(30), <1>3, <1>5, ConcatAssociative
<1>7. Queue' = Queue \o IdsFrom(next, Len(b))
  <2>1. busy \o pending \in Seq(Cmd)
    BY <1>5
  <2>2. IdsOf(busy' \o pending') = IdsOf(busy \o pending) \o IdsOf(f)
    BY <1>5, <1>6, <2>1, IdsConcat
  <2> QED
    BY <1>4, <2>2 DEF Queue
<1>8. next' \in Nat /\ next < next' /\ next' - next = Len(b)
  BY <1>1, <1>2, <1>3
<1> QED
  BY <1>7, <1>8 DEF AbstractQueue!Submit, AbstractQueue!Fresh, Queue, IdsOf, IdsFrom

\* The end of the first command takes it off the queue; what its callback
\* submits goes to the end.
LEMMA DoneRefines ==
  ASSUME TypeOK, busy # <<>>, NEW p \in Seq(Unsent), NEW n \in 1 .. MaxId + 1,
         NEW ml, NEW res, atcmd_done(p, n, ml, res)
  PROVE  \E k \in Nat :
           /\ next' = n + k
           /\ Queue' = (IdsOf(Tail(busy)) \o IdsOf(p)) \o IdsFrom(n, k)
           /\ done' = done \cup {Head(busy).id}
<1> DEFINE c    == Head(busy)
           t    == TimerAfter(c, wakeup_timer)
           reqs == FollowUps(c, ml # {})
           b    == Batch(t, reqs)
           f    == atcmd_fill(n, b)
<1>1. /\ pending' = p \o f /\ busy' = Tail(busy) /\ next' = n + Len(b)
      /\ done' = done \cup {c.id}
      /\ n + Len(b) <= MaxId + 1
  BY DEF atcmd_done, HasRoom
<1>2. c \in Cmd /\ t \in BOOLEAN
  BY DEF TypeOK, Sent, TimerAfter
<1>3. reqs \in Seq(Request)
  BY <1>2, FollowUpsType
<1>4. b \in Seq(Request) /\ n \in Nat \ {0}
  BY <1>2, <1>3, BatchType
<1> HIDE DEF b, reqs, t
<1>5. f \in Seq(Unsent) /\ IdsOf(f) = IdsFrom(n, Len(b)) /\ Len(b) \in Nat
  BY <1>1, <1>4, FillType, IdsFill
<1> HIDE DEF f
<1>6. f \in Seq(Cmd) /\ p \in Seq(Cmd) /\ Tail(busy) \in Seq(Cmd)
  BY <1>5, QueuesType DEF Unsent
<1>7. busy' \o pending' = (Tail(busy) \o p) \o f
  <2> DEFINE a == Tail(busy)
  <2>1. a \in Seq(Cmd)
    BY <1>6
  <2> HIDE DEF a
  <2>2. (a \o p) \o f = a \o (p \o f)
    BY SMTT(30), <1>6, <2>1, ConcatAssociative
  <2> QED
    BY <1>1, <2>2 DEF a
<1>8. Queue' = (IdsOf(Tail(busy)) \o IdsOf(p)) \o IdsFrom(n, Len(b))
  <2>1. Tail(busy) \o p \in Seq(Cmd)
    BY <1>6
  <2>2. IdsOf(Tail(busy) \o p) = IdsOf(Tail(busy)) \o IdsOf(p)
    BY <1>6, IdsConcat
  <2>3. IdsOf(busy' \o pending') = IdsOf(Tail(busy) \o p) \o IdsOf(f)
    BY <1>6, <1>7, <2>1, IdsConcat
  <2> QED
    BY <1>5, <2>2, <2>3 DEF Queue
<1> QED
  BY <1>1, <1>5, <1>8
-----------------------------------------------------------------------------
\* Writing a line of a command, or moving it behind those that execute, does
\* not change its place in the queue.
LEMMA MoveKeepsQueue ==
  ASSUME pending \in Seq(Cmd), busy \in Seq(Cmd), pending # <<>>,
         NEW d \in Cmd, d.id = Head(pending).id,
         \/ pending' = Tail(pending) /\ busy' = Append(busy, d)
         \/ pending' = <<d>> \o Tail(pending) /\ busy' = busy
  PROVE  Queue' = Queue
<1> DEFINE r == Tail(pending)
<1>1. r \in Seq(Cmd) /\ <<d>> \in Seq(Cmd) /\ Append(busy, d) = busy \o <<d>>
  BY AppendIsConcat
<1>2. IdsOf(pending) = <<d.id>> \o IdsOf(r)
  BY IdsHeadTail
<1>3. IdsOf(<<d>>) = <<d.id>>
  BY DEF IdsOf
<1>4. \/ pending' = r /\ busy' = busy \o <<d>>
      \/ pending' = <<d>> \o r /\ busy' = busy
  BY <1>1
<1> HIDE DEF r
<1>5. busy' \o pending' = busy \o (<<d>> \o r)
  <2>1. (busy \o <<d>>) \o r = busy \o (<<d>> \o r)
    BY <1>1, ConcatAssociative
  <2> QED
    BY <1>4, <2>1
<1>6. <<d>> \o r \in Seq(Cmd) /\ IdsOf(<<d>> \o r) = IdsOf(pending)
  <2> DEFINE e == <<d>>
  <2>1. e \in Seq(Cmd)
    BY <1>1
  <2> HIDE DEF e
  <2>2. e \o r \in Seq(Cmd) /\ IdsOf(e \o r) = IdsOf(e) \o IdsOf(r)
    BY SMTT(30), <1>1, <2>1, IdsConcat
  <2> QED
    BY <1>2, <1>3, <2>2 DEF e
<1>7. IdsOf(busy' \o pending') = IdsOf(busy) \o IdsOf(pending)
  BY <1>5, <1>6, IdsConcat
<1>8. Queue = IdsOf(busy) \o IdsOf(pending)
  BY IdsConcat DEF Queue
<1> QED
  BY <1>7, <1>8 DEF Queue

\* A final result of the modem finishes the first command.
LEMMA FinalRefines ==
  ASSUME TypeOK, NEW res, RecvFinal(res)
  PROVE  AbstractQueue!Finish
<1>1. busy # <<>> /\ atcmd_done(pending, next, mlbuf, res) /\ dropped' = dropped
  BY DEF RecvFinal
<1>2. pending \in Seq(Unsent) /\ next \in 1 .. MaxId + 1
  BY DEF TypeOK
<1>3. PICK k \in Nat :
        /\ next' = next + k
        /\ Queue' = (IdsOf(Tail(busy)) \o IdsOf(pending)) \o IdsFrom(next, k)
        /\ done' = done \cup {Head(busy).id}
  BY <1>1, <1>2, DoneRefines
<1>4. Queue # <<>> /\ Head(Queue) = Head(busy).id
      /\ Tail(Queue) = IdsOf(Tail(busy)) \o IdsOf(pending)
  BY <1>1, QueueParts
<1>5. next' \in Nat /\ next <= next' /\ next' - next = k
  BY <1>2, <1>3, AtCmdAssumption
<1>6. Queue # <<>> /\ Queue' = Tail(Queue) \o IdsFrom(next, next' - next)
      /\ done' = done \cup {Head(Queue)}
  BY <1>3, <1>4, <1>5
<1> QED
  BY <1>1, <1>5, <1>6 DEF AbstractQueue!Finish, AbstractQueue!Fresh, Queue, IdsOf, IdsFrom

\* A hang-up finishes the command that executes and goes before those that
\* have not been sent.
LEMMA CancelRefines ==
  ASSUME TypeOK, cancel_atcmd
  PROVE  AbstractQueue!Cancel
<1> DEFINE h == atcmd_fill(next, <<Fixed("hangup")>>)
           p == h \o pending
<1>1. <<Fixed("hangup")>> \in Seq(Request) /\ Len(<<Fixed("hangup")>>) = 1
  BY FixedType DEF Kinds
<1>2. next \in Nat \ {0} /\ next + 1 <= MaxId + 1 /\ next + 1 \in 1 .. MaxId + 1
  BY AtCmdAssumption DEF TypeOK, cancel_atcmd
<1>3. h \in Seq(Unsent) /\ IdsOf(h) = <<next>>
  <2>1. IdsOf(h) = IdsFrom(next, 1)
    BY <1>1, <1>2, IdsFill
  <2>2. IdsFrom(next, 1) = <<next>>
    BY <1>2 DEF IdsFrom
  <2> QED
    BY <1>1, <1>2, <2>1, <2>2, FillType
<1>4. busy # <<>> /\ atcmd_done(p, next + 1, {}, "OK") /\ dropped' = dropped
  BY DEF cancel_atcmd
<1> HIDE DEF h
<1>5. p \in Seq(Unsent) /\ IdsOf(p) = <<next>> \o IdsOf(pending)
  <2>1. h \in Seq(Cmd) /\ pending \in Seq(Cmd)
    BY <1>3, QueuesType DEF Unsent
  <2>2. p \in Seq(Unsent)
    BY <1>3 DEF TypeOK
  <2> QED
    BY <1>3, <2>1, <2>2, IdsConcat
<1> HIDE DEF p
<1>6. PICK k \in Nat :
        /\ next' = (next + 1) + k
        /\ Queue' = (IdsOf(Tail(busy)) \o IdsOf(p)) \o IdsFrom(next + 1, k)
        /\ done' = done \cup {Head(busy).id}
  BY <1>2, <1>4, <1>5, DoneRefines
<1>7. Queue # <<>> /\ Head(Queue) = Head(busy).id
      /\ Queue = IdsOf(busy) \o IdsOf(pending)
  BY <1>4, QueueParts
<1>8. next' \in Nat /\ next < next' /\ next' - next = k + 1
  BY <1>2, <1>6
<1> DEFINE b == IdsOf(busy)
           q == IdsOf(pending)
<1>9. b \in Seq(Nat) /\ q \in Seq(Nat) /\ b # <<>> /\ Len(b) \in 1 .. Len(b \o q)
      /\ Tail(b) = IdsOf(Tail(busy))
  <2>1. busy \in Seq(Cmd) /\ pending \in Seq(Cmd)
    BY QueuesType
  <2>2. b \in Seq(Nat) /\ q \in Seq(Nat) /\ b # <<>> /\ Tail(b) = IdsOf(Tail(busy))
    BY <1>4, <2>1, IdsType, IdsHeadTail
  <2> HIDE DEF b, q
  <2>3. Len(b \o q) = Len(b) + Len(q) /\ Len(b) \in Nat /\ Len(q) \in Nat /\ Len(b) >= 1
    BY <2>2, ConcatProperties, EmptySeq
  <2> QED
    BY <2>2, <2>3
<1> HIDE DEF b, q
<1>10. SubSeq(b \o q, 2, Len(b)) = Tail(b) /\ SubSeq(b \o q, Len(b) + 1, Len(b \o q)) = q
  BY <1>9, ConcatParts
<1>11. Tail(IdsFrom(next, next' - next)) = IdsFrom(next + 1, k)
  BY <1>2, <1>8, IdsFromTail
<1>12. Queue' = ((Tail(b) \o <<next>>) \o q) \o IdsFrom(next + 1, k)
  <2>1. <<next>> \in Seq(Nat) /\ Tail(b) \in Seq(Nat)
    BY <1>2, <1>9
  <2>2. Tail(b) \o (<<next>> \o q) = (Tail(b) \o <<next>>) \o q
    BY <1>9, <2>1, Regroup
  <2> QED
    BY <1>5, <1>6, <1>9, <2>2 DEF q
<1>13. Queue = b \o q
  BY <1>7 DEF b, q
<1>14. \E m \in 1 .. Len(Queue) :
         Queue' = SubSeq(Queue, 2, m) \o <<next>> \o SubSeq(Queue, m + 1, Len(Queue))
                    \o Tail(IdsFrom(next, next' - next))
  BY <1>9, <1>10, <1>11, <1>12, <1>13
<1>15. done' = done \cup {Head(Queue)}
  BY <1>6, <1>7
<1> QED
  BY <1>4, <1>7, <1>8, <1>14, <1>15
     DEF AbstractQueue!Cancel, AbstractQueue!Fresh, Queue, IdsOf, IdsFrom

\* The wakeup timeout drops the first command or only stops the timer.
LEMMA TimeoutRefines ==
  ASSUME TypeOK, wakeup_timeout
  PROVE  AbstractQueue!GiveUp \/ UNCHANGED <<pending, busy, next, done, dropped>>
<1>1. CASE ~ (busy # <<>> /\ Head(busy).kind = "wakeup")
  BY <1>1 DEF wakeup_timeout
<1>2. CASE busy # <<>> /\ Head(busy).kind = "wakeup"
  <2>1. busy' = Tail(busy) /\ dropped' = dropped \cup {Head(busy).id}
        /\ UNCHANGED <<pending, next, done>>
    BY <1>2 DEF wakeup_timeout, Discarded
  <2>2. Queue # <<>> /\ Head(Queue) = Head(busy).id
        /\ Tail(Queue) = IdsOf(Tail(busy)) \o IdsOf(pending)
    BY <1>2, QueueParts
  <2>3. Queue' = IdsOf(Tail(busy)) \o IdsOf(pending)
    <3>1. Tail(busy) \in Seq(Cmd) /\ pending \in Seq(Cmd)
      BY <1>2, QueuesType
    <3> QED
      BY <2>1, <3>1, IdsConcat DEF Queue
  <2>4. Queue # <<>> /\ Queue' = Tail(Queue) /\ dropped' = dropped \cup {Head(Queue)}
    BY <2>1, <2>2, <2>3
  <2> QED
    BY <2>1, <2>4 DEF AbstractQueue!GiveUp, Queue, IdsOf
<1> QED
  BY <1>1, <1>2
-----------------------------------------------------------------------------
\* Every handler is a step of the abstract queue or leaves it alone.
LEMMA StepRefines ==
  TypeOK /\ [Next]_vars => [AbstractQueue!Next]_(AbstractQueue!vars)
<1> SUFFICES ASSUME TypeOK, [Next]_vars
             PROVE  AbstractQueue!Next \/ UNCHANGED AbstractQueue!vars
  OBVIOUS
<1> USE DEF history
<1>0. ASSUME UNCHANGED <<Queue, next, done, dropped>>
      PROVE  UNCHANGED AbstractQueue!vars
  BY <1>0 DEF AbstractQueue!vars, Queue, IdsOf
<1>a. ASSUME UNCHANGED <<pending, busy, next, done, dropped>>
      PROVE  UNCHANGED AbstractQueue!vars
  BY <1>0, <1>a DEF Queue
<1>b. ASSUME AbstractQueue!Submit PROVE AbstractQueue!Next
  BY <1>b DEF AbstractQueue!Next
<1>1. ASSUME NEW k \in {"plain", "silent"}, NEW text \in Texts, ClientSubmit(k, text)
      PROVE  AbstractQueue!Next
  <2>1. <<[kind |-> k, text |-> text]>> \in Seq(Request)
    BY AtCmdAssumption DEF Request, Kinds
  <2>2. <<[kind |-> k, text |-> text]>> # <<>>
    OBVIOUS
  <2> QED
    BY <1>1, <1>b, <2>1, <2>2, SubmitRefines DEF ClientSubmit
<1>2. ASSUME NEW k \in Kinds, atcmd_submit(<<Fixed(k)>>), UNCHANGED <<busy, done, dropped>>
      PROVE  AbstractQueue!Next
  <2>1. <<Fixed(k)>> \in Seq(Request) /\ <<Fixed(k)>> # <<>>
    BY FixedType
  <2> QED
    BY <1>2, <1>b, <2>1, SubmitRefines
<1>3. CASE cancel_idle
  BY <1>2, <1>3 DEF cancel_idle, Kinds
<1>4. CASE cancel_atcmd
  BY <1>4, CancelRefines DEF AbstractQueue!Next
<1>5. CASE WriteNothing
  BY <1>a, <1>5 DEF WriteNothing
<1>6. CASE WriteZero
  BY <1>a, <1>6 DEF WriteZero
<1>7. CASE WriteLine
  <2> DEFINE c == Head(pending)
             d == [c EXCEPT !.rest = Tail(@), !.started = TRUE]
  <2>1. c \in Cmd /\ Tail(pending) \in Seq(Cmd) /\ pending \in Seq(Cmd) /\ busy \in Seq(Cmd)
    BY <1>7, QueuesType DEF WriteLine
  <2>2. d \in Cmd /\ d.id = c.id
    <3>1. c.rest # <<>> /\ c.rest \in Seq(Nat)
      BY <1>7 DEF WriteLine, TypeOK, Unsent, Cmd
    <3>2. Tail(c.rest) \in Seq(Nat)
      BY <3>1
    <3> QED
      BY <2>1, <3>2 DEF Cmd
  <2>3. pending # <<>> /\ IdsOf(pending) = <<d.id>> \o IdsOf(Tail(pending))
    BY <1>7, <2>1, <2>2, IdsHeadTail DEF WriteLine
  <2>4. UNCHANGED <<next, done, dropped>>
    BY <1>7 DEF WriteLine
  <2>5. \/ pending' = Tail(pending) /\ busy' = Append(busy, d)
        \/ pending' = <<d>> \o Tail(pending) /\ busy' = busy
    BY <1>7 DEF WriteLine, PutBack, Executing
  <2> HIDE DEF d
  <2>6. Queue' = Queue
    BY <2>1, <2>2, <2>3, <2>5, MoveKeepsQueue
  <2> QED
    BY <1>0, <2>4, <2>6
<1>8. ASSUME NEW rc \in 1 .. 3, WriteShort(rc)
      PROVE  UNCHANGED AbstractQueue!vars
  <2> DEFINE c == Head(pending)
             s == Skipped(rc, c)
             d == [c EXCEPT !.rest[1] = @ - s, !.started = TRUE]
  <2>1. c \in Cmd /\ Tail(pending) \in Seq(Cmd) /\ pending \in Seq(Cmd) /\ busy \in Seq(Cmd)
    BY <1>8, QueuesType DEF WriteShort
  <2>2. c.rest # <<>> /\ c.rest \in Seq(Nat)
    BY <1>8 DEF WriteShort, TypeOK, Unsent, Cmd
  <2>3. s \in Nat /\ s <= c.rest[1] /\ c.rest[1] \in Nat
    BY <1>8, <2>2 DEF WriteShort, Skipped
  <2>4. [c.rest EXCEPT ![1] = @ - s] \in Seq(Nat)
    BY <2>2, <2>3
  <2>5. d \in Cmd /\ d.id = c.id
    BY <2>1, <2>4 DEF Cmd
  <2>6. pending' = <<d>> \o Tail(pending) /\ UNCHANGED <<busy, next, done, dropped>>
    BY <1>8 DEF WriteShort, PutBack
  <2>7. pending # <<>>
    BY <1>8 DEF WriteShort
  <2> HIDE DEF d
  <2>8. Queue' = Queue
    BY <2>1, <2>5, <2>6, <2>7, MoveKeepsQueue
  <2> QED
    BY <1>0, <2>6, <2>8
<1>9. CASE RecvReady
  BY <1>2, <1>9 DEF RecvReady, Kinds
<1>10. CASE RecvInfo
  <2> DEFINE reqs == FollowUps(Head(busy), TRUE)
  <2>1. Head(busy) \in Cmd
    BY <1>10 DEF RecvInfo, TypeOK, Sent
  <2>2. reqs \in Seq(Request)
    BY <2>1, FollowUpsType
  <2>3. UNCHANGED <<busy, done, dropped>>
    BY <1>10 DEF RecvInfo
  <2>4. \/ reqs # <<>> /\ atcmd_submit(reqs)
        \/ UNCHANGED <<pending, next>>
    BY <1>10 DEF RecvInfo
  <2> HIDE DEF reqs
  <2> QED
    BY <1>a, <1>b, <2>2, <2>3, <2>4, SubmitRefines
<1>11. CASE RecvText
  BY <1>a, <1>11 DEF RecvText
<1>12. CASE RecvRegistered
  <2>1. <<"plain", "plain">> \in Seq(Kinds) /\ Len(<<"plain", "plain">>) = 2
    BY DEF Kinds
  <2>2. FixedAll(<<"plain", "plain">>) \in Seq(Request)
        /\ Len(FixedAll(<<"plain", "plain">>)) = 2
    BY <2>1, FixedAllType
  <2>3. FixedAll(<<"plain", "plain">>) # <<>>
    BY <2>2, EmptySeq
  <2> QED
    BY <1>12, <1>b, <2>2, <2>3, SubmitRefines DEF RecvRegistered
<1>13. CASE atcmd_prompt
  BY <1>a, <1>13 DEF atcmd_prompt
<1>14. ASSUME NEW res \in {"OK", "ERROR", "CME", "BUSY"}, RecvFinal(res)
       PROVE  AbstractQueue!Next
  BY <1>14, FinalRefines DEF AbstractQueue!Next
<1>15. CASE wakeup_timeout
  BY <1>15, <1>a, TimeoutRefines DEF AbstractQueue!Next
<1>16. CASE alive_interval_tmr_cb
  BY <1>2, <1>16 DEF alive_interval_tmr_cb, Kinds
<1>17. ASSUME NEW i \in Ids, alive_tmr_cb(i)
       PROVE  UNCHANGED AbstractQueue!vars
  BY <1>a, <1>17 DEF alive_tmr_cb
<1>18. CASE UNCHANGED vars
  BY <1>a, <1>18 DEF vars
<1> QED
  BY <1>1, <1>3, <1>4, <1>5, <1>6, <1>7, <1>8, <1>9, <1>10, <1>11, <1>12,
     <1>13, <1>14, <1>15, <1>16, <1>17, <1>18 DEF Next

\* main starts with an empty queue, or with a wakeup command and ATZ.
LEMMA InitRefines == Init => AbstractQueue!Init
<1> SUFFICES ASSUME Init PROVE AbstractQueue!Init
  OBVIOUS
<1>1. busy = <<>> /\ done = {} /\ dropped = {}
  BY DEF Init
<1>2. TypeOK
  BY InitType
<1>3. Queue = IdsOf(busy) \o IdsOf(pending) /\ IdsOf(busy) = <<>>
  <2>1. <<>> \in Seq(Cmd) /\ Len(<<>>) = 0
    BY EmptySeq
  <2>2. IdsOf(<<>>) \in Seq(Nat) /\ Len(IdsOf(<<>>)) = 0
    BY <2>1, IdsType
  <2>3. IdsOf(<<>>) = <<>>
    BY <2>2, EmptySeq
  <2> QED
    BY <1>1, <1>2, <2>3, QueueParts
<1>4. IdsOf(pending) \in Seq(Nat)
  BY <1>2, QueuesType, IdsType
<1>5. Queue = IdsOf(pending)
  BY <1>3, <1>4
<1>6. CASE pending = <<>> /\ next = 1
  BY <1>1, <1>5, <1>6 DEF AbstractQueue!Init, Queue, IdsOf
<1>7. CASE pending = atcmd_fill(1, Batch(FALSE, <<Fixed("atz")>>)) /\ next = 3
  <2> DEFINE b == Batch(FALSE, <<Fixed("atz")>>)
  <2>1. <<Fixed("atz")>> \in Seq(Request)
    BY FixedType DEF Kinds
  <2>2. b \in Seq(Request) /\ Len(b) = 2
    <3>1. b \in Seq(Request)
      BY <2>1, BatchType
    <3>2. Len(b) = 2
      BY DEF Batch
    <3> QED
      BY <3>1, <3>2
  <2> HIDE DEF b
  <2>3. IdsOf(pending) = IdsFrom(1, 2)
    <3>1. 1 \in Nat \ {0} /\ 1 + Len(b) <= MaxId + 1
      BY <2>2, AtCmdAssumption
    <3> QED
      BY <1>7, <2>2, <3>1, IdsFill DEF b
  <2>4. IdsFrom(1, 2) = [i \in 1 .. next - 1 |-> i]
    BY <1>7 DEF IdsFrom
  <2> QED
    BY <1>1, <1>5, <1>7, <2>3, <2>4 DEF AbstractQueue!Init, Queue, IdsOf
<1> QED
  BY <1>6, <1>7 DEF Init

\* The engine implements AtQueue: whatever the clients, the modem and the
\* timers do, a command leaves the queues only as their first one, with its
\* final callback or as a wakeup that was given up, and only a hang-up
\* overtakes another command.
THEOREM EngineImplementsQueue == Spec => ImplementsAtQueue
BY TypeCorrect, InitRefines, StepRefines, PTL DEF Spec, ImplementsAtQueue, AbstractQueue!Spec
-----------------------------------------------------------------------------
\* With the engine's queues as its queue, AtQueue's theorem is about the engine.
QueueProofs ==
  INSTANCE AtQueueProofs WITH queue <- [i \in 1 .. Len(busy \o pending) |-> (busy \o pending)[i].id]

\* No command of the engine is freed twice or used after it was freed.
THEOREM EngineFreesOnce == Spec => []AbstractQueue!FreedOnce
<1>1. AbstractQueue!Spec => []AbstractQueue!FreedOnce
  <2>1. AbstractQueue!Init <=> QueueProofs!Init
    BY DEF AbstractQueue!Init, QueueProofs!Init
  <2>2. [AbstractQueue!Next]_(AbstractQueue!vars) <=> [QueueProofs!Next]_(QueueProofs!vars)
    BY DEF AbstractQueue!Next, AbstractQueue!Submit, AbstractQueue!Finish, AbstractQueue!Cancel,
           AbstractQueue!GiveUp, AbstractQueue!vars, AbstractQueue!Fresh,
           QueueProofs!Next, QueueProofs!Submit, QueueProofs!Finish, QueueProofs!Cancel,
           QueueProofs!GiveUp, QueueProofs!vars, QueueProofs!Fresh
  <2>3. AbstractQueue!FreedOnce <=> QueueProofs!FreedOnce
    BY DEF AbstractQueue!FreedOnce, QueueProofs!FreedOnce
  <2> QED
    BY <2>1, <2>2, <2>3, QueueProofs!FreedOnceHolds, PTL DEF AbstractQueue!Spec, QueueProofs!Spec
<1> QED
  BY <1>1, EngineImplementsQueue, PTL DEF ImplementsAtQueue
-----------------------------------------------------------------------------
(* The record of an alive check is there while its command is queued: the  *)
(* invariant adds that it is unanswered, because only the timer of an      *)
(* answered check frees it without ending the daemon.                      *)

\* Every alive check among the commands of q has a record without an answer.
Awaited(q) ==
  \A c \in Members(q) : c.kind = "alive" => c.id \in DOMAIN alive /\ ~ alive[c.id]

AliveInv == running => Awaited(busy) /\ Awaited(pending)

\* Commands that are fresh have the kinds of the requests, or are wakeups.
LEMMA FillKinds ==
  ASSUME NEW n \in Nat \ {0}, NEW t \in BOOLEAN, NEW reqs \in Seq(Request),
         n + Len(Batch(t, reqs)) <= MaxId + 1,
         NEW c \in Members(atcmd_fill(n, Batch(t, reqs))), c.kind # "wakeup"
  PROVE  \E i \in 1 .. Len(reqs) : c.kind = reqs[i].kind
<1> DEFINE b == Batch(t, reqs)
<1>1. b \in Seq(Request)
  BY BatchType
<1>2. Len(atcmd_fill(n, b)) = Len(b)
  <2> HIDE DEF b
  <2> QED
    BY <1>1, FillType DEF b
<1>3. PICK i \in 1 .. Len(b) : c = atcmd_fill(n, b)[i]
  BY <1>2 DEF Members
<1>4. c.kind = b[i].kind
  BY <1>3 DEF atcmd_fill
<1>5. CASE b = reqs
  BY <1>3, <1>4, <1>5
<1>6. CASE b # reqs
  <2> DEFINE w == <<Fixed("wakeup")>>
  <2>1. b = w \o reqs
    BY <1>6 DEF Batch
  <2>2. w \in Seq(Request) /\ Len(w) = 1 /\ w[1].kind = "wakeup"
    BY FixedType DEF Fixed, Kinds
  <2> HIDE DEF w, b
  <2>3. /\ Len(b) = Len(w) + Len(reqs)
        /\ b[i] = IF i <= Len(w) THEN w[i] ELSE reqs[i - Len(w)]
    <3>1. /\ Len(w \o reqs) = Len(w) + Len(reqs)
          /\ \A j \in 1 .. Len(w) + Len(reqs) :
               (w \o reqs)[j] = IF j <= Len(w) THEN w[j] ELSE reqs[j - Len(w)]
      BY <2>2, ConcatProperties
    <3> QED
      BY <1>3, <2>1, <3>1
  <2>4. i # 1
    BY <1>4, <2>2, <2>3
  <2>5. Len(reqs) \in Nat /\ i - 1 \in 1 .. Len(reqs) /\ b[i] = reqs[i - 1]
    BY <1>3, <2>2, <2>3, <2>4
  <2> QED
    BY <1>4, <2>5
<1> QED
  BY <1>5, <1>6

\* No callback submits an alive check, or a wakeup of its own.
LEMMA FollowUpsKinds ==
  ASSUME NEW c \in Cmd, NEW info \in BOOLEAN
  PROVE  \A i \in 1 .. Len(FollowUps(c, info)) :
           FollowUps(c, info)[i].kind \notin {"wakeup", "alive"}
<1>1. ASSUME NEW ks \in Seq(Kinds \ {"wakeup", "alive"})
      PROVE  \A i \in 1 .. Len(FixedAll(ks)) : FixedAll(ks)[i].kind \notin {"wakeup", "alive"}
  <2>1. Len(FixedAll(ks)) = Len(ks) /\ \A i \in 1 .. Len(ks) : FixedAll(ks)[i] = Fixed(ks[i])
    BY DEF FixedAll
  <2>2. \A i \in 1 .. Len(ks) : ks[i] \notin {"wakeup", "alive"}
    OBVIOUS
  <2>3. \A k : Fixed(k).kind = k
    BY DEF Fixed
  <2>4. \A i \in 1 .. Len(ks) : FixedAll(ks)[i].kind = ks[i]
    BY <2>1, <2>3
  <2> QED
    BY <2>1, <2>2, <2>4
<1>2. Setup \in Seq(Kinds \ {"wakeup", "alive"})
  BY AtCmdAssumption
<1>3. /\ <<"cpmb", "plain">> \in Seq(Kinds \ {"wakeup", "alive"})
      /\ <<"plain">> \in Seq(Kinds \ {"wakeup", "alive"})
      /\ <<>> \in Seq(Kinds \ {"wakeup", "alive"})
  BY DEF Kinds
<1> QED
  BY <1>1, <1>2, <1>3 DEF FollowUps

\* A submission of other commands keeps the records awaited.
LEMMA SubmitAwaited ==
  ASSUME TypeOK, NEW reqs \in Seq(Request), atcmd_submit(reqs),
         \A i \in 1 .. Len(reqs) : reqs[i].kind # "alive",
         Awaited(pending), alive' = alive
  PROVE  Awaited(pending)'
<1> DEFINE b == Batch(wakeup_timer, reqs)
           f == atcmd_fill(next, b)
<1>1. pending' = pending \o f /\ next \in Nat \ {0} /\ next + Len(b) <= MaxId + 1
  BY DEF TypeOK, atcmd_submit, HasRoom
<1>2. b \in Seq(Request)
  BY BatchType DEF TypeOK
<1>3. ASSUME NEW c \in Members(f), c.kind = "alive" PROVE FALSE
  <2>1. wakeup_timer \in BOOLEAN /\ c.kind # "wakeup"
    BY <1>3 DEF TypeOK
  <2>2. \E i \in 1 .. Len(reqs) : c.kind = reqs[i].kind
    BY <1>1, <2>1, FillKinds
  <2> QED
    BY <1>3, <2>2
<1>4. f \in Seq(Unsent)
  <2> HIDE DEF b
  <2> QED
    BY <1>1, <1>2, FillType
<1> HIDE DEF f
<1>5. Members(pending') = Members(pending) \cup Members(f)
  BY <1>1, <1>4, MembersConcat DEF TypeOK
<1> QED
  BY <1>3, <1>5 DEF Awaited, Members

\* The commands behind the first one have other ids than it.
LEMMA BusyIdsDiffer ==
  ASSUME TypeOK, AbstractQueue!FreedOnce, busy # <<>>
  PROVE  /\ \A d \in Members(Tail(busy)) : d \in Members(busy) /\ d.id # Head(busy).id
         /\ \A d \in Members(pending) : d.id # Head(busy).id
<1> DEFINE q == busy \o pending
<1>1. /\ pending \in Seq(Cmd) /\ busy \in Seq(Cmd) /\ q \in Seq(Cmd)
  BY QueuesType
<1>2. \A i, j \in 1 .. Len(q) : q[i].id = q[j].id => i = j
  <2>1. \A i, j \in 1 .. Len(Queue) : Queue[i] = Queue[j] => i = j
    BY DEF AbstractQueue!FreedOnce, Queue, IdsOf
  <2> QED
    BY <1>1, <2>1, IdsType DEF Queue
<1>3. /\ Len(q) = Len(busy) + Len(pending)
      /\ \A i \in 1 .. Len(busy) + Len(pending) :
           q[i] = IF i <= Len(busy) THEN busy[i] ELSE pending[i - Len(busy)]
      /\ Len(busy) \in Nat /\ Len(busy) >= 1 /\ Len(pending) \in Nat
  BY <1>1, ConcatProperties, EmptySeq
<1>4. /\ Len(Tail(busy)) = Len(busy) - 1
      /\ \A i \in 1 .. Len(busy) - 1 : Tail(busy)[i] = busy[i + 1]
      /\ Head(busy) = busy[1]
  BY <1>1, HeadTailProperties
<1> HIDE DEF q
<1>5. q[1] = Head(busy) /\ 1 \in 1 .. Len(q)
  BY <1>3, <1>4
<1>6. ASSUME NEW d \in Members(Tail(busy))
      PROVE  d \in Members(busy) /\ d.id # Head(busy).id
  <2>1. PICK i \in 1 .. Len(busy) - 1 : d = Tail(busy)[i]
    BY <1>4 DEF Members
  <2>2. i + 1 \in 1 .. Len(busy) /\ d = busy[i + 1]
    BY <1>3, <1>4, <2>1
  <2>3. i + 1 \in 1 .. Len(q) /\ d = q[i + 1] /\ i + 1 # 1
    BY <1>3, <2>1, <2>2
  <2> QED
    BY <1>2, <1>5, <2>2, <2>3 DEF Members
<1>7. ASSUME NEW d \in Members(pending)
      PROVE  d.id # Head(busy).id
  <2>1. PICK i \in 1 .. Len(pending) : d = pending[i]
    BY DEF Members
  <2>2. /\ i + Len(busy) \in 1 .. Len(q) /\ ~ (i + Len(busy) <= Len(busy))
        /\ (i + Len(busy)) - Len(busy) = i /\ i + Len(busy) # 1
    BY <1>3, <2>1
  <2>3. d = q[i + Len(busy)]
    BY <1>3, <2>1, <2>2
  <2> QED
    BY <1>2, <1>5, <2>2, <2>3
<1> QED
  BY <1>6, <1>7

\* So does the end of a command, whose own record it may answer.
LEMMA DoneAwaited ==
  ASSUME TypeOK, AbstractQueue!FreedOnce, busy # <<>>,
         Awaited(busy), NEW p \in Seq(Unsent), Awaited(p),
         \A c \in Members(p) : c.kind = "alive" => c.id # Head(busy).id,
         NEW n \in 1 .. MaxId + 1, NEW ml, NEW res, atcmd_done(p, n, ml, res)
  PROVE  Awaited(busy)' /\ Awaited(pending)'
<1> DEFINE c    == Head(busy)
           t    == TimerAfter(c, wakeup_timer)
           reqs == FollowUps(c, ml # {})
           b    == Batch(t, reqs)
           f    == atcmd_fill(n, b)
<1>1. /\ pending' = p \o f /\ busy' = Tail(busy) /\ n \in Nat \ {0}
      /\ n + Len(b) <= MaxId + 1
  BY SMTT(30) DEF atcmd_done, HasRoom
<1>a. DOMAIN alive' = DOMAIN alive /\ \A i \in DOMAIN alive : i # c.id => alive'[i] = alive[i]
  <2>1. gsmd_alive_cb(c, ml # {}, res)
    BY DEF atcmd_done
  <2>2. \A i \in DOMAIN alive : alive[i] \in BOOLEAN
    BY DEF TypeOK
  <2> QED
    BY <2>1, <2>2 DEF gsmd_alive_cb
<1>2. c \in Cmd /\ t \in BOOLEAN
  BY DEF TypeOK, Sent, TimerAfter
<1>3. reqs \in Seq(Request) /\ b \in Seq(Request)
  BY <1>2, FollowUpsType, BatchType
<1>4. \A i \in 1 .. Len(reqs) : reqs[i].kind # "alive"
  BY <1>2, FollowUpsKinds
<1> HIDE DEF reqs, t
<1>5. ASSUME NEW d \in Members(f), d.kind = "alive" PROVE FALSE
  <2>1. d.kind # "wakeup"
    BY <1>5
  <2>2. \E i \in 1 .. Len(reqs) : d.kind = reqs[i].kind
    BY <1>1, <1>2, <1>3, <2>1, FillKinds
  <2> QED
    BY <1>4, <1>5, <2>2
<1>6. f \in Seq(Unsent)
  <2> HIDE DEF b
  <2> QED
    BY <1>1, <1>3, FillType
<1> HIDE DEF f, b
<1>7. Members(pending') = Members(p) \cup Members(f)
  BY <1>1, <1>6, MembersConcat
<1>8. \A d \in Members(Tail(busy)) : d \in Members(busy) /\ d.id # c.id
  BY BusyIdsDiffer
<1>9. \A d \in Members(Tail(busy)) :
         d.kind = "alive" => d.id \in DOMAIN alive' /\ ~ alive'[d.id]
  BY <1>8, <1>a DEF Awaited
<1>10. \A d \in Members(pending') :
         d.kind = "alive" => d.id \in DOMAIN alive' /\ ~ alive'[d.id]
  BY <1>5, <1>7, <1>a DEF Awaited
<1> QED
  BY <1>1, <1>9, <1>10 DEF Awaited, Members

\* The check that alive_interval_tmr_cb submits gets its record with it.
LEMMA IntervalAwaited ==
  ASSUME TypeOK, Awaited(busy), Awaited(pending), alive_interval_tmr_cb
  PROVE  Awaited(busy)' /\ Awaited(pending)'
<1> DEFINE reqs == <<Fixed("alive")>>
           b    == Batch(wakeup_timer, reqs)
           f    == atcmd_fill(next, b)
           n    == next' - 1
<1>1. /\ pending' = pending \o f /\ busy' = busy /\ next' = next + Len(b)
      /\ next \in Nat \ {0} /\ next + Len(b) <= MaxId + 1
      /\ alive' = [i \in DOMAIN alive \cup {n} |-> IF i = n THEN FALSE ELSE alive[i]]
  BY DEF TypeOK, atcmd_submit, HasRoom, alive_interval_tmr_cb
<1>2. reqs \in Seq(Request) /\ wakeup_timer \in BOOLEAN
  BY FixedType DEF TypeOK, Kinds
<1>3. b \in Seq(Request)
  BY <1>2, BatchType
<1> DEFINE w == <<Fixed("wakeup")>>
<1>4. b = reqs \/ b = w \o reqs
  BY DEF Batch
<1>5. \A i \in 1 .. Len(b) : b[i].kind = "alive" => i = Len(b)
  <2>1. w \in Seq(Request) /\ Len(w) = 1 /\ w[1].kind = "wakeup" /\ Len(reqs) = 1
    BY FixedType DEF Fixed, Kinds
  <2> HIDE DEF b, w, reqs
  <2>2. CASE b = reqs
    <3>1. Len(b) = 1
      BY <2>1, <2>2
    <3> QED
      BY <3>1
  <2>3. CASE b = w \o reqs
    <3>1. /\ Len(w \o reqs) = Len(w) + Len(reqs)
          /\ \A i \in 1 .. Len(w) + Len(reqs) :
               (w \o reqs)[i] = IF i <= Len(w) THEN w[i] ELSE reqs[i - Len(w)]
      BY <1>2, <2>1, ConcatProperties
    <3>2. Len(b) = 2 /\ b[1] = w[1]
      BY <2>1, <2>3, <3>1
    <3>3. b[1].kind # "alive"
      BY <2>1, <3>2
    <3> QED
      BY <3>2, <3>3
  <2> QED
    BY <1>4, <2>2, <2>3
<1>6. f \in Seq(Unsent) /\ Len(f) = Len(b) /\ Len(b) \in Nat
  <2> HIDE DEF b
  <2> QED
    BY <1>1, <1>3, FillType
<1>7. \A i \in 1 .. Len(b) : f[i].kind = b[i].kind /\ f[i].id = next + i - 1
  <2> HIDE DEF b
  <2> QED
    BY DEF atcmd_fill
<1>b. next + Len(b) - 1 = n
  BY <1>1, <1>6
<1> HIDE DEF f, b, reqs, n
<1>8. ASSUME NEW c \in Members(f), c.kind = "alive" PROVE c.id = n
  <2>1. PICK i \in 1 .. Len(b) : c = f[i]
    BY <1>6 DEF Members
  <2>2. i = Len(b)
    BY <1>5, <1>7, <1>8, <2>1
  <2> QED
    BY <1>b, <1>7, <2>1, <2>2
<1>9. Members(pending') = Members(pending) \cup Members(f)
  BY <1>1, <1>6, MembersConcat DEF TypeOK
<1>10. n \in DOMAIN alive' /\ ~ alive'[n]
       /\ \A i \in DOMAIN alive : i \in DOMAIN alive' /\ (~ alive[i] => ~ alive'[i])
  BY <1>1
<1>11. \A c \in Members(pending') :
         c.kind = "alive" => c.id \in DOMAIN alive' /\ ~ alive'[c.id]
  BY <1>8, <1>9, <1>10 DEF Awaited
<1>12. \A c \in Members(busy') :
         c.kind = "alive" => c.id \in DOMAIN alive' /\ ~ alive'[c.id]
  BY <1>1, <1>10 DEF Awaited
<1> QED
  BY <1>11, <1>12 DEF Awaited, Members

\* Moving a command, or writing a line of it, makes no other check of it.
LEMMA MoveAwaited ==
  ASSUME pending \in Seq(Cmd), busy \in Seq(Cmd), pending # <<>>,
         Awaited(busy), Awaited(pending), alive' = alive,
         NEW d \in Cmd, d.id = Head(pending).id, d.kind = Head(pending).kind,
         \/ pending' = Tail(pending) /\ busy' = Append(busy, d)
         \/ pending' = <<d>> \o Tail(pending) /\ busy' = busy
  PROVE  Awaited(busy)' /\ Awaited(pending)'
<1> DEFINE e == <<d>>
           r == Tail(pending)
<1>1. /\ r \in Seq(Cmd) /\ e \in Seq(Cmd) /\ Append(busy, d) = busy \o e
      /\ Members(e) = {d}
  BY AppendIsConcat, MembersOne
<1>2. Members(pending) = {Head(pending)} \cup Members(r)
  BY MembersHeadTail
<1>3. \/ pending' = r /\ busy' = busy \o e
      \/ pending' = e \o r /\ busy' = busy
  BY <1>1
<1> HIDE DEF e, r
<1>4. Members(busy \o e) = Members(busy) \cup {d} /\ Members(e \o r) = {d} \cup Members(r)
  BY <1>1, MembersConcat
<1>5. Members(pending') \cup Members(busy') = {d} \cup Members(r) \cup Members(busy)
  BY <1>3, <1>4
<1>6. \A c \in Members(r) \cup Members(busy) \cup {Head(pending)} :
        c.kind = "alive" => c.id \in DOMAIN alive /\ ~ alive[c.id]
  BY <1>2 DEF Awaited
<1>7. \A c \in Members(pending') \cup Members(busy') :
        c.kind = "alive" => c.id \in DOMAIN alive' /\ ~ alive'[c.id]
  BY <1>5, <1>6
<1> QED
  BY <1>7 DEF Awaited, Members

\* Every handler keeps the checks awaited as long as the daemon runs.
LEMMA StepAlive ==
  TypeOK /\ AbstractQueue!FreedOnce /\ AliveInv /\ [Next]_vars => AliveInv'
<1> SUFFICES ASSUME TypeOK, AbstractQueue!FreedOnce, AliveInv, [Next]_vars, running'
             PROVE  Awaited(busy)' /\ Awaited(pending)'
  BY DEF AliveInv
<1> USE DEF history
<1>r. running /\ Awaited(busy) /\ Awaited(pending)
  <2>1. running' => running
    BY DEF Next, ClientSubmit, cancel_idle, cancel_atcmd, WriteNothing, WriteZero, WriteLine,
           WriteShort, WriteReady, RecvReady, RecvInfo, RecvText, RecvRegistered, atcmd_prompt,
           RecvFinal, wakeup_timeout, alive_interval_tmr_cb, alive_tmr_cb, vars
  <2> QED
    BY <2>1 DEF AliveInv
<1>a. ASSUME UNCHANGED <<pending, busy, alive>>
      PROVE  Awaited(busy)' /\ Awaited(pending)'
  BY <1>a, <1>r DEF Awaited, Members
<1>b. ASSUME NEW reqs \in Seq(Request), atcmd_submit(reqs),
             \A i \in 1 .. Len(reqs) : reqs[i].kind # "alive", UNCHANGED <<busy, alive>>
      PROVE  Awaited(busy)' /\ Awaited(pending)'
  <2>1. Awaited(pending)'
    BY <1>b, <1>r, SubmitAwaited
  <2> QED
    BY <1>b, <1>r, <2>1 DEF Awaited, Members
<1>1. ASSUME NEW k \in {"plain", "silent"}, NEW text \in Texts, ClientSubmit(k, text)
      PROVE  Awaited(busy)' /\ Awaited(pending)'
  <2> DEFINE reqs == <<[kind |-> k, text |-> text]>>
  <2>1. reqs \in Seq(Request) /\ \A i \in 1 .. Len(reqs) : reqs[i].kind # "alive"
    BY AtCmdAssumption DEF Request, Kinds
  <2>2. atcmd_submit(reqs) /\ UNCHANGED <<busy, alive>>
    BY <1>1 DEF ClientSubmit
  <2> HIDE DEF reqs
  <2> QED
    BY <1>b, <2>1, <2>2
<1>2. ASSUME NEW k \in Kinds, k # "alive", atcmd_submit(<<Fixed(k)>>), UNCHANGED <<busy, alive>>
      PROVE  Awaited(busy)' /\ Awaited(pending)'
  <2> DEFINE reqs == <<Fixed(k)>>
  <2>1. reqs \in Seq(Request) /\ \A i \in 1 .. Len(reqs) : reqs[i].kind # "alive"
    BY <1>2, FixedType DEF Fixed
  <2>2. atcmd_submit(reqs)
    BY <1>2
  <2> HIDE DEF reqs
  <2> QED
    BY <1>2, <1>b, <2>1, <2>2
<1>3. CASE cancel_idle
  BY <1>2, <1>3 DEF cancel_idle, Kinds
<1>4. CASE cancel_atcmd
  <2> DEFINE reqs == <<Fixed("hangup")>>
             h == atcmd_fill(next, reqs)
             p == h \o pending
  <2>1. reqs \in Seq(Request) /\ Len(reqs) = 1 /\ reqs[1].kind = "hangup"
    BY FixedType DEF Kinds, Fixed
  <2>2. next \in Nat \ {0} /\ next + 1 <= MaxId + 1 /\ next + 1 \in 1 .. MaxId + 1
    BY <1>4, AtCmdAssumption DEF TypeOK, cancel_atcmd
  <2> HIDE DEF reqs
  <2>3. h \in Seq(Unsent) /\ Len(h) = 1
    BY <2>1, <2>2, FillType
  <2>4. h[1].kind = "hangup"
    BY <2>1 DEF atcmd_fill
  <2>5. busy # <<>> /\ atcmd_done(p, next + 1, {}, "OK")
    BY <1>4 DEF cancel_atcmd, reqs
  <2> HIDE DEF h
  <2>6. p \in Seq(Unsent) /\ Members(p) = Members(h) \cup Members(pending)
    BY <2>3, MembersConcat, ConcatProperties DEF TypeOK
  <2>7. \A c \in Members(h) : c.kind # "alive"
    BY <2>3, <2>4 DEF Members
  <2>8. Awaited(p) /\ \A c \in Members(p) : c.kind = "alive" => c.id # Head(busy).id
    BY <1>r, <2>5, <2>6, <2>7, BusyIdsDiffer DEF Awaited
  <2> HIDE DEF p
  <2> QED
    BY <1>r, <2>2, <2>5, <2>6, <2>8, DoneAwaited
<1>5. CASE WriteNothing
  BY <1>a, <1>5 DEF WriteNothing
<1>6. CASE WriteZero
  BY <1>a, <1>6 DEF WriteZero
<1>7. CASE WriteLine
  <2> DEFINE c == Head(pending)
             d == [c EXCEPT !.rest = Tail(@), !.started = TRUE]
  <2>1. c \in Cmd /\ pending \in Seq(Cmd) /\ busy \in Seq(Cmd) /\ pending # <<>>
    BY <1>7, QueuesType DEF WriteLine
  <2>2. d \in Cmd /\ d.id = c.id /\ d.kind = c.kind
    <3>1. c.rest # <<>> /\ c.rest \in Seq(Nat)
      BY <1>7 DEF WriteLine, TypeOK, Unsent, Cmd
    <3>2. Tail(c.rest) \in Seq(Nat)
      BY <3>1
    <3> QED
      BY <2>1, <3>2 DEF Cmd
  <2>3. /\ \/ pending' = Tail(pending) /\ busy' = Append(busy, d)
           \/ pending' = <<d>> \o Tail(pending) /\ busy' = busy
        /\ alive' = alive
    BY <1>7 DEF WriteLine, PutBack, Executing
  <2> HIDE DEF d
  <2> QED
    BY <1>r, <2>1, <2>2, <2>3, MoveAwaited
<1>8. ASSUME NEW rc \in 1 .. 3, WriteShort(rc)
      PROVE  Awaited(busy)' /\ Awaited(pending)'
  <2> DEFINE c == Head(pending)
             s == Skipped(rc, c)
             d == [c EXCEPT !.rest[1] = @ - s, !.started = TRUE]
  <2>1. c \in Cmd /\ pending \in Seq(Cmd) /\ busy \in Seq(Cmd) /\ pending # <<>>
    BY <1>8, QueuesType DEF WriteShort
  <2>2. c.rest # <<>> /\ c.rest \in Seq(Nat)
    BY <1>8 DEF WriteShort, TypeOK, Unsent, Cmd
  <2>3. s \in Nat /\ s <= c.rest[1] /\ c.rest[1] \in Nat
    BY <1>8, <2>2 DEF WriteShort, Skipped
  <2>4. [c.rest EXCEPT ![1] = @ - s] \in Seq(Nat)
    BY <2>2, <2>3
  <2>5. d \in Cmd /\ d.id = c.id /\ d.kind = c.kind
    BY <2>1, <2>4 DEF Cmd
  <2>6. pending' = <<d>> \o Tail(pending) /\ busy' = busy /\ alive' = alive
    BY <1>8 DEF WriteShort, PutBack
  <2> HIDE DEF d
  <2> QED
    BY <1>r, <2>1, <2>5, <2>6, MoveAwaited
<1>9. CASE RecvReady
  BY <1>2, <1>9 DEF RecvReady, Kinds
<1>10. CASE RecvInfo
  <2> DEFINE reqs == FollowUps(Head(busy), TRUE)
  <2>1. Head(busy) \in Cmd
    BY <1>10 DEF RecvInfo, TypeOK, Sent
  <2>2. reqs \in Seq(Request) /\ \A i \in 1 .. Len(reqs) : reqs[i].kind # "alive"
    BY <2>1, FollowUpsType, FollowUpsKinds
  <2>3. UNCHANGED <<busy, alive>> /\ (atcmd_submit(reqs) \/ UNCHANGED pending)
    BY <1>10 DEF RecvInfo
  <2> HIDE DEF reqs
  <2> QED
    BY <1>a, <1>b, <2>2, <2>3
<1>11. CASE RecvText
  BY <1>a, <1>11 DEF RecvText
<1>12. CASE RecvRegistered
  <2> DEFINE ks == <<"plain", "plain">>
             reqs == FixedAll(ks)
  <2>1. ks \in Seq(Kinds) /\ \A i \in 1 .. Len(ks) : ks[i] # "alive"
    BY DEF Kinds
  <2>2. atcmd_submit(reqs) /\ UNCHANGED <<busy, alive>>
    BY <1>12 DEF RecvRegistered
  <2> HIDE DEF ks
  <2>3. reqs \in Seq(Request) /\ Len(reqs) = Len(ks)
    BY <2>1, FixedAllType
  <2>4. \A i \in 1 .. Len(ks) : reqs[i].kind # "alive"
    BY <2>1 DEF FixedAll, Fixed
  <2> HIDE DEF reqs
  <2> QED
    BY <1>b, <2>2, <2>3, <2>4
<1>13. CASE atcmd_prompt
  BY <1>a, <1>13 DEF atcmd_prompt
<1>14. ASSUME NEW res \in {"OK", "ERROR", "CME", "BUSY"}, RecvFinal(res)
       PROVE  Awaited(busy)' /\ Awaited(pending)'
  <2>1. busy # <<>> /\ atcmd_done(pending, next, mlbuf, res)
    BY <1>14 DEF RecvFinal
  <2>2. pending \in Seq(Unsent) /\ next \in 1 .. MaxId + 1
    BY DEF TypeOK
  <2>3. \A c \in Members(pending) : c.kind = "alive" => c.id # Head(busy).id
    BY <2>1, BusyIdsDiffer
  <2> QED
    BY <1>r, <2>1, <2>2, <2>3, DoneAwaited
<1>15. CASE wakeup_timeout
  <2>1. pending' = pending /\ alive' = alive
        /\ (busy' = busy \/ (busy # <<>> /\ busy' = Tail(busy)))
    BY <1>15 DEF wakeup_timeout, Discarded
  <2>2. busy # <<>> => Members(Tail(busy)) \subseteq Members(busy)
    BY MembersHeadTail DEF TypeOK
  <2>3. Members(busy') \subseteq Members(busy)
    BY <2>1, <2>2
  <2> QED
    BY <1>r, <2>1, <2>3 DEF Awaited, Members
<1>16. CASE alive_interval_tmr_cb
  BY <1>16, <1>r, IntervalAwaited
<1>17. ASSUME NEW i \in Ids, alive_tmr_cb(i)
       PROVE  Awaited(busy)' /\ Awaited(pending)'
  <2>1. /\ i \in DOMAIN alive /\ alive[i] /\ UNCHANGED <<pending, busy>>
        /\ alive' = [j \in DOMAIN alive \ {i} |-> alive[j]]
    BY <1>17 DEF alive_tmr_cb, SurvivesTimeout
  <2>2. \A j \in DOMAIN alive : ~ alive[j] => j \in DOMAIN alive' /\ ~ alive'[j]
    BY <2>1
  <2> QED
    BY <1>r, <2>1, <2>2 DEF Awaited, Members
<1>18. CASE UNCHANGED vars
  BY <1>a, <1>18 DEF vars
<1> QED
  BY <1>1, <1>3, <1>4, <1>5, <1>6, <1>7, <1>8, <1>9, <1>10, <1>11, <1>12,
     <1>13, <1>14, <1>15, <1>16, <1>17, <1>18 DEF Next

\* At the start no check has been made.
LEMMA InitAlive == Init => AliveInv
<1> SUFFICES ASSUME Init PROVE Awaited(busy) /\ Awaited(pending)
  BY DEF AliveInv
<1>1. Members(<<>>) = {}
  BY DEF Members
<1>2. CASE pending = <<>>
  BY <1>1, <1>2 DEF Init, Awaited
<1>3. CASE pending = atcmd_fill(1, Batch(FALSE, <<Fixed("atz")>>))
  <2> DEFINE reqs == <<Fixed("atz")>>
  <2>1. /\ reqs \in Seq(Request)
        /\ \A i \in 1 .. Len(reqs) : reqs[i].kind = "atz"
    BY FixedType DEF Kinds, Fixed
  <2>2. 1 \in Nat \ {0} /\ 1 + Len(Batch(FALSE, reqs)) <= MaxId + 1
    <3>1. Len(Batch(FALSE, reqs)) = 2
      BY DEF Batch
    <3>2. 1 \in Nat \ {0} /\ 1 + 2 <= MaxId + 1
      BY AtCmdAssumption
    <3> DEFINE l == Len(Batch(FALSE, reqs))
    <3>3. l = 2
      BY <3>1
    <3> HIDE DEF l
    <3>4. 1 + l <= MaxId + 1
      BY <3>2, <3>3
    <3> QED
      BY <3>2, <3>4 DEF l
  <2>3. pending = atcmd_fill(1, Batch(FALSE, reqs))
    BY <1>3
  <2> HIDE DEF reqs
  <2>4. ASSUME NEW c \in Members(pending), c.kind = "alive" PROVE FALSE
    <3>1. c.kind # "wakeup"
      BY <2>4
    <3>2. \E i \in 1 .. Len(reqs) : c.kind = reqs[i].kind
      BY <2>1, <2>2, <2>3, <3>1, FillKinds
    <3> QED
      BY <2>1, <2>4, <3>2
  <2> QED
    BY <1>1, <2>4 DEF Init, Awaited
<1> QED
  BY <1>2, <1>3 DEF Init

\* The callback of an alive check always finds its record: the timer that frees
\* the record finds it answered only after the command has left the queues.
THEOREM AliveRecordHolds == Spec => []AliveRecordHeld
<1>1. TypeOK /\ AliveInv => AliveRecordHeld
  <2> SUFFICES ASSUME TypeOK, AliveInv, running,
                      NEW i \in 1 .. Len(busy \o pending), (busy \o pending)[i].kind = "alive"
               PROVE  (busy \o pending)[i].id \in DOMAIN alive
    BY DEF AliveRecordHeld
  <2>1. Members(busy \o pending) = Members(busy) \cup Members(pending)
    BY QueuesType, MembersConcat
  <2>2. (busy \o pending)[i] \in Members(busy \o pending)
    BY DEF Members
  <2> QED
    BY <2>1, <2>2 DEF AliveInv, Awaited
<1> QED
  BY <1>1, TypeCorrect, EngineFreesOnce, InitAlive, StepAlive, PTL DEF Spec
-----------------------------------------------------------------------------
(***************************************************************************)
(* The session with a modem.                                               *)
(***************************************************************************)
\* What a queue of commands not yet sent looks like: a wakeup has one line and
\* another command follows it, and only the first command may be half sent.
Shaped(p) ==
  /\ p # <<>> => p[Len(p)].kind # "wakeup"
  /\ \A i \in 1 .. Len(p) : p[i].kind = "wakeup" => Len(p[i].rest) = 1
  /\ \A i \in 2 .. Len(p) : ~ p[i].started

\* While the UART is polled there is something to write, and it is a wakeup
\* unless nothing executes.
WriteRight == when => pending # <<>> /\ (busy = <<>> \/ Head(pending).kind = "wakeup")

\* While a wakeup executes another command waits behind it and the UART is not polled.
WakeupFollowed == HasWakeup(busy) => pending # <<>> /\ ~ when

\* A half-sent command is alone: nothing executes, and it is polled for only
\* after a prompt.
HalfSent ==
  pending # <<>> /\ Head(pending).started =>
    busy = <<>> /\ (when => Head(pending).id \in prompted)

\* A line the modem will ask the next one after is the last it was sent, and
\* of the half-sent command.
OpenLine ==
  \A i \in 1 .. Len(lines) : ~ lines[i].last =>
    /\ i = Len(lines) /\ ~ when
    /\ pending # <<>> /\ Head(pending).started /\ lines[i].id = Head(pending).id

\* Before the modem is ready nothing was sent to it.
Silent ==
  ~ ready => busy = <<>> /\ lines = <<>> /\ (pending # <<>> => ~ Head(pending).started)

\* Until a wakeup is given up the modem has exactly what executes to answer, in
\* this order, or else an open line.
Matched ==
  dropped = {} =>
    \/ Len(lines) = Len(busy) /\ \A i \in 1 .. Len(lines) : lines[i].last /\ lines[i].id = busy[i].id
    \/ busy = <<>> /\ Len(lines) = 1 /\ ~ lines[1].last

SessionInv ==
  /\ lines \in Seq(Line)
  /\ Shaped(pending) /\ WriteRight /\ WakeupFollowed /\ HalfSent /\ OpenLine /\ Silent
  /\ OneExecuting /\ Matched
-----------------------------------------------------------------------------
\* What the modem takes part in are steps of the engine.
LEMMA SessionStep == [SNext]_svars => [Next]_vars
<1> SUFFICES ASSUME SNext PROVE Next \/ UNCHANGED vars
  BY DEF svars
<1>1. ASSUME Client PROVE Next
  BY <1>1 DEF Client, Next
<1>2. ASSUME Answer PROVE Next \/ UNCHANGED vars
  BY <1>2 DEF Answer, Next
<1> QED
  BY <1>1, <1>2 DEF SNext, WakeupLate, Write, Prompt, Inform, Ready, Next

\* A session is a behaviour of the engine, so that what is proved of the engine
\* in every environment holds with this modem.
THEOREM SessionImplementsEngine == SSpec => Spec
<1>1. SInit => Init
  BY DEF SInit
<1> QED
  BY <1>1, SessionStep, PTL DEF SSpec, Spec
-----------------------------------------------------------------------------
(* What a submission puts behind the queue.                                *)

\* A shaped queue stays shaped when unsent commands are put behind it.
LEMMA ShapedConcat ==
  ASSUME NEW p \in Seq(Unsent), NEW q \in Seq(Unsent), Shaped(p), Shaped(q),
         \A i \in 1 .. Len(q) : ~ q[i].started, q # <<>>
  PROVE  Shaped(p \o q)
<1>1. /\ p \o q \in Seq(Unsent) /\ Len(p \o q) = Len(p) + Len(q)
      /\ \A i \in 1 .. Len(p) + Len(q) :
           (p \o q)[i] = IF i <= Len(p) THEN p[i] ELSE q[i - Len(p)]
  BY ConcatProperties
<1>2. Len(p) \in Nat /\ Len(q) \in Nat /\ Len(q) # 0
  BY EmptySeq
<1>3. \A i \in 1 .. Len(p) + Len(q) : ~ (i <= Len(p)) => i - Len(p) \in 1 .. Len(q)
  BY <1>2
<1>4. (p \o q)[Len(p) + Len(q)] = q[Len(q)]
  <2>1. Len(p) + Len(q) \in 1 .. Len(p) + Len(q) /\ ~ (Len(p) + Len(q) <= Len(p))
        /\ Len(p) + Len(q) - Len(p) = Len(q)
    BY <1>2
  <2> QED
    BY <1>1, <2>1
<1>5. (p \o q)[Len(p \o q)].kind # "wakeup"
  BY <1>1, <1>4 DEF Shaped
<1>6. ASSUME NEW i \in 1 .. Len(p \o q)
      PROVE  /\ (p \o q)[i].kind = "wakeup" => Len((p \o q)[i].rest) = 1
             /\ i >= 2 => ~ (p \o q)[i].started
  <2>1. CASE i <= Len(p)
    <3>1. i \in 1 .. Len(p) /\ (i >= 2 => i \in 2 .. Len(p)) /\ (p \o q)[i] = p[i]
      BY <1>1, <1>2, <2>1
    <3> QED
      BY <3>1 DEF Shaped
  <2>2. CASE ~ (i <= Len(p))
    <3>1. i - Len(p) \in 1 .. Len(q) /\ (p \o q)[i] = q[i - Len(p)]
      BY <1>1, <1>3, <2>2
    <3> QED
      BY <3>1 DEF Shaped
  <2> QED
    BY <2>1, <2>2
<1>7. \A i \in 2 .. Len(p \o q) : i \in 1 .. Len(p \o q) /\ i >= 2
  BY <1>1, <1>2
<1> QED
  BY <1>5, <1>6, <1>7 DEF Shaped

\* What a queue is after unsent commands were put behind it: its first command
\* is the one it was, or a fresh one.
LEMMA HeadKept ==
  ASSUME NEW p \in Seq(Unsent), NEW q \in Seq(Unsent), q # <<>>
  PROVE  /\ p \o q # <<>>
         /\ p # <<>> => Head(p \o q) = Head(p)
         /\ p = <<>> => Head(p \o q) = q[1]
<1>1. p # <<>> => p \o q # <<>> /\ Head(p \o q) = Head(p)
  BY HeadTailConcat
<1>2. p = <<>> => p \o q = q /\ Head(q) = q[1]
  BY ConcatEmptySeq
<1> QED
  BY <1>1, <1>2

\* The commands that a submission makes: none is started, a wakeup comes first
\* if the timer is off, and one of the requests last.
LEMMA FillShaped ==
  ASSUME NEW n \in Nat \ {0}, NEW t \in BOOLEAN, NEW reqs \in Seq(Request), reqs # <<>>,
         \A i \in 1 .. Len(reqs) : reqs[i].kind # "wakeup",
         n + Len(Batch(t, reqs)) <= MaxId + 1,
         NEW q, q = atcmd_fill(n, Batch(t, reqs))
  PROVE  /\ q \in Seq(Unsent) /\ q # <<>>
         /\ \A i \in 1 .. Len(q) : ~ q[i].started
         /\ Shaped(q)
         /\ ~ t => q[1].kind = "wakeup"
<1> DEFINE b == Batch(t, reqs)
           w == <<Fixed("wakeup")>>
<1>1. b \in Seq(Request)
  BY BatchType
<1>2. w \in Seq(Request) /\ Len(w) = 1 /\ w[1] = Fixed("wakeup")
  BY FixedType DEF Kinds
<1>3. b = IF t THEN reqs ELSE w \o reqs
  BY DEF Batch
<1>4. Len(reqs) \in Nat /\ Len(reqs) # 0
  BY EmptySeq
<1> HIDE DEF b, w
<1>5. q \in Seq(Unsent) /\ Len(q) = Len(b)
  BY <1>1, FillType DEF b
<1>6. \A i \in 1 .. Len(b) :
        q[i].kind = b[i].kind /\ q[i].rest = b[i].text /\ ~ q[i].started
  BY DEF atcmd_fill, b
<1>7. CASE t
  <2>1. b = reqs /\ Len(q) = Len(reqs) /\ q # <<>>
    BY <1>3, <1>4, <1>5, <1>7
  <2>2. \A i \in 1 .. Len(q) : q[i].kind # "wakeup" /\ ~ q[i].started
    BY <1>6, <2>1
  <2>3. Len(q) \in 1 .. Len(q) /\ \A i \in 2 .. Len(q) : i \in 1 .. Len(q)
    BY <1>4, <2>1
  <2>4. Shaped(q)
    BY <2>2, <2>3 DEF Shaped
  <2> QED
    BY <1>5, <1>7, <2>1, <2>2, <2>4
<1>8. CASE ~ t
  <2>1. /\ Len(b) = 1 + Len(reqs)
        /\ \A i \in 1 .. 1 + Len(reqs) : b[i] = IF i <= 1 THEN w[i] ELSE reqs[i - 1]
    <3>1. /\ Len(w \o reqs) = Len(w) + Len(reqs)
          /\ \A i \in 1 .. Len(w) + Len(reqs) :
               (w \o reqs)[i] = IF i <= Len(w) THEN w[i] ELSE reqs[i - Len(w)]
      BY <1>2, ConcatProperties
    <3> QED
      BY <1>2, <1>3, <1>8, <3>1
  <2>2. b[1].kind = "wakeup" /\ Len(b[1].text) = 1
    <3>1. b[1] = Fixed("wakeup")
      BY <1>2, <1>4, <2>1
    <3>2. Text("wakeup") = <<1>>
      BY Zenon DEF Text
    <3> QED
      BY <3>1, <3>2 DEF Fixed
  <2>3. \A i \in 2 .. Len(b) : b[i].kind # "wakeup"
    <3>1. \A i \in 2 .. Len(b) : i \in 1 .. 1 + Len(reqs) /\ ~ (i <= 1) /\ i - 1 \in 1 .. Len(reqs)
      BY <1>4, <2>1
    <3> QED
      BY <2>1, <3>1
  <2>4. Len(b) \in 2 .. Len(b) /\ 1 \in 1 .. Len(b)
    BY <1>4, <2>1
  <2>5. \A i \in 1 .. Len(b) : i = 1 \/ i \in 2 .. Len(b)
    BY <1>4, <2>1
  <2>6. \A i \in 1 .. Len(q) : q[i].kind = "wakeup" => Len(q[i].rest) = 1
    BY <1>5, <1>6, <2>2, <2>3, <2>5
  <2>7. q[Len(q)].kind # "wakeup" /\ q[1].kind = "wakeup" /\ q # <<>>
    BY <1>5, <1>6, <2>2, <2>3, <2>4
  <2>8. \A i \in 2 .. Len(q) : ~ q[i].started
    BY <1>4, <1>5, <1>6, <2>1
  <2> QED
    BY <1>5, <1>6, <2>6, <2>7, <2>8 DEF Shaped
<1> QED
  BY <1>7, <1>8
-----------------------------------------------------------------------------
(* Submissions: from clients, alive checks, callbacks.                     *)

\* A submission to the empty queue sets the flag with a wakeup in front, because
\* then no wakeup executes and the timer is off; any other one leaves the first
\* command and the flag as they are.
LEMMA SubmitSession ==
  ASSUME TypeOK, TimerHasWakeup, SessionInv, NEW reqs \in Seq(Request), reqs # <<>>,
         \A i \in 1 .. Len(reqs) : reqs[i].kind # "wakeup", atcmd_submit(reqs), busy' = busy
  PROVE  /\ Shaped(pending') /\ WriteRight' /\ WakeupFollowed'
         /\ pending' # <<>>
         /\ pending # <<>> => Head(pending') = Head(pending) /\ when' = when
         /\ pending = <<>> => ~ Head(pending').started
<1> DEFINE q == atcmd_fill(next, Batch(wakeup_timer, reqs))
<1>1. /\ pending' = pending \o q /\ when' = (when \/ pending = <<>>)
      /\ pending \in Seq(Unsent) /\ when \in BOOLEAN
  BY DEF atcmd_submit, TypeOK
<1>2. /\ q \in Seq(Unsent) /\ q # <<>> /\ Shaped(q)
      /\ \A i \in 1 .. Len(q) : ~ q[i].started
      /\ ~ wakeup_timer => q[1].kind = "wakeup"
  <2>1. next \in Nat \ {0} /\ wakeup_timer \in BOOLEAN
        /\ next + Len(Batch(wakeup_timer, reqs)) <= MaxId + 1
    BY DEF TypeOK, atcmd_submit, HasRoom
  <2> QED
    BY <2>1, FillShaped
<1> HIDE DEF q
<1>3. Shaped(pending')
  BY <1>1, <1>2, ShapedConcat DEF SessionInv
<1>4. /\ pending' # <<>>
      /\ pending # <<>> => Head(pending') = Head(pending)
      /\ pending = <<>> => Head(pending') = q[1]
  BY <1>1, <1>2, HeadKept
<1>5. pending = <<>> => ~ Head(pending').started
  <2>1. 1 \in 1 .. Len(q)
    BY <1>2
  <2> QED
    BY <1>2, <1>4, <2>1
<1>6. pending = <<>> => ~ HasWakeup(busy) /\ ~ wakeup_timer
  BY HasEmpty DEF SessionInv, WakeupFollowed, TimerHasWakeup
<1>7. WriteRight'
  BY <1>1, <1>2, <1>4, <1>6 DEF SessionInv, WriteRight
<1>8. WakeupFollowed'
  BY <1>1, <1>4, <1>6 DEF SessionInv, WakeupFollowed, HasWakeup
<1> QED
  BY <1>1, <1>3, <1>4, <1>5, <1>7, <1>8

\* Such a step disturbs nothing that was sent.
LEMMA SentKept ==
  ASSUME SessionInv, UNCHANGED <<busy, dropped, ready, lines, prompted>>,
         pending' # <<>>,
         pending # <<>> => Head(pending') = Head(pending) /\ when' = when,
         pending = <<>> => ~ Head(pending').started
  PROVE  /\ lines' \in Seq(Line)
         /\ HalfSent' /\ OpenLine' /\ Silent' /\ OneExecuting' /\ Matched'
<1>1. HalfSent'
  BY DEF SessionInv, HalfSent
<1>2. OpenLine'
  BY DEF SessionInv, OpenLine
<1>3. lines' \in Seq(Line) /\ Silent' /\ OneExecuting' /\ Matched'
  BY DEF SessionInv, Silent, OneExecuting, Matched
<1> QED
  BY <1>1, <1>2, <1>3

\* So a submission without an answer keeps the invariant.
LEMMA SubmitKeeps ==
  ASSUME TypeOK, TimerHasWakeup, SessionInv, NEW reqs \in Seq(Request), reqs # <<>>,
         \A i \in 1 .. Len(reqs) : reqs[i].kind # "wakeup", atcmd_submit(reqs),
         UNCHANGED <<busy, dropped, ready, lines, prompted>>
  PROVE  SessionInv'
<1>1. /\ Shaped(pending') /\ WriteRight' /\ WakeupFollowed'
      /\ pending' # <<>>
      /\ pending # <<>> => Head(pending') = Head(pending) /\ when' = when
      /\ pending = <<>> => ~ Head(pending').started
  BY SubmitSession
<1>2. /\ lines' \in Seq(Line)
      /\ HalfSent' /\ OpenLine' /\ Silent' /\ OneExecuting' /\ Matched'
  BY <1>1, SentKept
<1> QED
  BY <1>1, <1>2 DEF SessionInv

\* The requests that clients, the alive check and the start of the modem submit.
LEMMA OneRequest ==
  /\ \A k \in {"plain", "silent"}, text \in Texts :
       LET reqs == <<[kind |-> k, text |-> text]>>
       IN  reqs \in Seq(Request) /\ reqs # <<>> /\ \A i \in 1 .. Len(reqs) : reqs[i].kind # "wakeup"
  /\ \A k \in {"alive", "atz"} :
       LET reqs == <<Fixed(k)>>
       IN  reqs \in Seq(Request) /\ reqs # <<>> /\ \A i \in 1 .. Len(reqs) : reqs[i].kind # "wakeup"
<1>1. ASSUME NEW k \in {"plain", "silent"}, NEW text \in Texts
      PROVE  [kind |-> k, text |-> text] \in Request
  BY AtCmdAssumption DEF Request, Kinds
<1>2. ASSUME NEW k \in {"alive", "atz"}
      PROVE  Fixed(k) \in Request /\ Fixed(k).kind = k
  BY FixedType DEF Fixed, Kinds
<1> QED
  BY <1>1, <1>2
-----------------------------------------------------------------------------
(* The end of a command.                                                   *)

\* What holds of the commands that execute, told by the first and the rest.
LEMMA ExecutingTail ==
  ASSUME busy \in Seq(Cmd), busy # <<>>, OneExecuting, busy' = Tail(busy)
  PROVE  /\ OneExecuting'
         /\ HasWakeup(busy') => HasWakeup(busy)
         /\ ~ HasWakeup(busy) => busy' = <<>>
<1>1. /\ Tail(busy) \in Seq(Cmd) /\ Len(Tail(busy)) = Len(busy) - 1 /\ Len(busy) \in Nat
      /\ \A i \in 1 .. Len(busy) - 1 : Tail(busy)[i] = busy[i + 1]
  BY HeadTailProperties
<1>2. \A i \in 1 .. Len(busy') : i + 1 \in 1 .. Len(busy) /\ busy'[i] = busy[i + 1]
  BY <1>1
<1>3. OneExecuting'
  <2> SUFFICES ASSUME NEW i \in 1 .. Len(busy'), NEW j \in 1 .. Len(busy'),
                      busy'[i].kind # "wakeup", busy'[j].kind # "wakeup"
               PROVE  i = j
    BY DEF OneExecuting
  <2>1. i + 1 = j + 1
    BY <1>2 DEF OneExecuting
  <2> QED
    BY <1>1, <2>1
<1>4. HasWakeup(busy') => HasWakeup(busy)
  BY HasHeadTail
<1>5. ASSUME ~ HasWakeup(busy), busy' # <<>> PROVE FALSE
  <2>1. 1 \in 1 .. Len(busy) /\ 2 \in 1 .. Len(busy)
    BY <1>1, <1>5, EmptySeq
  <2>2. busy[1].kind # "wakeup" /\ busy[2].kind # "wakeup"
    BY <1>5, <2>1 DEF HasWakeup
  <2> QED
    BY <2>1, <2>2 DEF OneExecuting
<1> QED
  BY <1>3, <1>4, <1>5

\* While a command executes no line is open and the first pending command is
\* not started.
LEMMA NothingOpen ==
  ASSUME SessionInv, busy # <<>>
  PROVE  /\ \A i \in 1 .. Len(lines) : lines[i].last
         /\ pending # <<>> => ~ Head(pending).started
BY DEF SessionInv, HalfSent, OpenLine

\* A final result that comes for an executing command: the flag is set only if
\* that was the last one, or if it was before, when a wakeup is next.
LEMMA DoneSession ==
  ASSUME TypeOK, TimerHasWakeup, SessionInv, busy # <<>>, NEW res,
         atcmd_done(pending, next, mlbuf, res)
  PROVE  /\ Shaped(pending') /\ WriteRight' /\ WakeupFollowed' /\ OneExecuting'
         /\ pending' # <<>> => ~ Head(pending').started
<1> DEFINE c    == Head(busy)
           t    == TimerAfter(c, wakeup_timer)
           info == mlbuf # {}
           reqs == FollowUps(c, info)
           q    == atcmd_fill(next, Batch(t, reqs))
<1>1. /\ busy \in Seq(Cmd) /\ c \in Cmd /\ pending \in Seq(Unsent)
      /\ t \in BOOLEAN /\ info \in BOOLEAN /\ when \in BOOLEAN
  BY DEF TypeOK, Sent, TimerAfter
<1>2. /\ pending' = pending \o q
      /\ when' = (\/ when
                  \/ reqs # <<>> /\ pending = <<>>
                  \/ WakeQueue(Tail(busy), pending \o q))
      /\ busy' = Tail(busy)
      /\ next + Len(Batch(t, reqs)) <= MaxId + 1
  BY DEF atcmd_done, HasRoom
<1>3. reqs \in Seq(Request) /\ \A i \in 1 .. Len(reqs) : reqs[i].kind # "wakeup"
  BY <1>1, FollowUpsType, FollowUpsKinds
<1>4. reqs = <<>> => q = <<>>
  BY DEF Batch, atcmd_fill
<1> HIDE DEF q, reqs, t, info
<1>5. reqs # <<>> =>
        /\ q \in Seq(Unsent) /\ q # <<>> /\ Shaped(q)
        /\ \A i \in 1 .. Len(q) : ~ q[i].started
  <2>1. next \in Nat \ {0}
    BY DEF TypeOK
  <2> QED
    BY <1>1, <1>2, <1>3, <2>1, FillShaped DEF q
<1>6. reqs = <<>> => pending' = pending
  BY <1>1, <1>2, <1>4, ConcatEmptySeq
<1>7. Shaped(pending')
  BY <1>1, <1>2, <1>5, <1>6, ShapedConcat DEF SessionInv
<1>8. /\ pending # <<>> => pending' # <<>> /\ Head(pending') = Head(pending)
      /\ pending = <<>> /\ reqs # <<>> => pending' # <<>> /\ Head(pending') = q[1]
  BY <1>1, <1>2, <1>5, <1>6, HeadKept
<1>9. pending' # <<>> => ~ Head(pending').started
  <2>1. pending # <<>> => ~ Head(pending).started
    BY NothingOpen
  <2>2. reqs # <<>> => 1 \in 1 .. Len(q)
    BY <1>5
  <2> QED
    BY <1>5, <1>6, <1>8, <2>1, <2>2
<1>10. /\ OneExecuting'
       /\ HasWakeup(busy') => HasWakeup(busy)
       /\ ~ HasWakeup(busy) => busy' = <<>>
  BY <1>1, <1>2, ExecutingTail DEF SessionInv
<1>11. HasWakeup(busy') => busy' # <<>> /\ pending # <<>> /\ ~ when
  BY <1>10, HasEmpty DEF SessionInv, WakeupFollowed
<1>12. WakeupFollowed'
  BY <1>2, <1>8, <1>11 DEF WakeupFollowed, HasWakeup, WakeQueue
<1>13. WriteRight'
  <2> SUFFICES ASSUME when' PROVE pending' # <<>> /\ (busy' = <<>> \/ Head(pending').kind = "wakeup")
    BY DEF WriteRight
  <2>1. CASE when
    BY <1>8, <2>1 DEF SessionInv, WriteRight
  <2>2. CASE reqs # <<>> /\ pending = <<>>
    <3>1. ~ HasWakeup(busy)
      BY <2>2 DEF SessionInv, WakeupFollowed
    <3> QED
      BY <1>8, <1>10, <2>2, <3>1
  <2>3. CASE WakeQueue(Tail(busy), pending \o q)
    BY <1>2, <2>3 DEF WakeQueue
  <2> QED
    BY <1>2, <2>1, <2>2, <2>3
<1> QED
  BY <1>7, <1>9, <1>10, <1>12, <1>13

\* What the modem has to answer, without its first line.
LEMMA LinesTail ==
  ASSUME SessionInv, lines # <<>>, lines' = Tail(lines)
  PROVE  /\ lines' \in Seq(Line) /\ Len(lines') = Len(lines) - 1 /\ Len(lines) \in Nat
         /\ \A i \in 1 .. Len(lines') : i + 1 \in 1 .. Len(lines) /\ lines'[i] = lines[i + 1]
         /\ Head(lines) = lines[1] /\ 1 \in 1 .. Len(lines)
<1>1. lines \in Seq(Line)
  BY DEF SessionInv
<1>2. /\ Tail(lines) \in Seq(Line) /\ Len(Tail(lines)) = Len(lines) - 1 /\ Len(lines) \in Nat
      /\ \A i \in 1 .. Len(lines) - 1 : Tail(lines)[i] = lines[i + 1]
      /\ Head(lines) = lines[1]
  BY <1>1, HeadTailProperties
<1>3. Len(lines) # 0
  BY <1>1, EmptySeq
<1>4. \A i \in 1 .. Len(lines) - 1 : i + 1 \in 1 .. Len(lines)
  BY <1>2
<1> QED
  BY <1>2, <1>3, <1>4

\* Nothing else changes than the queues and what depends on them.
LEMMA AnswerKeeps == ASSUME TypeOK, TimerHasWakeup, SessionInv, Answer PROVE SessionInv'
<1>1. /\ lines' \in Seq(Line) /\ Len(lines') = Len(lines) - 1 /\ Len(lines) \in Nat
      /\ \A i \in 1 .. Len(lines') : i + 1 \in 1 .. Len(lines) /\ lines'[i] = lines[i + 1]
      /\ Head(lines) = lines[1] /\ 1 \in 1 .. Len(lines)
  BY LinesTail DEF Answer
<1>2. CASE busy = <<>>
  <2>1. UNCHANGED <<pending, busy, when, ready, dropped, prompted>> /\ Head(lines).last
    BY <1>2 DEF Answer, vars
  <2>2. HalfSent'
    BY <2>1 DEF SessionInv, HalfSent
  <2>3. OpenLine'
    <3> SUFFICES ASSUME NEW i \in 1 .. Len(lines'), ~ lines'[i].last
                 PROVE  /\ i = Len(lines') /\ ~ when
                        /\ pending # <<>> /\ Head(pending).started
                        /\ lines'[i].id = Head(pending).id
      BY <2>1 DEF OpenLine
    <3>1. i + 1 \in 1 .. Len(lines) /\ lines'[i] = lines[i + 1]
      BY <1>1
    <3>2. /\ i + 1 = Len(lines) /\ ~ when
          /\ pending # <<>> /\ Head(pending).started /\ lines[i + 1].id = Head(pending).id
      BY <3>1 DEF SessionInv, OpenLine
    <3> QED
      BY <1>1, <3>1, <3>2
  <2>4. Silent'
    BY <1>1, <2>1 DEF SessionInv, Silent
  <2>5. Matched'
    <3>1. dropped = {} => Len(lines) # Len(busy)
      BY <1>1, <1>2, EmptySeq
    <3>2. dropped # {}
      BY <1>1, <2>1, <3>1 DEF SessionInv, Matched
    <3> QED
      BY <2>1, <3>2 DEF Matched
  <2>6. WriteRight' /\ WakeupFollowed' /\ OneExecuting'
    BY <2>1 DEF SessionInv, WriteRight, WakeupFollowed, OneExecuting, HasWakeup
  <2> QED
    BY <1>1, <2>1, <2>2, <2>3, <2>4, <2>5, <2>6 DEF SessionInv, Shaped
<1>3. CASE busy # <<>>
  <2>1. PICK res \in {"OK", "CME"} : RecvFinal(res)
    BY <1>3 DEF Answer
  <2>2. /\ atcmd_done(pending, next, mlbuf, res) /\ busy' = Tail(busy)
        /\ UNCHANGED <<dropped, ready, prompted>>
    BY <2>1 DEF RecvFinal, atcmd_done, Answer
  <2>3. /\ Shaped(pending') /\ WriteRight' /\ WakeupFollowed' /\ OneExecuting'
        /\ pending' # <<>> => ~ Head(pending').started
    BY <1>3, <2>2, DoneSession
  <2>4. \A i \in 1 .. Len(lines') : lines'[i].last
    BY <1>1, <1>3, NothingOpen
  <2>5. HalfSent' /\ OpenLine'
    BY <2>3, <2>4 DEF HalfSent, OpenLine
  <2>6. Silent'
    BY <1>3, <2>2 DEF SessionInv, Silent
  <2>7. Matched'
    <3> SUFFICES ASSUME dropped = {}
                 PROVE  /\ Len(lines') = Len(busy')
                        /\ \A i \in 1 .. Len(lines') : lines'[i].last /\ lines'[i].id = busy'[i].id
      BY <2>2 DEF Matched
    <3>1. Len(lines) = Len(busy) /\ \A i \in 1 .. Len(lines) : lines[i].id = busy[i].id
      BY <1>3 DEF SessionInv, Matched
    <3>2. /\ Len(busy') = Len(busy) - 1
          /\ \A i \in 1 .. Len(busy) - 1 : busy'[i] = busy[i + 1]
      BY <1>3, <2>2, HeadTailProperties DEF TypeOK
    <3>3. \A i \in 1 .. Len(lines') : lines'[i].id = busy'[i].id
      BY <1>1, <3>1, <3>2
    <3> QED
      BY <1>1, <2>4, <3>1, <3>2, <3>3
  <2> QED
    BY <1>1, <2>3, <2>5, <2>6, <2>7 DEF SessionInv
<1> QED
  BY <1>2, <1>3
-----------------------------------------------------------------------------
(* Writing.                                                                *)

\* The queue without its first command.
LEMMA ShapedTail ==
  ASSUME NEW p \in Seq(Unsent), p # <<>>, Shaped(p)
  PROVE  /\ Shaped(Tail(p))
         /\ Tail(p) # <<>> => ~ Head(Tail(p)).started
         /\ Head(p).kind = "wakeup" => Tail(p) # <<>>
<1>1. /\ Tail(p) \in Seq(Unsent) /\ Len(Tail(p)) = Len(p) - 1 /\ Len(p) \in Nat
      /\ \A i \in 1 .. Len(p) - 1 : Tail(p)[i] = p[i + 1]
      /\ Head(p) = p[1] /\ Len(p) # 0
  BY HeadTailProperties, EmptySeq
<1> DEFINE t == Tail(p)
<1> HIDE DEF t
<1>2. /\ \A i \in 1 .. Len(t) : i + 1 \in 2 .. Len(p) /\ t[i] = p[i + 1]
      /\ \A i \in 2 .. Len(p) : i \in 1 .. Len(p)
      /\ Len(t) + 1 = Len(p)
  BY <1>1 DEF t
<1>3. t # <<>> => Len(t) \in 1 .. Len(t) /\ 1 \in 1 .. Len(t)
  BY <1>1, EmptySeq DEF t
<1>4. t # <<>> => t[Len(t)].kind # "wakeup"
  <2>1. t # <<>> => t[Len(t)] = p[Len(p)]
    BY <1>2, <1>3
  <2> QED
    BY <1>1, <2>1, EmptySeq DEF Shaped, t
<1>5. \A i \in 1 .. Len(t) : ~ t[i].started /\ (t[i].kind = "wakeup" => Len(t[i].rest) = 1)
  BY <1>2 DEF Shaped
<1>6. \A i \in 2 .. Len(t) : i \in 1 .. Len(t)
  BY <1>1 DEF t
<1>7. Shaped(t)
  BY <1>4, <1>5, <1>6 DEF Shaped
<1>8. t # <<>> => ~ Head(t).started
  <2>1. t # <<>> => Head(t) = t[1]
    BY <1>1 DEF t
  <2> QED
    BY <1>3, <1>5, <2>1
<1>9. Head(p).kind = "wakeup" => t # <<>>
  <2> SUFFICES ASSUME Head(p).kind = "wakeup", t = <<>> PROVE FALSE
    OBVIOUS
  <2>1. Len(p) = 1
    <3>1. Len(t) = 0
      OBVIOUS
    <3>2. Len(t) + 1 = Len(p) /\ Len(p) \in Nat
      BY <1>1, <1>2
    <3> QED
      BY <3>1, <3>2
  <2> QED
    BY <1>1, <2>1 DEF Shaped
<1> QED
  BY <1>7, <1>8, <1>9 DEF t

\* The queue with its first command replaced by one that is no wakeup.
LEMMA ShapedReplaced ==
  ASSUME NEW p \in Seq(Unsent), p # <<>>, Shaped(p), NEW d \in Unsent, d.kind # "wakeup"
  PROVE  Shaped(<<d>> \o Tail(p)) /\ <<d>> \o Tail(p) # <<>> /\ Head(<<d>> \o Tail(p)) = d
<1>1. /\ Tail(p) \in Seq(Unsent) /\ Len(Tail(p)) = Len(p) - 1 /\ Len(p) \in Nat
      /\ \A i \in 1 .. Len(p) - 1 : Tail(p)[i] = p[i + 1]
      /\ Len(p) # 0
  BY HeadTailProperties, EmptySeq
<1> DEFINE q == <<d>> \o Tail(p)
<1>2. <<d>> \in Seq(Unsent) /\ Len(<<d>>) = 1 /\ <<d>>[1] = d
  OBVIOUS
<1>3. /\ q \in Seq(Unsent) /\ Len(q) = 1 + Len(Tail(p))
      /\ \A i \in 1 .. 1 + Len(Tail(p)) : q[i] = IF i <= 1 THEN <<d>>[i] ELSE Tail(p)[i - 1]
  BY <1>1, <1>2, ConcatProperties
<1> HIDE DEF q
<1>4. Len(q) = Len(p) /\ q[1] = d
  BY <1>1, <1>2, <1>3
<1>5. \A i \in 2 .. Len(p) : q[i] = p[i] /\ i \in 1 .. Len(p)
  <2> SUFFICES ASSUME NEW i \in 2 .. Len(p) PROVE q[i] = p[i]
    BY <1>1
  <2>1. i \in 1 .. 1 + Len(Tail(p)) /\ ~ (i <= 1) /\ i - 1 \in 1 .. Len(p) - 1 /\ (i - 1) + 1 = i
    BY <1>1
  <2> QED
    BY <1>1, <1>3, <2>1
<1>6. \A i \in 1 .. Len(q) : i = 1 \/ i \in 2 .. Len(p)
  BY <1>4
<1>7. q[Len(q)].kind # "wakeup"
  <2>1. Len(q) = 1 \/ Len(q) \in 2 .. Len(p)
    BY <1>1, <1>4
  <2> QED
    BY <1>1, <1>4, <1>5, <2>1 DEF Shaped
<1>8. \A i \in 1 .. Len(q) : q[i].kind = "wakeup" => Len(q[i].rest) = 1
  BY <1>4, <1>5, <1>6 DEF Shaped
<1>9. \A i \in 2 .. Len(q) : ~ q[i].started
  BY <1>4, <1>5 DEF Shaped
<1>10. Shaped(q)
  BY <1>7, <1>8, <1>9 DEF Shaped
<1>11. q # <<>> /\ Head(q) = d
  BY <1>1, <1>3, <1>4
<1> QED
  BY <1>10, <1>11 DEF q

\* A line goes to the modem: one of the only command that is handled then, or a
\* wakeup, which another command follows.
LEMMA WriteKeeps == ASSUME TypeOK, SessionInv, Write PROVE SessionInv'
<1> DEFINE c == Head(pending)
           d == [c EXCEPT !.rest = Tail(@), !.started = TRUE]
           l == [id |-> c.id, last |-> Len(c.rest) = 1]
<1>1. /\ pending \in Seq(Unsent) /\ pending # <<>> /\ when /\ when' = FALSE /\ ready
      /\ lines' = Append(lines, l) /\ lines \in Seq(Line)
      /\ UNCHANGED <<ready, dropped>>
  BY DEF Write, WriteLine, WriteReady, history, TypeOK, SessionInv
<1>2. c \in Cmd /\ c.rest \in Seq(Nat) /\ c.rest # <<>>
  BY <1>1 DEF Unsent, Cmd
<1>3. /\ d \in Cmd /\ d.id = c.id /\ d.kind = c.kind /\ d.rest = Tail(c.rest) /\ d.started
  <2>1. Tail(c.rest) \in Seq(Nat)
    BY <1>2, HeadTailProperties
  <2> HIDE DEF c
  <2>2. d \in Cmd
    BY <1>2, <2>1 DEF Cmd
  <2>3. d.id = c.id /\ d.kind = c.kind /\ d.rest = Tail(c.rest)
    BY <1>2 DEF Cmd
  <2>4. d.started
    BY <1>2 DEF Cmd
  <2> QED
    BY <2>2, <2>3, <2>4
<1>4. busy = <<>> \/ c.kind = "wakeup"
  BY <1>1 DEF SessionInv, WriteRight
<1>5. /\ lines' \in Seq(Line) /\ Len(lines') = Len(lines) + 1 /\ Len(lines) \in Nat
      /\ \A i \in 1 .. Len(lines) : lines'[i] = lines[i]
      /\ lines'[Len(lines) + 1] = l
  <2>1. l \in Line
    BY <1>2 DEF Cmd, Line
  <2> QED
    BY <1>1, <2>1
<1>6. \A i \in 1 .. Len(lines) : lines[i].last
  BY <1>1 DEF SessionInv, OpenLine
<1>7. \A i \in 1 .. Len(lines') : i = Len(lines) + 1 \/ (i \in 1 .. Len(lines) /\ lines'[i].last)
  BY <1>5, <1>6
<1>8. /\ Shaped(Tail(pending))
      /\ Tail(pending) # <<>> => ~ Head(Tail(pending)).started
      /\ c.kind = "wakeup" => Tail(pending) # <<>>
  BY <1>1, ShapedTail DEF SessionInv
<1>9. dropped = {} => /\ Len(lines) = Len(busy)
                      /\ \A i \in 1 .. Len(lines) : lines[i].id = busy[i].id
  <2> SUFFICES ASSUME dropped = {}, busy = <<>>, Len(lines) = 1, ~ lines[1].last PROVE FALSE
    BY DEF SessionInv, Matched
  <2> QED
    BY <1>6
<1>10. WriteRight' /\ Silent'
  BY <1>1 DEF WriteRight, Silent
<1> HIDE DEF l, c
<1>11. CASE Len(c.rest) = 1
  <2>1. pending' = Tail(pending) /\ busy' = Append(busy, d)
    BY <1>11 DEF Write, WriteLine, Executing, c
  <2> HIDE DEF d
  <2>2. busy \in Seq(Cmd)
    BY DEF TypeOK, Sent
  <2>3. /\ Len(busy') = Len(busy) + 1 /\ Len(busy) \in Nat
        /\ \A i \in 1 .. Len(busy) : busy'[i] = busy[i]
        /\ busy'[Len(busy) + 1] = d
    BY <1>3, <2>1, <2>2
  <2>4. HasWakeup(busy') => pending' # <<>>
    <3>1. c.kind # "wakeup" => busy' = <<d>>
      <4>1. Append(<<>>, d) = <<d>>
        OBVIOUS
      <4> QED
        BY <1>4, <2>1, <4>1
    <3>2. HasWakeup(<<d>>) <=> d.kind = "wakeup"
      BY HasOne
    <3> QED
      BY <1>3, <1>8, <2>1, <3>1, <3>2
  <2>5. OneExecuting'
    <3> SUFFICES ASSUME NEW i \in 1 .. Len(busy'), NEW j \in 1 .. Len(busy'),
                        busy'[i].kind # "wakeup", busy'[j].kind # "wakeup"
                 PROVE  i = j
      BY DEF OneExecuting
    <3>1. CASE busy = <<>>
      BY <2>3, <3>1
    <3>2. CASE c.kind = "wakeup"
      <4>1. i # Len(busy) + 1 /\ j # Len(busy) + 1
        BY <1>3, <2>3, <3>2
      <4>2. i \in 1 .. Len(busy) /\ j \in 1 .. Len(busy)
        BY <2>3, <4>1
      <4> QED
        BY <2>3, <4>2 DEF SessionInv, OneExecuting
    <3> QED
      BY <1>4, <3>1, <3>2
  <2>6. \A i \in 1 .. Len(lines') : lines'[i].last
    <3>1. l.last
      BY <1>11 DEF l
    <3> QED
      BY <1>5, <1>7, <3>1
  <2>7. HalfSent' /\ OpenLine'
    BY <1>1, <1>8, <2>1, <2>6 DEF HalfSent, OpenLine
  <2>8. Matched'
    <3> SUFFICES ASSUME dropped = {}
                 PROVE  /\ Len(lines') = Len(busy')
                        /\ \A i \in 1 .. Len(lines') : lines'[i].id = busy'[i].id
      BY <1>1, <2>6 DEF Matched
    <3>1. lines'[Len(lines) + 1].id = busy'[Len(busy) + 1].id
      BY <1>3, <1>5, <2>3 DEF l
    <3>2. \A i \in 1 .. Len(lines) : lines'[i].id = busy'[i].id
      BY <1>5, <1>9, <2>3
    <3> QED
      BY <1>5, <1>7, <1>9, <2>3, <3>1, <3>2
  <2>9. WakeupFollowed'
    BY <1>1, <2>4 DEF WakeupFollowed, HasWakeup
  <2> QED
    BY <1>5, <1>8, <1>10, <2>1, <2>5, <2>7, <2>8, <2>9 DEF SessionInv
<1>12. CASE Len(c.rest) # 1
  <2>1. pending' = <<d>> \o Tail(pending) /\ busy' = busy
    BY <1>12 DEF Write, WriteLine, PutBack, c
  <2>2. c.kind # "wakeup"
    <3>1. Len(pending) # 0 /\ Len(pending) \in Nat /\ Head(pending) = pending[1]
      BY <1>1, EmptySeq
    <3> QED
      BY <1>12, <3>1 DEF SessionInv, Shaped, c
  <2>3. d \in Unsent
    BY <1>2, <1>3, <1>12, TailEmpty DEF Unsent
  <2> HIDE DEF d
  <2>4. Shaped(pending') /\ pending' # <<>> /\ Head(pending') = d
    BY <1>1, <1>3, <2>1, <2>2, <2>3, ShapedReplaced DEF SessionInv
  <2>5. busy' = <<>>
    BY <1>4, <2>1, <2>2
  <2>6. HalfSent'
    BY <1>1, <2>5 DEF HalfSent
  <2>7. OpenLine'
    BY <1>1, <1>3, <1>5, <1>7, <2>4 DEF OpenLine, l
  <2>8. Matched'
    <3>1. dropped = {} => Len(lines) = 0
      BY <1>9, <2>1, <2>5, EmptySeq
    <3>2. ~ l.last
      BY <1>12 DEF l
    <3>3. dropped = {} => Len(lines') = 1 /\ lines'[1] = l
      BY <1>5, <3>1
    <3> QED
      BY <1>1, <2>5, <3>2, <3>3 DEF Matched
  <2>9. WakeupFollowed' /\ OneExecuting'
    BY <2>5, HasEmpty DEF WakeupFollowed, OneExecuting, HasWakeup
  <2> QED
    BY <1>5, <1>10, <2>4, <2>6, <2>7, <2>8, <2>9 DEF SessionInv
<1> QED
  BY <1>11, <1>12
-----------------------------------------------------------------------------
(* The modem's other lines.                                                *)

\* The modem asks for the next line only of the half-sent command, when nothing
\* else is with it.
LEMMA PromptKeeps == ASSUME TypeOK, SessionInv, Prompt PROVE SessionInv'
<1>1. /\ lines' \in Seq(Line) /\ Len(lines') = Len(lines) - 1 /\ Len(lines) \in Nat
      /\ Head(lines) = lines[1] /\ 1 \in 1 .. Len(lines)
  BY LinesTail DEF Prompt
<1>2. /\ ~ lines[1].last /\ when' /\ prompted' = prompted \cup {lines[1].id}
      /\ UNCHANGED <<pending, busy, ready, dropped>>
  BY <1>1 DEF Prompt, atcmd_prompt, history
<1>3. /\ Len(lines) = 1
      /\ pending # <<>> /\ Head(pending).started /\ lines[1].id = Head(pending).id
  BY <1>1, <1>2 DEF SessionInv, OpenLine
<1>4. busy = <<>>
  BY <1>3 DEF SessionInv, HalfSent
<1>5. Len(lines') = 0
  BY <1>1, <1>3
<1>6. WriteRight' /\ HalfSent'
  BY <1>2, <1>3, <1>4 DEF WriteRight, HalfSent
<1>7. OpenLine' /\ WakeupFollowed' /\ OneExecuting'
  BY <1>2, <1>4, <1>5, HasEmpty DEF OpenLine, WakeupFollowed, HasWakeup, OneExecuting
<1>8. Silent'
  BY <1>1, <1>2, <1>3 DEF SessionInv, Silent
<1>9. Matched'
  BY <1>2, <1>4, <1>5 DEF Matched
<1> QED
  BY <1>1, <1>2, <1>6, <1>7, <1>8, <1>9 DEF SessionInv, Shaped

\* An information response may make the callback submit more, and touches
\* nothing else.
LEMMA InformKeeps == ASSUME TypeOK, TimerHasWakeup, SessionInv, Inform PROVE SessionInv'
<1> DEFINE reqs == FollowUps(Head(busy), TRUE)
<1>1. /\ Head(busy) \in Cmd
      /\ UNCHANGED <<busy, dropped, ready, lines, prompted>>
  BY DEF Inform, RecvInfo, TypeOK, Sent, session
<1>2. reqs \in Seq(Request) /\ \A i \in 1 .. Len(reqs) : reqs[i].kind # "wakeup"
  BY <1>1, FollowUpsType, FollowUpsKinds
<1>3. \/ reqs # <<>> /\ atcmd_submit(reqs)
      \/ UNCHANGED <<pending, when>>
  BY DEF Inform, RecvInfo
<1> HIDE DEF reqs
<1>4. CASE reqs # <<>> /\ atcmd_submit(reqs)
  BY <1>1, <1>2, <1>4, SubmitKeeps
<1>5. CASE UNCHANGED <<pending, when>>
  BY <1>1, <1>5 DEF SessionInv, Shaped, WriteRight, WakeupFollowed, HasWakeup, HalfSent,
                    OpenLine, Silent, OneExecuting, Matched
<1> QED
  BY <1>3, <1>4, <1>5

\* The modem was silent until it says that it is ready.
LEMMA ReadyKeeps == ASSUME TypeOK, TimerHasWakeup, SessionInv, Ready PROVE SessionInv'
<1>1. /\ <<Fixed("atz")>> \in Seq(Request) /\ <<Fixed("atz")>> # <<>>
      /\ \A i \in 1 .. Len(<<Fixed("atz")>>) : <<Fixed("atz")>>[i].kind # "wakeup"
  BY OneRequest
<1>2. /\ atcmd_submit(<<Fixed("atz")>>)
      /\ UNCHANGED <<busy, dropped>> /\ ready' /\ lines' = <<>> /\ prompted' = {}
  BY DEF Ready, RecvReady
<1>3. busy = <<>> /\ lines = <<>> /\ (pending # <<>> => ~ Head(pending).started)
  BY DEF Ready, SessionInv, Silent
<1>4. /\ Shaped(pending') /\ WriteRight' /\ WakeupFollowed'
      /\ pending # <<>> => Head(pending') = Head(pending) /\ when' = when
      /\ pending = <<>> => ~ Head(pending').started
  BY <1>1, <1>2, SubmitSession
<1>5. lines' \in Seq(Line) /\ OpenLine' /\ Silent' /\ OneExecuting' /\ Matched'
  BY <1>2, <1>3 DEF OpenLine, Silent, OneExecuting, Matched
<1>6. HalfSent'
  BY <1>2, <1>3, <1>4 DEF HalfSent
<1> QED
  BY <1>4, <1>5, <1>6 DEF SessionInv

\* The wakeup that is given up may be the only one that executes: then the flag is
\* set for the command that waits behind it.
LEMMA TimeoutKeeps ==
  ASSUME TypeOK, SessionInv, wakeup_timeout, UNCHANGED <<lines, prompted>>
  PROVE  SessionInv'
<1>1. UNCHANGED <<pending, ready>> /\ when \in BOOLEAN
  BY DEF wakeup_timeout, TypeOK
<1>2. CASE busy # <<>> /\ Head(busy).kind = "wakeup"
  <2>1. /\ busy' = Tail(busy) /\ when' = (when \/ WakeQueue(busy', pending))
        /\ dropped' # {}
    BY <1>2 DEF wakeup_timeout, Discarded
  <2>2. busy \in Seq(Sent) /\ busy \in Seq(Cmd)
    BY DEF TypeOK, Sent
  <2>3. /\ HasWakeup(busy)
    BY <1>2, <2>2, HasHeadTail
  <2>4. pending # <<>> /\ ~ when
    BY <2>3 DEF SessionInv, WakeupFollowed
  <2>5. /\ \A i \in 1 .. Len(lines) : lines[i].last
        /\ ~ Head(pending).started
    BY <1>2, <2>4, NothingOpen
  <2>6. OneExecuting'
    BY <1>2, <2>1, <2>2, ExecutingTail DEF SessionInv
  <2>7. when' => busy' = <<>>
    BY <2>1, <2>4 DEF WakeQueue
  <2>8. WriteRight' /\ WakeupFollowed'
    BY <1>1, <2>4, <2>7, HasEmpty DEF WriteRight, WakeupFollowed, HasWakeup
  <2>9. HalfSent' /\ OpenLine' /\ Matched'
    BY <1>1, <2>1, <2>5 DEF HalfSent, OpenLine, Matched
  <2>10. Silent'
    BY <1>1, <1>2 DEF SessionInv, Silent
  <2> QED
    BY <1>1, <2>6, <2>8, <2>9, <2>10 DEF SessionInv, Shaped
<1>3. CASE ~ (busy # <<>> /\ Head(busy).kind = "wakeup")
  <2>1. UNCHANGED <<busy, when, dropped>>
    BY <1>3 DEF wakeup_timeout
  <2> QED
    BY <1>1, <2>1 DEF SessionInv, Shaped, WriteRight, WakeupFollowed, HasWakeup, HalfSent,
                      OpenLine, Silent, OneExecuting, Matched
<1> QED
  BY <1>2, <1>3

\* Clients and alive checks submit one request each; the end of an alive check
\* leaves the queues alone.
LEMMA ClientKeeps == ASSUME TypeOK, TimerHasWakeup, SessionInv, Client PROVE SessionInv'
<1>1. UNCHANGED <<lines, prompted>>
  BY DEF Client, session
<1>2. CASE alive_interval_tmr_cb
  <2>1. atcmd_submit(<<Fixed("alive")>>) /\ UNCHANGED <<busy, ready, dropped>>
    BY <1>2 DEF alive_interval_tmr_cb
  <2>2. /\ <<Fixed("alive")>> \in Seq(Request) /\ <<Fixed("alive")>> # <<>>
        /\ \A i \in 1 .. Len(<<Fixed("alive")>>) : <<Fixed("alive")>>[i].kind # "wakeup"
    BY OneRequest
  <2> QED
    BY <1>1, <2>1, <2>2, SubmitKeeps
<1>3. CASE \E k \in {"plain", "silent"}, text \in Texts : ClientSubmit(k, text)
  <2>1. PICK k \in {"plain", "silent"}, text \in Texts : ClientSubmit(k, text)
    BY <1>3
  <2> DEFINE reqs == <<[kind |-> k, text |-> text]>>
  <2>2. atcmd_submit(reqs) /\ UNCHANGED <<busy, ready, dropped>>
    BY <2>1 DEF ClientSubmit
  <2>3. /\ reqs \in Seq(Request) /\ reqs # <<>>
        /\ \A i \in 1 .. Len(reqs) : reqs[i].kind # "wakeup"
    BY OneRequest
  <2> HIDE DEF reqs
  <2> QED
    BY <1>1, <2>2, <2>3, SubmitKeeps
<1>4. CASE \E i \in Ids : alive_tmr_cb(i)
  BY <1>1, <1>4 DEF alive_tmr_cb, history, SessionInv, Shaped, WriteRight, WakeupFollowed,
                    HasWakeup, HalfSent, OpenLine, Silent, OneExecuting, Matched
<1> QED
  BY <1>2, <1>3, <1>4 DEF Client
-----------------------------------------------------------------------------
(* The invariant of the sessions, and what follows from it.                *)

\* Every step of a session keeps its invariant.
LEMMA StepSession ==
  TypeOK /\ TimerHasWakeup /\ SessionInv /\ [SNext]_svars => SessionInv'
<1> SUFFICES ASSUME TypeOK, TimerHasWakeup, SessionInv, [SNext]_svars PROVE SessionInv'
  OBVIOUS
<1>1. CASE WakeupLate
  BY <1>1, TimeoutKeeps DEF WakeupLate, session
<1>2. CASE UNCHANGED svars
  BY <1>2 DEF svars, vars, session, SessionInv, Shaped, WriteRight, WakeupFollowed,
              HasWakeup, HalfSent, OpenLine, Silent, OneExecuting, Matched
<1> QED
  BY <1>1, <1>2, ClientKeeps, WriteKeeps, PromptKeeps, AnswerKeeps, InformKeeps, ReadyKeeps
     DEF SNext

\* The daemon starts with nothing sent, and with the commands of a modem assumed
\* to be ready pending if it is.
LEMMA InitSession == SInit => SessionInv
<1> SUFFICES ASSUME SInit PROVE SessionInv
  OBVIOUS
<1>1. Init /\ lines = <<>> /\ busy = <<>> /\ dropped = {}
  BY DEF SInit, Init
<1>2. /\ lines \in Seq(Line) /\ OpenLine /\ Silent /\ OneExecuting /\ Matched /\ WakeupFollowed
  <2>1. lines \in Seq(Line) /\ Len(lines) = 0 /\ Len(busy) = 0
    BY <1>1
  <2>2. OpenLine /\ OneExecuting /\ Matched
    BY <1>1, <2>1 DEF OpenLine, OneExecuting, Matched
  <2>3. WakeupFollowed
    BY <1>1, HasEmpty DEF WakeupFollowed
  <2>4. ~ ready => pending = <<>>
    BY DEF SInit, Init
  <2>5. Silent
    BY <1>1, <2>4 DEF Silent
  <2> QED
    BY <2>1, <2>2, <2>3, <2>5
<1>3. Shaped(pending) /\ WriteRight /\ HalfSent
  <2>1. CASE pending = <<>> /\ when = FALSE
    BY <1>1, <2>1 DEF Shaped, WriteRight, HalfSent
  <2>2. CASE pending = atcmd_fill(1, Batch(FALSE, <<Fixed("atz")>>))
    <3>1. /\ <<Fixed("atz")>> \in Seq(Request) /\ <<Fixed("atz")>> # <<>>
          /\ \A i \in 1 .. Len(<<Fixed("atz")>>) : <<Fixed("atz")>>[i].kind # "wakeup"
      BY OneRequest
    <3>2. 1 + Len(Batch(FALSE, <<Fixed("atz")>>)) <= MaxId + 1
      <4> DEFINE n == Len(Batch(FALSE, <<Fixed("atz")>>))
      <4>1. n = 2
        BY DEF Batch
      <4> HIDE DEF n
      <4>2. 1 + n <= MaxId + 1
        BY <4>1, AtCmdAssumption
      <4> QED
        BY <4>2 DEF n
    <3>3. /\ pending \in Seq(Unsent) /\ pending # <<>> /\ Shaped(pending)
          /\ \A i \in 1 .. Len(pending) : ~ pending[i].started
      <4>1. 1 \in Nat \ {0} /\ FALSE \in BOOLEAN
        OBVIOUS
      <4> QED
        BY <2>2, <3>1, <3>2, <4>1, FillShaped
    <3>4. Head(pending) = pending[1] /\ 1 \in 1 .. Len(pending)
      BY <3>3
    <3> QED
      BY <1>1, <3>3, <3>4 DEF WriteRight, HalfSent
  <2> QED
    BY <1>1, <2>1, <2>2 DEF Init
<1> QED
  BY <1>2, <1>3 DEF SessionInv

\* So it holds in all sessions, together with the engine's.
LEMMA SessionInvariant == SSpec => [](TypeOK /\ TimerHasWakeup /\ SessionInv)
<1>1. SSpec => []TypeOK
  BY SessionImplementsEngine, TypeCorrect, PTL
<1>2. SSpec => []TimerHasWakeup
  BY SessionImplementsEngine, TimerHasWakeupHolds, PTL
<1> QED
  BY <1>1, <1>2, InitSession, StepSession, PTL DEF SSpec

\* One command executes at a time, besides a wakeup that was written while it does,
\* in sessions of every length (atcmd.c:521).
THEOREM OneExecutingHolds == SSpec => []OneExecuting
<1>1. SessionInv => OneExecuting
  BY DEF SessionInv
<1> QED
  BY <1>1, SessionInvariant, PTL

\* A further line of a command is written only after the prompt for it
\* (atcmd.c:524): the flag that a prompt sets is not taken for another command's,
\* and no other event sets it while a half-sent command waits.
THEOREM BodyAfterPromptHolds == SSpec => BodyAfterPrompt
<1>1. ASSUME TypeOK, SessionInv, [SNext]_svars,
             Len(lines') > Len(lines), Head(pending).started
      PROVE  Head(pending).id \in prompted
  <2>1. CASE Write
    <3>1. pending # <<>> /\ when
      BY <2>1 DEF Write, WriteLine, WriteReady
    <3> QED
      BY <1>1, <3>1 DEF SessionInv, HalfSent
  <2>2. CASE Prompt \/ Answer
    <3>1. Len(lines') = Len(lines) - 1 /\ Len(lines) \in Nat
      BY <1>1, <2>2, LinesTail DEF Prompt, Answer
    <3> QED
      BY <1>1, <3>1
  <2>3. CASE Ready
    BY <1>1, <2>3 DEF Ready, SessionInv, Silent
  <2>4. CASE UNCHANGED lines
    <3>1. Len(lines) \in Nat
      BY <1>1 DEF SessionInv
    <3> QED
      BY <1>1, <2>4, <3>1
  <2> QED
    BY <1>1, <2>1, <2>2, <2>3, <2>4 DEF SNext, Client, WakeupLate, Inform, session, svars
<1>2. TypeOK /\ SessionInv /\ [SNext]_svars =>
        [Len(lines') > Len(lines) /\ Head(pending).started =>
           Head(pending).id \in prompted]_svars
  BY <1>1
<1> QED
  BY <1>2, SessionInvariant, PTL DEF SSpec, BodyAfterPrompt

\* As long as no wakeup was given up a final result finishes the command it answers
\* and no other (atcmd.c:269).
THEOREM AnswersMatchInTimeHolds == SSpec => AnswersMatchInTime
<1>1. ASSUME TypeOK, SessionInv, Answer, dropped = {}
      PROVE  done' \ done \subseteq {Head(lines).id}
  <2>1. CASE busy = <<>>
    BY <1>1, <2>1 DEF Answer, vars
  <2>2. CASE busy # <<>>
    <3>1. done' = done \cup {Head(busy).id}
      BY <1>1, <2>2 DEF Answer, RecvFinal, atcmd_done
    <3>2. Head(lines) = lines[1] /\ 1 \in 1 .. Len(lines) /\ Head(busy) = busy[1]
      <4>1. Head(busy) = busy[1]
        BY <1>1, <2>2 DEF TypeOK
      <4>2. lines \in Seq(Line) /\ lines # <<>>
        BY <1>1 DEF SessionInv, Answer
      <4>3. Head(lines) = lines[1] /\ 1 \in 1 .. Len(lines)
        BY <4>2, EmptySeq
      <4> QED
        BY <4>1, <4>3
    <3>3. lines[1].id = busy[1].id
      BY <1>1, <2>2, <3>2 DEF SessionInv, Matched
    <3> QED
      BY <3>1, <3>2, <3>3
  <2> QED
    BY <2>1, <2>2
<1>2. TypeOK /\ SessionInv /\ [SNext]_svars =>
        [Answer /\ dropped = {} => done' \ done \subseteq {Head(lines).id}]_svars
  BY <1>1
<1> QED
  BY <1>2, SessionInvariant, PTL DEF SSpec, AnswersMatchInTime
=============================================================================
