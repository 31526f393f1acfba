---------------------------- MODULE AtQueueProofs ----------------------------
(* The queue of commands frees every command at most once.                 *)
EXTENDS AtQueue, SeqLemmas

-----------------------------------------------------------------------------
\* The inductive invariant: types, and that every id is below the next one and is
\* in one place at most.
IInv ==
  /\ queue \in Seq(Nat) /\ next \in Nat
  /\ Distinct(queue)
  /\ \A x \in Members(queue) \cup done \cup dropped : x < next
  /\ Members(queue) \cap (done \cup dropped) = {}
  /\ done \subseteq Nat /\ dropped \subseteq Nat
  /\ done \cap dropped = {}

\* The numbers from n up to m, without m.
From(n, m) == [i \in 1 .. m - n |-> n + i - 1]

\* They are distinct, and in order.
LEMMA FromUpTo ==
  ASSUME NEW n \in Nat, NEW m \in Nat, n <= m
  PROVE  /\ From(n, m) \in Seq(Nat) /\ Len(From(n, m)) = m - n
         /\ Distinct(From(n, m))
         /\ \A x \in Members(From(n, m)) : x \in Nat /\ n <= x /\ x < m
         /\ n < m => From(n, m) # <<>> /\ Head(From(n, m)) = n
<1>1. m - n \in Nat
  OBVIOUS
<1>2. \A i \in 1 .. m - n : n + i - 1 \in Nat /\ n <= n + i - 1 /\ n + i - 1 < m
  OBVIOUS
<1> DEFINE f == From(n, m)
<1>3. /\ f \in Seq(Nat) /\ Len(f) = m - n
      /\ \A i \in 1 .. m - n : f[i] = n + i - 1
  BY <1>1, <1>2 DEF From
<1> HIDE DEF f
<1>4. Distinct(f)
  BY <1>1, <1>3 DEF Distinct
<1>5. \A x \in Members(f) : x \in Nat /\ n <= x /\ x < m
  BY <1>2, <1>3 DEF Members
<1>6. ASSUME n < m PROVE f # <<>> /\ Head(f) = n
  <2>1. Len(f) >= 1 /\ f[1] = n
    BY <1>3, <1>6
  <2> QED
    BY <1>3, <2>1, EmptySeq
<1> QED
  BY <1>3, <1>4, <1>5, <1>6 DEF f

\* New ids are numbers from next up to next'.
LEMMA FreshIds ==
  ASSUME next \in Nat, next' \in Nat, next <= next'
  PROVE  /\ Fresh \in Seq(Nat)
         /\ Distinct(Fresh)
         /\ \A x \in Members(Fresh) : x \in Nat /\ next <= x /\ x < next'
         /\ next < next' => Fresh # <<>> /\ Head(Fresh) = next
<1>1. Fresh = From(next, next')
  BY DEF Fresh, From
<1> QED
  BY <1>1, FromUpTo

\* A queue that is not empty is its head and its tail.
LEMMA FirstAndRest ==
  ASSUME IInv, queue # <<>>
  PROVE  /\ Head(queue) \in Nat /\ Tail(queue) \in Seq(Nat)
         /\ Distinct(Tail(queue))
         /\ Head(queue) \notin Members(Tail(queue))
         /\ Members(queue) = {Head(queue)} \cup Members(Tail(queue))
         /\ Head(queue) < next /\ Head(queue) \notin done \cup dropped
<1> DEFINE h == <<Head(queue)>>
           t == Tail(queue)
<1>1. /\ queue \in Seq(Nat) /\ Head(queue) \in Nat
      /\ h \in Seq(Nat) /\ t \in Seq(Nat) /\ queue = h \o t
  BY DEF IInv
<1>2. Members(h) = {Head(queue)}
  BY DEF Members
<1> HIDE DEF h, t
<1>3. Distinct(h \o t)
  BY <1>1 DEF IInv
<1>4. Distinct(t) /\ Members(h) \cap Members(t) = {}
  BY <1>1, <1>3, DistinctConcat
<1>5. Members(h \o t) = Members(h) \cup Members(t)
  BY <1>1, MembersConcat
<1>6. Members(queue) = {Head(queue)} \cup Members(t)
  BY <1>1, <1>2, <1>5
<1>7. Head(queue) < next /\ Head(queue) \notin done \cup dropped
  BY <1>6 DEF IInv
<1> QED
  BY <1>1, <1>2, <1>4, <1>6, <1>7 DEF t

\* Commands added behind others that are known.
LEMMA AddFresh ==
  ASSUME next \in Nat, next' \in Nat, next <= next',
         NEW q \in Seq(Nat), Distinct(q), \A x \in Members(q) : x < next
  PROVE  /\ q \o Fresh \in Seq(Nat)
         /\ Distinct(q \o Fresh)
         /\ Members(q \o Fresh) = Members(q) \cup Members(Fresh)
<1> DEFINE f == Fresh
<1>1. /\ f \in Seq(Nat) /\ Distinct(f)
      /\ \A x \in Members(f) : next <= x
  BY FreshIds
<1> HIDE DEF f
<1>2. \A x \in Members(q) : x \in Nat
  BY DEF Members
<1>3. \A x \in Members(f) : x \in Nat
  BY <1>1 DEF Members
<1>4. Members(q) \cap Members(f) = {}
  BY <1>1, <1>2, <1>3
<1>5. q \o f \in Seq(Nat)
  BY <1>1, ConcatProperties
<1>6. Distinct(q \o f)
  BY <1>1, <1>4, DistinctConcat
<1>7. Members(q \o f) = Members(q) \cup Members(f)
  BY <1>1, MembersConcat
<1> QED
  BY <1>5, <1>6, <1>7 DEF f

\* New ids are not known yet, and below the one after them.
LEMMA NewIds ==
  ASSUME next \in Nat, next' \in Nat, next <= next', IInv
  PROVE  /\ Members(Fresh) \cap (Members(queue) \cup done \cup dropped) = {}
         /\ \A x \in Members(queue) \cup done \cup dropped \cup Members(Fresh) : x < next'
<1>1. \A x \in Members(queue) \cup done \cup dropped : x < next
  BY DEF IInv
<1>2. \A x \in Members(queue) \cup done \cup dropped : x \in Nat
  <2>1. \A x \in Members(queue) : x \in Nat
    BY DEF IInv, Members
  <2> QED
    BY <2>1 DEF IInv
<1>3. \A x \in Members(Fresh) : x \in Nat /\ next <= x /\ x < next'
  BY FreshIds DEF Members
<1> QED
  BY <1>1, <1>2, <1>3

\* A hang-up takes the first new id to a place behind commands of the queue.
LEMMA InsertFresh ==
  ASSUME next \in Nat, next' \in Nat, next < next', queue \in Seq(Nat), queue # <<>>,
         Distinct(Tail(queue)), \A x \in Members(Tail(queue)) : x < next, Cancel
  PROVE  /\ queue' \in Seq(Nat)
         /\ Distinct(queue')
         /\ Members(queue') = Members(Tail(queue)) \cup Members(Fresh)
<1>1. PICK k \in 1 .. Len(queue) :
        queue' = SubSeq(queue, 2, k) \o <<next>> \o SubSeq(queue, k + 1, Len(queue))
                   \o Tail(Fresh)
  BY DEF Cancel
<1> DEFINE a == SubSeq(queue, 2, k)
           b == SubSeq(queue, k + 1, Len(queue))
           n == <<next>>
           f == Tail(Fresh)
<1>2. a \in Seq(Nat) /\ b \in Seq(Nat) /\ n \in Seq(Nat)
  OBVIOUS
<1>3. a \o b = Tail(queue)
  <2>1. 2 \in 1 .. Len(queue) + 1 /\ k \in 2 - 1 .. Len(queue) /\ Len(queue) \in k .. Len(queue)
    BY <1>1
  <2>2. a \o b = SubSeq(queue, 2, Len(queue))
    BY <2>1, ConcatAdjacentSubSeq
  <2> QED
    BY <2>2, TailIsSubSeq
<1>4. /\ f \in Seq(Nat) /\ n \o f = Fresh /\ Distinct(Fresh)
      /\ \A x \in Members(Fresh) : x \in Nat /\ next <= x /\ x < next'
  <2>1. /\ Fresh \in Seq(Nat) /\ Distinct(Fresh)
        /\ \A x \in Members(Fresh) : x \in Nat /\ next <= x /\ x < next'
    BY FreshIds
  <2>2. Fresh # <<>> /\ Head(Fresh) = next
    BY FreshIds
  <2> QED
    BY <2>1, <2>2
<1> HIDE DEF a, b, n, f
<1>5. queue' = ((a \o n) \o b) \o f
  BY <1>1 DEF a, b, n, f
<1>6. Members(n) \cup Members(f) = Members(Fresh) /\ Distinct(n) /\ Distinct(f)
      /\ Members(n) \cap Members(f) = {}
  <2>1. Members(n \o f) = Members(n) \cup Members(f)
    <3>1. n \in Seq(Nat) /\ f \in Seq(Nat)
      BY <1>2, <1>4
    <3> QED
      BY <3>1, MembersConcat
  <2>2. Distinct(n \o f) => Distinct(n) /\ Distinct(f) /\ Members(n) \cap Members(f) = {}
    BY <1>2, <1>4, DistinctConcat
  <2> QED
    BY <1>4, <2>1, <2>2
<1>7. Members(a) \cup Members(b) = Members(Tail(queue)) /\ Distinct(a) /\ Distinct(b)
      /\ Members(a) \cap Members(b) = {}
  <2>1. Members(a \o b) = Members(a) \cup Members(b)
    BY <1>2, MembersConcat
  <2>2. Distinct(a \o b) => Distinct(a) /\ Distinct(b) /\ Members(a) \cap Members(b) = {}
    BY <1>2, DistinctConcat
  <2> QED
    BY <1>3, <2>1, <2>2
<1>8. Members(Tail(queue)) \cap Members(Fresh) = {}
  <2>1. \A x \in Members(a) \cup Members(b) : x \in Nat
    <3>1. Members(a) \subseteq Nat
      BY <1>2, MembersIn
    <3>2. Members(b) \subseteq Nat
      BY <1>2, MembersIn
    <3> QED
      BY <3>1, <3>2
  <2>2. \A x \in Members(n) \cup Members(f) : x \in Nat
    BY <1>4, <1>6
  <2> QED
    BY <1>4, <1>6, <1>7, <2>1, <2>2
<1>9. /\ a \o n \in Seq(Nat) /\ Distinct(a \o n)
      /\ Members(a \o n) = Members(a) \cup Members(n)
  <2>1. Members(a) \cap Members(n) = {}
    BY <1>6, <1>7, <1>8
  <2> QED
    BY <1>2, <1>6, <1>7, <2>1, ConcatProperties, MembersConcat, DistinctConcat
<1> DEFINE an == a \o n
<1> HIDE DEF an
<1>10. /\ an \o b \in Seq(Nat) /\ Distinct(an \o b)
       /\ Members(an \o b) = Members(a) \cup Members(n) \cup Members(b)
  <2>1. an \in Seq(Nat) /\ Distinct(an) /\ Members(an) = Members(a) \cup Members(n)
    BY <1>9 DEF an
  <2>2. Members(an) \cap Members(b) = {}
    BY <1>6, <1>7, <1>8, <2>1
  <2> QED
    BY <1>2, <1>7, <2>1, <2>2, ConcatProperties, MembersConcat, DistinctConcat
<1> DEFINE anb == an \o b
<1> HIDE DEF anb
<1>11. /\ anb \o f \in Seq(Nat) /\ Distinct(anb \o f)
       /\ Members(anb \o f) = Members(a) \cup Members(n) \cup Members(b) \cup Members(f)
  <2>1. anb \in Seq(Nat) /\ Distinct(anb)
        /\ Members(anb) = Members(a) \cup Members(n) \cup Members(b)
    BY <1>10 DEF anb
  <2>2. Members(anb) \cap Members(f) = {}
    BY <1>6, <1>7, <1>8, <2>1
  <2> QED
    BY <1>4, <1>6, <2>1, <2>2, ConcatProperties, MembersConcat, DistinctConcat
<1> QED
  BY <1>5, <1>6, <1>7, <1>11 DEF an, anb

\* The first command leaves the queue, for done or for dropped, and new ones may
\* come.
LEMMA LeaveKeeps ==
  ASSUME IInv, queue # <<>>, next' \in Nat, next <= next',
         queue' \in Seq(Nat), Distinct(queue'),
         Members(queue') \subseteq Members(Tail(queue)) \cup Members(Fresh),
         \/ done' = done \cup {Head(queue)} /\ dropped' = dropped
         \/ dropped' = dropped \cup {Head(queue)} /\ done' = done
  PROVE  IInv'
<1> DEFINE h == Head(queue)
           m == Members(queue)
           t == Members(Tail(queue))
           f == Members(Fresh)
<1>1. next \in Nat
  BY DEF IInv
<1>2. h \in Nat /\ h \notin t /\ m = {h} \cup t /\ h < next /\ h \notin done \cup dropped
  BY FirstAndRest
<1>3. /\ f \cap (m \cup done \cup dropped) = {}
      /\ \A x \in m \cup done \cup dropped \cup f : x < next'
  BY <1>1, NewIds
<1>4. m \cap (done \cup dropped) = {} /\ done \cap dropped = {}
      /\ done \subseteq Nat /\ dropped \subseteq Nat
  BY DEF IInv
<1>5. Members(queue') \subseteq t \cup f
  OBVIOUS
<1>6. \/ done' = done \cup {h} /\ dropped' = dropped
      \/ dropped' = dropped \cup {h} /\ done' = done
  OBVIOUS
<1> HIDE DEF h, m, t, f
<1>7. done' \subseteq Nat /\ dropped' \subseteq Nat /\ done' \cap dropped' = {}
  BY <1>2, <1>4, <1>6
<1>8. \A x \in Members(queue') \cup done' \cup dropped' : x < next'
  BY <1>2, <1>3, <1>5, <1>6
<1>9. Members(queue') \cap (done' \cup dropped') = {}
  BY <1>2, <1>3, <1>4, <1>5, <1>6
<1>10. Members(queue)' = Members(queue') /\ (Distinct(queue)' <=> Distinct(queue'))
  BY DEF Members, Distinct
<1> QED
  BY <1>7, <1>8, <1>9, <1>10 DEF IInv

\* Every step of the queue keeps the invariant.
LEMMA StepIInv == IInv /\ [Next]_vars => IInv'
<1> SUFFICES ASSUME IInv, [Next]_vars PROVE IInv'
  OBVIOUS
<1>1. CASE Submit
  <2>1. next \in Nat /\ next' \in Nat /\ next <= next'
    BY <1>1 DEF Submit, IInv
  <2>2. queue' = queue \o Fresh /\ UNCHANGED <<done, dropped>>
    BY <1>1 DEF Submit
  <2>3. /\ queue' \in Seq(Nat) /\ Distinct(queue')
        /\ Members(queue') = Members(queue) \cup Members(Fresh)
    BY <2>1, <2>2, AddFresh DEF IInv
  <2> QED
    BY <2>1, <2>2, <2>3, NewIds DEF IInv
<1>2. CASE Finish
  <2>1. next \in Nat /\ next' \in Nat /\ next <= next'
    BY <1>2 DEF Finish, IInv
  <2>2. /\ queue # <<>> /\ queue' = Tail(queue) \o Fresh
        /\ done' = done \cup {Head(queue)} /\ dropped' = dropped
    BY <1>2 DEF Finish
  <2>3. /\ Tail(queue) \in Seq(Nat) /\ Distinct(Tail(queue))
        /\ Members(Tail(queue)) \subseteq Members(queue)
    BY <2>2, FirstAndRest
  <2>4. \A x \in Members(Tail(queue)) : x < next
    BY <2>3 DEF IInv
  <2>5. /\ queue' \in Seq(Nat) /\ Distinct(queue')
        /\ Members(queue') = Members(Tail(queue)) \cup Members(Fresh)
    BY <2>1, <2>2, <2>3, <2>4, AddFresh
  <2> QED
    BY <2>1, <2>2, <2>5, LeaveKeeps
<1>3. CASE Cancel
  <2>1. next \in Nat /\ next' \in Nat /\ next < next' /\ next <= next'
    BY <1>3 DEF Cancel, IInv
  <2>2. /\ queue # <<>> /\ done' = done \cup {Head(queue)} /\ dropped' = dropped
    BY <1>3 DEF Cancel
  <2>3. /\ Tail(queue) \in Seq(Nat) /\ Distinct(Tail(queue))
        /\ Members(Tail(queue)) \subseteq Members(queue)
    BY <2>2, FirstAndRest
  <2>4. queue \in Seq(Nat) /\ \A x \in Members(Tail(queue)) : x < next
    BY <2>3 DEF IInv
  <2>5. /\ queue' \in Seq(Nat) /\ Distinct(queue')
        /\ Members(queue') = Members(Tail(queue)) \cup Members(Fresh)
    BY <1>3, <2>1, <2>2, <2>3, <2>4, InsertFresh
  <2> QED
    BY <2>1, <2>2, <2>5, LeaveKeeps
<1>4. CASE GiveUp
  <2>1. /\ queue # <<>> /\ queue' = Tail(queue)
        /\ dropped' = dropped \cup {Head(queue)} /\ UNCHANGED <<next, done>>
    BY <1>4 DEF GiveUp
  <2>2. Tail(queue) \in Seq(Nat) /\ Distinct(Tail(queue))
    BY <2>1, FirstAndRest
  <2>3. next' \in Nat /\ next <= next'
    BY <2>1 DEF IInv
  <2>4. queue' \in Seq(Nat) /\ Distinct(queue') /\ Members(queue') = Members(Tail(queue))
    BY <2>1, <2>2
  <2> QED
    BY <2>1, <2>3, <2>4, LeaveKeeps
<1>5. CASE UNCHANGED vars
  BY <1>5 DEF vars, IInv, Distinct, Members
<1> QED
  BY <1>1, <1>2, <1>3, <1>4, <1>5 DEF Next

\* No command is queued twice, and none is freed twice or used after it was
\* freed: its callback runs, or it is given up, at most once.
THEOREM FreedOnceHolds == Spec => []FreedOnce
<1>1. Init => IInv
  <2> SUFFICES ASSUME Init PROVE IInv
    OBVIOUS
  <2>1. next \in Nat /\ next - 1 \in Nat /\ done = {} /\ dropped = {}
    BY DEF Init
  <2>2. queue \in Seq(Nat) /\ Len(queue) = next - 1
        /\ \A i \in 1 .. next - 1 : queue[i] = i
    BY <2>1 DEF Init
  <2>3. Distinct(queue) /\ \A x \in Members(queue) : x < next
    BY <2>1, <2>2 DEF Distinct, Members
  <2> QED
    BY <2>1, <2>2, <2>3 DEF IInv
<1>2. IInv => FreedOnce
  BY DEF IInv, FreedOnce, Distinct, Members
<1> QED
  BY <1>1, <1>2, StepIInv, PTL DEF Spec
=============================================================================
