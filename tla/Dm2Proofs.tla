----------------------------- MODULE Dm2Proofs -----------------------------
(* Proofs about the test sequencer, for all suites of tests and however    *)
(* many clicks, log entries and processes there are.                       *)
EXTENDS Dm2, SequenceTheorems, FiniteSetTheorems, TLAPS

\* The items of which the last verdict in log f is a pass.
PassedOf(f) ==
  {i \in Items : \E k \in 1 .. Len(f) :
     /\ f[k] = [item |-> i, pass |-> TRUE]
     /\ \A l \in k + 1 .. Len(f) : f[l].item # i}

\* The item that comes after log f, and that f is in sequence.
NextItem(f) == IF f = <<>> THEN <<1, 1>> ELSE Successor(f[Len(f)].item)

Sequenced(f) ==
  \A k \in 1 .. Len(f) : f[k].item = IF k = 1 THEN <<1, 1>> ELSE Successor(f[k - 1].item)

\* The memory m waits for the verdict that comes after log f, or is in front of
\* the first test of its suite.
At(m, f) == NextItem(f) = IF m.test = 0 THEN <<m.suite, 1>> ELSE <<m.suite, m.test>>

\* The memory m of a process in state st is right: for log f, after c clicks,
\* and if no read failed (~ fl).
Good(m, st, f, c, fl) ==
  /\ m \in Memory /\ m.test <= Len(Suites[m.suite])
  /\ st \in {"busy", "watch"} => m.running \in Items /\ m.running[1] = m.suite
  /\ c = 0 => /\ \A i \in Items : m.log[i] \in {None, i}
              /\ st \in {"busy", "watch"} => m.running = <<m.suite, m.test>>
  /\ ~ fl /\ st \in {"idle", "busy", "watch"} =>
       m.passed = PassedOf(f) /\ (c = 0 => At(m, f))

Typed ==
  /\ status \in [Pids -> {"none", "idle", "busy", "watch", "dead"}]
  /\ mem \in [Pids -> Memory] /\ parent \in [Pids -> Pids]
  /\ file \in Seq(Entry) /\ clicks \in Nat

\* Until a read fails one process is the interface, and a watchdog is its child and
\* the one that it knows.
OneInterface ==
  ~ failed => \E u \in Pids :
    /\ status[u] \in {"idle", "busy"}
    /\ \A q \in Pids \ {u} : status[q] \in {"none", "dead", "watch"}
    /\ \A q \in Pids : status[q] = "watch" =>
         status[u] = "busy" /\ mem[u].pid = q /\ parent[q] = u

IInv ==
  /\ Typed /\ OneInterface
  /\ \A p \in Pids : Good(mem[p], status[p], file, clicks, failed)
  /\ clicks = 0 /\ ~ failed => Sequenced(file)
  /\ ReportServed
-----------------------------------------------------------------------------
\* Suites are not empty, and items are pairs.
LEMMA SuiteFacts ==
  /\ Len(Suites) \in Nat /\ Len(Suites) >= 1
  /\ \A s \in 1 .. Len(Suites) : Len(Suites[s]) \in Nat /\ Len(Suites[s]) >= 1
<1>1. Suites \in Seq(Seq(Kinds) \ {<<>>}) /\ Suites # <<>>
  BY Dm2Assumption
<1>2. Len(Suites) \in Nat /\ Len(Suites) >= 1
  BY <1>1, EmptySeq
<1>3. ASSUME NEW s \in 1 .. Len(Suites) PROVE Len(Suites[s]) \in Nat /\ Len(Suites[s]) >= 1
  <2>1. Suites[s] \in Seq(Kinds) /\ Suites[s] # <<>>
    BY <1>1
  <2> QED
    BY <2>1, EmptySeq
<1> QED
  BY <1>2, <1>3

\* The places of the suites are the items.
LEMMA ItemFacts ==
  /\ \A s \in 1 .. Len(Suites) : \A t \in 1 .. Len(Suites[s]) : <<s, t>> \in Items
  /\ \A i \in Items : /\ i = <<i[1], i[2]>> /\ i # None
                      /\ i[1] \in 1 .. Len(Suites) /\ i[2] \in 1 .. Len(Suites[i[1]])
BY DEF Items, None

\* An item's successor is one too; only the last one is its own.
LEMMA SuccessorFacts ==
  ASSUME NEW i \in Items
  PROVE  /\ Successor(i) \in Items
         /\ i[2] < Len(Suites[i[1]]) => Successor(i) = <<i[1], i[2] + 1>>
         /\ i[2] >= Len(Suites[i[1]]) /\ i[1] < Len(Suites) => Successor(i) = <<i[1] + 1, 1>>
         /\ i[2] >= Len(Suites[i[1]]) /\ i[1] >= Len(Suites) => Successor(i) = i
         /\ Successor(i) = i => i[2] >= Len(Suites[i[1]]) /\ i[1] >= Len(Suites)
<1>1. /\ i = <<i[1], i[2]>> /\ i[1] \in 1 .. Len(Suites) /\ i[2] \in 1 .. Len(Suites[i[1]])
      /\ Len(Suites) \in Nat /\ Len(Suites[i[1]]) \in Nat
  BY ItemFacts, SuiteFacts
<1>2. CASE i[2] < Len(Suites[i[1]])
  <2>1. Successor(i) = <<i[1], i[2] + 1>> /\ i[2] + 1 \in 1 .. Len(Suites[i[1]])
    BY <1>1, <1>2 DEF Successor
  <2>2. <<i[1], i[2] + 1>> # i
    <3>1. <<i[1], i[2] + 1>>[2] = i[2] + 1 /\ i[2] + 1 # i[2]
      BY <1>1
    <3> QED
      BY <3>1
  <2> QED
    BY <1>1, <1>2, <2>1, <2>2, ItemFacts
<1>3. CASE ~ (i[2] < Len(Suites[i[1]])) /\ i[1] < Len(Suites)
  <2>1. /\ Successor(i) = <<i[1] + 1, 1>> /\ i[1] + 1 \in 1 .. Len(Suites)
        /\ i[2] >= Len(Suites[i[1]])
    BY <1>1, <1>3 DEF Successor
  <2>2. 1 \in 1 .. Len(Suites[i[1] + 1])
    BY <2>1, SuiteFacts
  <2>3. <<i[1] + 1, 1>> # i
    <3>1. <<i[1] + 1, 1>>[1] = i[1] + 1 /\ i[1] + 1 # i[1]
      BY <1>1
    <3> QED
      BY <3>1
  <2>4. <<i[1] + 1, 1>> \in Items
    BY <2>1, <2>2, ItemFacts
  <2> QED
    BY <1>1, <1>3, <2>1, <2>3, <2>4
<1>4. CASE ~ (i[2] < Len(Suites[i[1]])) /\ ~ (i[1] < Len(Suites))
  <2>1. Successor(i) = i /\ i[2] >= Len(Suites[i[1]]) /\ i[1] >= Len(Suites)
    BY <1>1, <1>4 DEF Successor
  <2> QED
    BY <1>1, <1>4, <2>1
<1> QED
  BY <1>2, <1>3, <1>4

Passes(e) == e.pass = TRUE

\* What a verdict does to the log.
LEMMA Verdict ==
  ASSUME NEW f \in Seq(Entry), NEW e \in Entry
  PROVE  LET g == Append(f, e)
             i == e.item
         IN  /\ g \in Seq(Entry) /\ g # <<>>
             /\ g[Len(g)].item = i /\ NextItem(g) = Successor(i)
             /\ Passes(e) => PassedOf(g) = PassedOf(f) \cup {i}
             /\ ~ Passes(e) => PassedOf(g) = PassedOf(f) \ {i}
             /\ Sequenced(f) /\ NextItem(f) = i => Sequenced(g)
<1> DEFINE n == Len(f)
           g == Append(f, e)
           i == e.item
<1>1. e.item = i /\ i \in Items
  BY DEF Entry
<1>2. n \in Nat
  OBVIOUS
<1>3. /\ g \in Seq(Entry) /\ Len(g) = n + 1 /\ g[n + 1] = e
      /\ \A k \in 1 .. n : g[k] = f[k]
  BY <1>1
<1>e. \A j : (e = [item |-> j, pass |-> TRUE]) <=> (j = i /\ Passes(e))
  <2>1. ASSUME NEW j, e = [item |-> j, pass |-> TRUE] PROVE j = i /\ Passes(e)
    BY <1>1, <2>1 DEF Passes
  <2>2. ASSUME NEW j, j = i, Passes(e) PROVE e = [item |-> j, pass |-> TRUE]
    BY <1>1, <2>2 DEF Entry, Passes
  <2> QED
    BY <2>1, <2>2
<1>4. g # <<>> /\ n + 1 \in 1 .. n + 1
  BY <1>2, <1>3
<1>5. NextItem(g) = Successor(i)
  BY <1>1, <1>3, <1>4 DEF NextItem
<1>6. ASSUME NEW j \in Items
      PROVE  j \in PassedOf(g) <=> ((j = i /\ Passes(e)) \/ (j # i /\ j \in PassedOf(f)))
  <2>1. CASE j = i
    <3>1. \A k \in 1 .. n : ~ (\A l \in k + 1 .. n + 1 : g[l].item # j)
      <4>1. \A k \in 1 .. n : n + 1 \in k + 1 .. n + 1
        BY <1>2
      <4> QED
        BY <1>1, <1>3, <2>1, <4>1
    <3>2. ASSUME Passes(e) PROVE j \in PassedOf(g)
      <4>1. g[n + 1] = [item |-> j, pass |-> TRUE]
        BY <1>3, <1>e, <2>1, <3>2
      <4>2. \A l \in n + 1 + 1 .. n + 1 : FALSE
        BY <1>2
      <4> QED
        BY <1>3, <1>4, <4>1, <4>2 DEF PassedOf
    <3>3. ASSUME j \in PassedOf(g) PROVE Passes(e)
      <4>1. PICK k \in 1 .. n + 1 : /\ g[k] = [item |-> j, pass |-> TRUE]
                                    /\ \A l \in k + 1 .. n + 1 : g[l].item # j
        BY <1>3, <3>3 DEF PassedOf
      <4>2. k = n + 1
        BY <1>2, <3>1, <4>1
      <4> QED
        BY <1>3, <1>e, <4>1, <4>2
    <3> QED
      BY <2>1, <3>2, <3>3
  <2>2. CASE j # i
    <3>1. ASSUME j \in PassedOf(g) PROVE j \in PassedOf(f)
      <4>1. PICK k \in 1 .. n + 1 : /\ g[k] = [item |-> j, pass |-> TRUE]
                                    /\ \A l \in k + 1 .. n + 1 : g[l].item # j
        BY <1>3, <3>1 DEF PassedOf
      <4>2. k \in 1 .. n
        BY <1>2, <1>3, <1>e, <2>2, <4>1
      <4>3. \A l \in k + 1 .. n : l \in k + 1 .. n + 1 /\ l \in 1 .. n
        BY <1>2, <4>2
      <4>4. f[k] = [item |-> j, pass |-> TRUE] /\ \A l \in k + 1 .. n : f[l].item # j
        BY <1>3, <4>1, <4>2, <4>3
      <4> QED
        BY <4>2, <4>4 DEF PassedOf
    <3>2. ASSUME j \in PassedOf(f) PROVE j \in PassedOf(g)
      <4>1. PICK k \in 1 .. n : /\ f[k] = [item |-> j, pass |-> TRUE]
                                /\ \A l \in k + 1 .. n : f[l].item # j
        BY <3>2 DEF PassedOf
      <4>2. \A l \in k + 1 .. n + 1 : l = n + 1 \/ (l \in k + 1 .. n /\ l \in 1 .. n)
        BY <1>2, <4>1
      <4>3. \A l \in k + 1 .. n + 1 : g[l].item # j
        BY <1>1, <1>3, <2>2, <4>1, <4>2
      <4>4. k \in 1 .. Len(g) /\ g[k] = [item |-> j, pass |-> TRUE]
        BY <1>2, <1>3, <4>1
      <4> QED
        BY <1>3, <4>3, <4>4 DEF PassedOf
    <3> QED
      BY <2>2, <3>1, <3>2
  <2> QED
    BY <2>1, <2>2
<1>7. /\ Passes(e) => PassedOf(g) = PassedOf(f) \cup {i}
      /\ ~ Passes(e) => PassedOf(g) = PassedOf(f) \ {i}
  <2>1. PassedOf(g) \subseteq Items /\ PassedOf(f) \subseteq Items
    BY DEF PassedOf
  <2>2. ASSUME Passes(e) PROVE PassedOf(g) = PassedOf(f) \cup {i}
    BY <1>1, <1>6, <2>1, <2>2
  <2>3. ASSUME ~ Passes(e) PROVE PassedOf(g) = PassedOf(f) \ {i}
    BY <1>6, <2>1, <2>3
  <2> QED
    BY <2>2, <2>3
<1>8. ASSUME Sequenced(f), NextItem(f) = i PROVE Sequenced(g)
  <2>1. ASSUME NEW k \in 1 .. n + 1
        PROVE  g[k].item = IF k = 1 THEN <<1, 1>> ELSE Successor(g[k - 1].item)
    <3>1. CASE k \in 1 .. n
      <4>1. k = 1 \/ k - 1 \in 1 .. n
        BY <1>2, <3>1
      <4> QED
        BY <1>3, <1>8, <3>1, <4>1 DEF Sequenced
    <3>2. CASE k = n + 1 /\ f = <<>>
      <4>1. n = 0
        BY <3>2
      <4> QED
        BY <1>1, <1>3, <1>8, <3>2, <4>1 DEF NextItem
    <3>3. CASE k = n + 1 /\ f # <<>>
      <4>1. n >= 1 /\ k # 1 /\ k - 1 = n /\ n \in 1 .. n
        BY <1>2, <3>3, EmptySeq
      <4> QED
        BY <1>1, <1>3, <1>8, <3>3, <4>1 DEF NextItem
    <3> QED
      BY <1>2, <2>1, <3>1, <3>2, <3>3
  <2> QED
    BY <1>3, <2>1 DEF Sequenced
<1> QED
  BY <1>1, <1>3, <1>4, <1>5, <1>7, <1>8
-----------------------------------------------------------------------------
\* What is done to the memory of a process.
LEMMA SetActive ==
  ASSUME NEW m \in Memory, NEW i \in Items
  PROVE  LET n == set_active_test(m, i)
         IN  /\ n \in Memory /\ n.suite = m.suite /\ n.test = i[2]
             /\ n.passed = m.passed /\ n.log = m.log
<1>1. i[2] \in Nat
  BY ItemFacts, SuiteFacts
<1> QED
  BY <1>1 DEF set_active_test, Memory

\* Storing a log changes one entry: that of the active test.
LEMMA StoredLog ==
  ASSUME NEW m \in Memory, NEW i \in Items, m.test <= Len(Suites[m.suite])
  PROVE  LET n == Stored(m, i)
         IN  /\ n \in Memory /\ n.suite = m.suite /\ n.test = m.test
             /\ n.passed = m.passed /\ n.running = m.running /\ n.pid = m.pid
             /\ \A j \in Items : n.log[j] = m.log[j] \/ (j = <<m.suite, m.test>> /\ n.log[j] = i)
<1>1. m.log \in [Items -> Items \cup {None}]
  BY DEF Memory
<1>2. [m.log EXCEPT ![<<m.suite, m.test>>] = i] \in [Items -> Items \cup {None}]
  BY <1>1
<1> QED
  BY <1>1, <1>2 DEF Stored, Memory

\* The memory of a process that has started a test: results and logs are as before.
Begins(n, m, i) ==
  /\ n \in Memory /\ n.suite = m.suite /\ n.test = m.test
  /\ n.passed = m.passed /\ n.log = m.log /\ n.running = i

\* A test is over, or it has begun; either way the memory is right.
LEMMA OverGood ==
  ASSUME NEW m \in Memory, NEW i \in Items, i[1] = m.suite, NEW f, NEW c, NEW fl,
         c = 0 => (\A j \in Items : m.log[j] \in {None, j}) /\ i = <<m.suite, m.test>>,
         ~ fl => m.passed = PassedOf(f) /\ (c = 0 => At(m, f))
  PROVE  Good(set_active_test(m, i), "idle", f, c, fl)
<1> DEFINE n == set_active_test(m, i)
<1>1. /\ n \in Memory /\ n.suite = m.suite /\ n.test = i[2]
      /\ n.passed = m.passed /\ n.log = m.log
  BY SetActive
<1>2. i[2] <= Len(Suites[m.suite])
  <2>1. i[2] \in 1 .. Len(Suites[i[1]]) /\ Len(Suites[i[1]]) \in Nat
    BY ItemFacts, SuiteFacts
  <2> QED
    BY <2>1
<1> HIDE DEF n
<1>3. c = 0 => n.test = m.test
  BY <1>1
<1> QED
  BY <1>1, <1>2, <1>3 DEF Good, At, n

\* A test has begun.
LEMMA BegunGood ==
  ASSUME NEW m \in Memory, NEW i \in Items, i[1] = m.suite, NEW f, NEW c, NEW fl,
         m.test <= Len(Suites[m.suite]), NEW n, Begins(n, m, i), NEW st,
         c = 0 => (\A j \in Items : m.log[j] \in {None, j}) /\ i = <<m.suite, m.test>>,
         ~ fl => m.passed = PassedOf(f) /\ (c = 0 => At(m, f))
  PROVE  Good(n, st, f, c, fl)
BY DEF Good, At, Begins

\* What starting a test does: the process is in the main loop again, and nothing
\* else has changed, or it is in a GPS test and has a watchdog.
Quietly(p) ==
  /\ UNCHANGED <<status, parent>>
  /\ \A q \in Pids \ {p} : mem'[q] = mem[q]

Forked(p, c) ==
  /\ c \in Pids \ {p} /\ status[c] = "none"
  /\ status' = [status EXCEPT ![p] = "busy", ![c] = "watch"]
  /\ parent' = [parent EXCEPT ![c] = p]
  /\ mem'[p].pid = c
  /\ \A q \in Pids \ {p, c} : mem'[q] = mem[q]

\* The two ways of a run: to the end, or up to the fork of a watchdog.
LEMMA RunGood ==
  ASSUME Typed, NEW p \in Pids, status[p] = "idle", NEW m \in Memory, NEW i \in Items,
         NEW f, NEW c, NEW fl, Run(p, m, i, f),
         i[1] = m.suite, m.test <= Len(Suites[m.suite]),
         c = 0 => (\A j \in Items : m.log[j] \in {None, j}) /\ i = <<m.suite, m.test>>,
         ~ fl => m.passed = PassedOf(f) /\ (c = 0 => At(m, f))
  PROVE  /\ mem' \in [Pids -> Memory]
         /\ Good(mem'[p], status'[p], f, c, fl)
         /\ \/ Quietly(p)
            \/ \E d \in Pids : Forked(p, d) /\ Good(mem'[d], "watch", f, c, fl)
         /\ UNCHANGED <<copied, server>> \/ (copied' = Len(f) /\ server' = TRUE)
<1>t. mem \in [Pids -> Memory]
  BY DEF Typed
<1>1. ASSUME NEW n \in Memory, mem' = [mem EXCEPT ![p] = set_active_test(n, i)],
             UNCHANGED <<status, parent>>, n.suite = m.suite,
             UNCHANGED <<copied, server>> \/ (copied' = Len(f) /\ server' = TRUE),
             c = 0 => (\A j \in Items : n.log[j] \in {None, j}) /\ i = <<n.suite, n.test>>,
             ~ fl => n.passed = PassedOf(f) /\ (c = 0 => At(n, f))
      PROVE  /\ mem' \in [Pids -> Memory] /\ Good(mem'[p], status'[p], f, c, fl) /\ Quietly(p)
             /\ UNCHANGED <<copied, server>> \/ (copied' = Len(f) /\ server' = TRUE)
  <2> DEFINE over == set_active_test(n, i)
  <2>1. Good(over, "idle", f, c, fl)
    BY <1>1, OverGood
  <2>2. over \in Memory /\ mem' = [mem EXCEPT ![p] = over]
    BY <1>1, SetActive
  <2> HIDE DEF over
  <2>3. mem'[p] = over /\ mem' \in [Pids -> Memory] /\ \A q \in Pids \ {p} : mem'[q] = mem[q]
    BY <2>2, <1>t
  <2>4. status'[p] = "idle" /\ Quietly(p)
    BY <1>1, <2>3 DEF Quietly
  <2> QED
    BY <1>1, <2>1, <2>3, <2>4
<1>2. CASE Kind(i) \in {"plain", "indexed"}
  <2>k. Kind(i) \notin {"gps", "cn"} /\ Kind(i) # "server"
    BY <1>2
  <2>p. PICK stores \in IF Kind(i) = "indexed" THEN BOOLEAN ELSE {FALSE} :
          mem' = [mem EXCEPT ![p] = set_active_test(IF stores THEN Stored(m, i) ELSE m, i)]
    BY Zenon, <2>k DEF Run
  <2> DEFINE n == IF stores THEN Stored(m, i) ELSE m
  <2>1. n \in {m, Stored(m, i)} /\ mem' = [mem EXCEPT ![p] = set_active_test(n, i)]
    BY <2>p
  <2> HIDE DEF n
  <2>2. UNCHANGED <<status, parent, copied, server>>
    BY Zenon, <2>k DEF Run
  <2>3. /\ Stored(m, i) \in Memory
        /\ Stored(m, i).suite = m.suite /\ Stored(m, i).test = m.test
        /\ Stored(m, i).passed = m.passed
        /\ \A j \in Items : \/ Stored(m, i).log[j] = m.log[j]
                            \/ j = <<m.suite, m.test>> /\ Stored(m, i).log[j] = i
    BY StoredLog
  <2>4. /\ n \in Memory /\ n.suite = m.suite /\ n.test = m.test /\ n.passed = m.passed
        /\ \A j \in Items : n.log[j] = m.log[j] \/ (j = <<m.suite, m.test>> /\ n.log[j] = i)
    <3>1. CASE n = m
      BY <3>1
    <3>2. CASE n = Stored(m, i)
      BY <3>2, <2>3
    <3> QED
      BY <2>1, <3>1, <3>2
  <2>5. /\ c = 0 => (\A j \in Items : n.log[j] \in {None, j}) /\ i = <<n.suite, n.test>>
        /\ ~ fl => n.passed = PassedOf(f) /\ (c = 0 => At(n, f))
    BY <2>4 DEF At
  <2> QED
    BY <1>1, <2>1, <2>2, <2>4, <2>5
<1>3. CASE Kind(i) = "server"
  <2>1. /\ mem' = [mem EXCEPT ![p] = set_active_test(m, i)] /\ UNCHANGED <<status, parent>>
        /\ copied' = Len(f) /\ server' = TRUE
    BY <1>3 DEF Run, do_gsm_log_on_test, Copied
  <2> QED
    BY <1>1, <2>1
<1>4. CASE Kind(i) \in {"gps", "cn"}
  <2>k. Kind(i) \notin {"plain", "indexed"} /\ Kind(i) # "server"
    BY <1>4
  <2>1. PICK d \in Pids :
          /\ status[d] = "none"
          /\ status' = [status EXCEPT ![p] = "busy", ![d] = "watch"]
          /\ mem' = [mem EXCEPT ![p] = [m EXCEPT !.running = i, !.pid = d],
                                ![d] = [m EXCEPT !.running = i, !.pid = 0]]
          /\ parent' = [parent EXCEPT ![d] = p]
    BY Zenon, <2>k DEF Run
  <2>2. UNCHANGED <<copied, server>>
    BY Zenon, <2>k DEF Run
  <2> DEFINE mp == [m EXCEPT !.running = i, !.pid = d]
             md == [m EXCEPT !.running = i, !.pid = 0]
  <2>3. d # p /\ d \in Nat /\ 0 \in Nat
    BY <2>1 DEF Pids
  <2>4. Begins(mp, m, i) /\ mp.pid = d /\ Begins(md, m, i)
    <3>1. Begins(mp, m, i) /\ mp.pid = d
      BY <2>3 DEF Memory, Begins
    <3>2. Begins(md, m, i)
      BY <2>3 DEF Memory, Begins
    <3> QED
      BY <3>1, <3>2
  <2> HIDE DEF mp, md
  <2>5. Good(mp, "busy", f, c, fl) /\ Good(md, "watch", f, c, fl)
    BY <2>4, BegunGood
  <2>t. mp \in Memory /\ md \in Memory
    BY <2>4 DEF Begins
  <2>6. /\ mem' \in [Pids -> Memory] /\ mem'[p] = mp /\ mem'[d] = md
        /\ \A q \in Pids \ {p, d} : mem'[q] = mem[q]
    <3>1. mem' = [mem EXCEPT ![p] = mp, ![d] = md]
      BY <2>1 DEF mp, md
    <3> QED
      BY <1>t, <2>3, <2>t, <3>1
  <2>7. status'[p] = "busy"
    BY <2>1, <2>3 DEF Typed
  <2>8. Forked(p, d)
    BY <2>1, <2>3, <2>4, <2>6 DEF Forked
  <2> QED
    BY <2>2, <2>5, <2>6, <2>7, <2>8
<1>5. Kind(i) \in {"plain", "indexed"} \/ Kind(i) = "server" \/ Kind(i) \in {"gps", "cn"}
  BY Zenon DEF Run
<1> QED
  BY <1>2, <1>3, <1>4, <1>5
-----------------------------------------------------------------------------
\* What the invariant says of the processes.
Processes == /\ Typed /\ OneInterface
             /\ \A q \in Pids : Good(mem[q], status[q], file, clicks, failed)

\* What an idle process does leaves the memory of the others right.
LEMMA OthersGood ==
  ASSUME Processes, NEW p \in Pids, status[p] = "idle",
         clicks' = clicks \/ clicks' # 0, failed' = failed, NEW q \in Pids \ {p}
  PROVE  Good(mem[q], status[q], file', clicks', failed')
<1>1. Good(mem[q], status[q], file, clicks, failed)
  BY DEF Processes
<1>2. ~ failed => status[q] \in {"none", "dead"}
  BY DEF Processes, OneInterface
<1> QED
  BY <1>1, <1>2 DEF Good

\* A run keeps what holds of all processes.
LEMMA AfterRun ==
  ASSUME Processes, NEW p \in Pids, status[p] = "idle", NEW m \in Memory, NEW i \in Items,
         Run(p, m, i, file'), file' \in Seq(Entry), clicks' \in Nat,
         clicks' = clicks \/ clicks' # 0, failed' = failed,
         i[1] = m.suite, m.test <= Len(Suites[m.suite]),
         clicks' = 0 => (\A j \in Items : m.log[j] \in {None, j}) /\ i = <<m.suite, m.test>>,
         ~ failed' => m.passed = PassedOf(file') /\ (clicks' = 0 => At(m, file'))
  PROVE  Processes' /\ (UNCHANGED <<copied, server>> \/ (copied' = Len(file') /\ server' = TRUE))
<1>1. /\ Typed
      /\ status \in [Pids -> {"none", "idle", "busy", "watch", "dead"}]
      /\ parent \in [Pids -> Pids]
  BY DEF Processes, Typed
<1>2. /\ mem' \in [Pids -> Memory]
      /\ Good(mem'[p], status'[p], file', clicks', failed')
      /\ \/ Quietly(p)
         \/ \E d \in Pids : Forked(p, d) /\ Good(mem'[d], "watch", file', clicks', failed')
      /\ UNCHANGED <<copied, server>> \/ (copied' = Len(file') /\ server' = TRUE)
  <2> DEFINE f == file'
             c == clicks'
             fl == failed'
  <2>1. /\ Run(p, m, i, f)
        /\ c = 0 => (\A j \in Items : m.log[j] \in {None, j}) /\ i = <<m.suite, m.test>>
        /\ ~ fl => m.passed = PassedOf(f) /\ (c = 0 => At(m, f))
    OBVIOUS
  <2> HIDE DEF f, c, fl
  <2>2. /\ mem' \in [Pids -> Memory]
        /\ Good(mem'[p], status'[p], f, c, fl)
        /\ \/ Quietly(p)
           \/ \E d \in Pids : Forked(p, d) /\ Good(mem'[d], "watch", f, c, fl)
        /\ UNCHANGED <<copied, server>> \/ (copied' = Len(f) /\ server' = TRUE)
    BY <1>1, <2>1, RunGood
  <2> QED
    BY <2>2 DEF f, c, fl
<1>3. ~ failed => \A q \in Pids \ {p} : status[q] \in {"none", "dead"}
  BY DEF Processes, OneInterface
<1>4. \A q \in Pids \ {p} : Good(mem[q], status[q], file', clicks', failed')
  BY OthersGood
<1>5. CASE Quietly(p)
  <2>1. UNCHANGED <<status, parent>> /\ \A q \in Pids \ {p} : mem'[q] = mem[q]
    BY <1>5 DEF Quietly
  <2>2. Typed'
    BY <1>1, <1>2, <2>1 DEF Typed
  <2>3. OneInterface'
    BY <1>3, <2>1 DEF OneInterface
  <2>4. \A q \in Pids : Good(mem'[q], status'[q], file', clicks', failed')
    BY <1>2, <1>4, <2>1
  <2> QED
    BY <1>2, <2>2, <2>3, <2>4 DEF Processes
<1>6. CASE \E d \in Pids : Forked(p, d) /\ Good(mem'[d], "watch", file', clicks', failed')
  <2>1. PICK d \in Pids : Forked(p, d) /\ Good(mem'[d], "watch", file', clicks', failed')
    BY <1>6
  <2>2. /\ d # p /\ status'[p] = "busy" /\ status'[d] = "watch"
        /\ parent'[d] = p /\ mem'[p].pid = d
        /\ \A q \in Pids \ {p, d} : mem'[q] = mem[q] /\ status'[q] = status[q]
        /\ status' \in [Pids -> {"none", "idle", "busy", "watch", "dead"}]
        /\ parent' \in [Pids -> Pids]
    BY <1>1, <2>1 DEF Forked
  <2>3. Typed'
    BY <1>2, <2>2 DEF Typed
  <2>4. OneInterface'
    <3>1. ~ failed => \A q \in Pids \ {p} : status'[q] \in {"none", "dead", "watch"}
      BY <1>3, <2>2
    <3>2. ~ failed => \A q \in Pids : status'[q] = "watch" => q = d
      BY <1>3, <2>2
    <3> QED
      BY <2>2, <3>1, <3>2 DEF OneInterface
  <2>5. \A q \in Pids : Good(mem'[q], status'[q], file', clicks', failed')
    BY <1>2, <1>4, <2>1, <2>2
  <2> QED
    BY <1>2, <2>3, <2>4, <2>5 DEF Processes
<1> QED
  BY <1>2, <1>5, <1>6

\* When an idle process keeps its status, so do all.
LEMMA IdleStep ==
  ASSUME Processes, NEW p \in Pids, status[p] = "idle", NEW n \in Memory,
         mem' = [mem EXCEPT ![p] = n], UNCHANGED <<status, parent>>,
         file' \in Seq(Entry), clicks' \in Nat, clicks' = clicks \/ clicks' # 0,
         failed' = failed, Good(n, "idle", file', clicks', failed')
  PROVE  Processes'
<1>1. Typed
  BY DEF Processes
<1>2. /\ mem' \in [Pids -> Memory] /\ mem'[p] = n
      /\ \A q \in Pids \ {p} : mem'[q] = mem[q]
  BY <1>1 DEF Typed
<1>3. Typed'
  BY <1>1, <1>2 DEF Typed
<1>4. ~ failed => \A q \in Pids \ {p} : status[q] \in {"none", "dead"}
  BY DEF Processes, OneInterface
<1>5. OneInterface'
  BY <1>4 DEF OneInterface
<1>6. \A q \in Pids \ {p} : Good(mem[q], status[q], file', clicks', failed')
  BY OthersGood
<1>7. \A q \in Pids : Good(mem'[q], status'[q], file', clicks', failed')
  BY <1>2, <1>6
<1> QED
  BY <1>3, <1>5, <1>7 DEF Processes

\* What a verdict does to the memory.
JudgedBy(m, e) ==
  [m EXCEPT !.passed = IF Passes(e) THEN @ \cup {e.item} ELSE @ \ {e.item}]

\* The verdict of the active test.
LEMMA JudgedGood ==
  ASSUME IInv, NEW p \in Pids, status[p] = "idle", mem[p].test # 0,
         NEW e \in Entry, e.item = <<mem[p].suite, mem[p].test>>
  PROVE  LET m == JudgedBy(mem[p], e)
             f == Append(file, e)
         IN  /\ m \in Memory /\ m.suite = mem[p].suite /\ m.test = mem[p].test
             /\ m.test <= Len(Suites[m.suite]) /\ f \in Seq(Entry)
             /\ clicks = 0 => \A j \in Items : m.log[j] \in {None, j}
             /\ ~ failed => m.passed = PassedOf(f)
             /\ clicks = 0 /\ ~ failed => Sequenced(f) /\ NextItem(f) = Successor(e.item)
             /\ e.item \in Items /\ f # <<>> /\ f[Len(f)].item = e.item
<1> DEFINE old == mem[p]
           m == JudgedBy(mem[p], e)
           f == Append(file, e)
           i == e.item
<1>1. /\ Good(old, "idle", file, clicks, failed) /\ file \in Seq(Entry)
      /\ clicks = 0 /\ ~ failed => Sequenced(file)
  BY DEF IInv, Typed
<1>2. /\ old \in Memory /\ old.test <= Len(Suites[old.suite])
      /\ clicks = 0 => \A j \in Items : old.log[j] \in {None, j}
      /\ ~ failed => old.passed = PassedOf(file) /\ (clicks = 0 => At(old, file))
  BY <1>1 DEF Good
<1>3. i \in Items /\ i = <<old.suite, old.test>> /\ old.test # 0
  BY DEF Entry
<1>4. /\ m \in Memory /\ m.suite = old.suite /\ m.test = old.test /\ m.log = old.log
      /\ Passes(e) => m.passed = old.passed \cup {i}
      /\ ~ Passes(e) => m.passed = old.passed \ {i}
  BY <1>2, <1>3 DEF JudgedBy, Memory
<1>5. /\ f \in Seq(Entry) /\ f # <<>> /\ f[Len(f)].item = i /\ NextItem(f) = Successor(i)
      /\ Passes(e) => PassedOf(f) = PassedOf(file) \cup {i}
      /\ ~ Passes(e) => PassedOf(f) = PassedOf(file) \ {i}
      /\ Sequenced(file) /\ NextItem(file) = i => Sequenced(f)
  BY <1>1, Verdict
<1> HIDE DEF old, m, f, i
<1>6. clicks = 0 /\ ~ failed => Sequenced(f)
  <2>1. ASSUME clicks = 0, ~ failed PROVE NextItem(file) = i
    BY <1>2, <1>3, <2>1 DEF At
  <2> QED
    BY <1>1, <1>5, <2>1
<1>7. ~ failed => m.passed = PassedOf(f)
  BY <1>2, <1>4, <1>5
<1>8. /\ m.test <= Len(Suites[m.suite])
      /\ clicks = 0 => \A j \in Items : m.log[j] \in {None, j}
  BY <1>2, <1>4
<1> QED
  BY <1>3, <1>4, <1>5, <1>6, <1>7, <1>8 DEF old, m, f, i

\* The steps: a verdict,
LEMMA PressStep ==
  ASSUME IInv, NEW p \in Pids, NEW pass, pass \in {TRUE, FALSE}, Press(p, pass)
  PROVE  IInv'
<1> DEFINE m == IF mem[p].test # 0 THEN Judged(mem[p], pass) ELSE mem[p]
           f == IF mem[p].test # 0
                  THEN Append(file, [item |-> <<m.suite, m.test>>, pass |-> pass])
                  ELSE file
           n == Len(Suites[m.suite])
           i == <<m.suite, m.test>>
<1>0. status[p] = "idle"
  BY DEF Press
<1>1. /\ m \in Memory /\ m.test <= n /\ f \in Seq(Entry)
      /\ clicks = 0 => \A j \in Items : m.log[j] \in {None, j}
      /\ ~ failed => m.passed = PassedOf(f)
      /\ clicks = 0 /\ ~ failed =>
           /\ Sequenced(f)
           /\ NextItem(f) = IF m.test = 0 THEN <<m.suite, 1>> ELSE Successor(i)
      /\ m.test = 0 => f = file
      /\ m.test # 0 => i \in Items /\ f # <<>> /\ f[Len(f)].item = i
  <2>1. /\ Good(mem[p], "idle", file, clicks, failed) /\ file \in Seq(Entry)
        /\ clicks = 0 /\ ~ failed => Sequenced(file)
    BY <1>0 DEF IInv, Typed
  <2>2. /\ mem[p] \in Memory /\ mem[p].test <= Len(Suites[mem[p].suite])
        /\ clicks = 0 => \A j \in Items : mem[p].log[j] \in {None, j}
        /\ ~ failed => mem[p].passed = PassedOf(file) /\ (clicks = 0 => At(mem[p], file))
    BY <2>1 DEF Good
  <2>3. CASE mem[p].test = 0
    <3>1. m = mem[p] /\ f = file
      BY <2>3
    <3> HIDE DEF m, f
    <3>2. clicks = 0 /\ ~ failed => NextItem(file) = <<mem[p].suite, 1>>
      BY <2>2, <2>3 DEF At
    <3> QED
      BY <2>1, <2>2, <2>3, <3>1, <3>2
  <2>4. CASE mem[p].test # 0
    <3> DEFINE e == [item |-> <<mem[p].suite, mem[p].test>>, pass |-> pass]
    <3>1. e \in Entry /\ e.item = <<mem[p].suite, mem[p].test>> /\ (Passes(e) <=> pass = TRUE)
      <4>1. /\ mem[p].suite \in 1 .. Len(Suites)
            /\ mem[p].test \in 1 .. Len(Suites[mem[p].suite])
        BY <2>2, <2>4, SuiteFacts DEF Memory
      <4>2. <<mem[p].suite, mem[p].test>> \in Items
        BY <4>1, ItemFacts
      <4> QED
        BY <4>2 DEF Entry, Passes
    <3>2. m = JudgedBy(mem[p], e)
      BY <2>4, <3>1 DEF Judged, JudgedBy
    <3>3. m.suite = mem[p].suite /\ m.test = mem[p].test
      BY <2>2, <2>4 DEF Judged, Memory
    <3> HIDE DEF m
    <3>4. f = Append(file, e)
      BY <2>4, <3>3
    <3> HIDE DEF f, e
    <3>5. /\ m \in Memory /\ m.suite = mem[p].suite /\ m.test = mem[p].test
          /\ m.test <= Len(Suites[m.suite]) /\ f \in Seq(Entry)
          /\ clicks = 0 => \A j \in Items : m.log[j] \in {None, j}
          /\ ~ failed => m.passed = PassedOf(f)
          /\ clicks = 0 /\ ~ failed => Sequenced(f) /\ NextItem(f) = Successor(e.item)
          /\ e.item \in Items /\ f # <<>> /\ f[Len(f)].item = e.item
      BY <1>0, <2>4, <3>1, <3>2, <3>4, JudgedGood
    <3> QED
      BY <2>4, <3>1, <3>5
  <2> QED
    BY <2>3, <2>4
<1>2. /\ status[p] = "idle" /\ file' = f /\ clicks' = clicks /\ failed' = failed
      /\ \/ m.test < n /\ Run(p, Advanced(m), <<m.suite, m.test + 1>>, f)
         \/ /\ m.test >= n /\ m.suite < Len(Suites)
            /\ mem' = [mem EXCEPT ![p] = on_popup_select(m, m.suite + 1)]
            /\ UNCHANGED <<status, parent, copied, server>>
         \/ /\ m.test >= n /\ m.suite = Len(Suites)
            /\ copied' = Len(f) /\ server' = TRUE
            /\ mem' = [mem EXCEPT ![p] = m]
            /\ UNCHANGED <<status, parent>>
  BY DEF Press, history, do_gsm_log_on_test, Copied
<1>3. /\ m.suite \in 1 .. Len(Suites) /\ m.test \in Nat /\ Len(Suites) \in Nat
      /\ n \in Nat /\ n >= 1
  BY <1>1, SuiteFacts DEF Memory
<1>4. Processes /\ ReportServed /\ clicks \in Nat
  BY DEF IInv, Processes, Typed
<1> HIDE DEF m, f, n
<1>5. m.test # 0 => /\ m.test < n => Successor(i) = <<m.suite, m.test + 1>>
                    /\ m.test >= n /\ m.suite < Len(Suites) => Successor(i) = <<m.suite + 1, 1>>
                    /\ m.test >= n /\ m.suite = Len(Suites) => Successor(i) = i
                    /\ Successor(i) = i => m.test >= n /\ m.suite >= Len(Suites)
  <2>1. i[1] = m.suite /\ i[2] = m.test
    OBVIOUS
  <2> HIDE DEF i
  <2>2. ASSUME m.test # 0
        PROVE  /\ m.test < n => Successor(i) = <<m.suite, m.test + 1>>
               /\ m.test >= n /\ m.suite < Len(Suites) => Successor(i) = <<m.suite + 1, 1>>
               /\ m.test >= n /\ m.suite = Len(Suites) => Successor(i) = i
               /\ Successor(i) = i => m.test >= n /\ m.suite >= Len(Suites)
    <3>1. i \in Items
      BY <1>1, <2>2
    <3>2. /\ i[2] < Len(Suites[i[1]]) => Successor(i) = <<i[1], i[2] + 1>>
          /\ i[2] >= Len(Suites[i[1]]) /\ i[1] < Len(Suites) => Successor(i) = <<i[1] + 1, 1>>
          /\ i[2] >= Len(Suites[i[1]]) /\ i[1] >= Len(Suites) => Successor(i) = i
          /\ Successor(i) = i => i[2] >= Len(Suites[i[1]]) /\ i[1] >= Len(Suites)
      BY <3>1, SuccessorFacts
    <3> QED
      BY <1>3, <2>1, <3>2 DEF n
  <2> QED
    BY <2>2
<1>6. Processes' /\ ReportServed'
  <2>1. CASE m.test < n /\ Run(p, Advanced(m), <<m.suite, m.test + 1>>, f)
    <3> DEFINE a == Advanced(m)
               j == <<m.suite, m.test + 1>>
    <3>1. /\ a \in Memory /\ a.suite = m.suite /\ a.test = m.test + 1
          /\ a.passed = m.passed /\ a.log = m.log
      BY <1>1, <1>3 DEF Advanced, Memory
    <3>2. j \in Items
      BY <1>3, <2>1, ItemFacts DEF n
    <3>3. clicks = 0 /\ ~ failed => NextItem(f) = j
      BY <1>1, <1>5, <2>1
    <3>4. j[1] = a.suite /\ j = <<a.suite, a.test>>
      BY <3>1
    <3>5. Run(p, a, j, file')
      BY <1>2, <2>1
    <3> HIDE DEF a, j
    <3>6. a.test <= Len(Suites[a.suite])
      BY <1>3, <2>1, <3>1 DEF n
    <3>7. ~ failed' => a.passed = PassedOf(file') /\ (clicks' = 0 => At(a, file'))
      <4>1. a.test # 0
        BY <1>3, <3>1
      <4> QED
        BY <1>1, <1>2, <3>1, <3>3, <3>4, <4>1 DEF At
    <3>8. clicks' = 0 => (\A k \in Items : a.log[k] \in {None, k}) /\ j = <<a.suite, a.test>>
      BY <1>1, <1>2, <3>1, <3>4
    <3>9. /\ Processes'
          /\ UNCHANGED <<copied, server>> \/ (copied' = Len(file') /\ server' = TRUE)
      BY <1>1, <1>2, <1>4, <3>1, <3>2, <3>4, <3>5, <3>6, <3>7, <3>8, AfterRun
    <3>10. ReportServed'
      <4>1. CASE m.test = 0
        <5>1. file' = file
          BY <1>1, <1>2, <4>1
        <5>2. CASE UNCHANGED <<copied, server>>
          BY <1>4, <5>1, <5>2 DEF ReportServed
        <5>3. CASE copied' = Len(file') /\ server' = TRUE
          BY <5>3 DEF ReportServed
        <5> QED
          BY <3>9, <5>2, <5>3
      <4>2. CASE m.test # 0
        <5>1. Successor(i) # i /\ f[Len(f)].item = i
          BY <1>1, <1>3, <1>5, <2>1, <4>2
        <5>2. file'[Len(file')].item = i
          BY <1>2, <5>1
        <5> QED
          BY <5>1, <5>2 DEF ReportServed
      <4> QED
        BY <4>1, <4>2
    <3> QED
      BY <3>9, <3>10
  <2>2. CASE /\ m.test >= n /\ m.suite < Len(Suites)
             /\ mem' = [mem EXCEPT ![p] = on_popup_select(m, m.suite + 1)]
             /\ UNCHANGED <<status, parent, copied, server>>
    <3> DEFINE a == on_popup_select(m, m.suite + 1)
    <3>1. /\ a \in Memory /\ a.suite = m.suite + 1 /\ a.test = 0
          /\ a.passed = m.passed /\ a.log = m.log
      <4>1. m.suite + 1 # m.suite /\ m.suite + 1 \in 1 .. Len(Suites)
        BY <1>3, <2>2
      <4>2. a = [m EXCEPT !.suite = m.suite + 1, !.test = 0]
        BY <4>1 DEF on_popup_select
      <4> HIDE DEF a
      <4> QED
        BY <1>1, <4>1, <4>2 DEF Memory
    <3>2. m.test # 0
      BY <1>3, <2>2
    <3> HIDE DEF a
    <3>3. clicks = 0 /\ ~ failed => At(a, f)
      BY <1>1, <1>5, <2>2, <3>1, <3>2 DEF At
    <3>4. a.test <= Len(Suites[a.suite])
      BY <1>3, <2>2, <3>1, SuiteFacts
    <3>5. Good(a, "idle", file', clicks', failed')
      BY <1>1, <1>2, <3>1, <3>3, <3>4 DEF Good
    <3>6. mem' = [mem EXCEPT ![p] = a]
      BY <2>2 DEF a
    <3>7. Processes'
      BY <1>1, <1>2, <1>4, <2>2, <3>1, <3>5, <3>6, IdleStep
    <3>8. ReportServed'
      <4>1. Successor(i) # i /\ f[Len(f)].item = i
        BY <1>1, <1>3, <1>5, <2>2, <3>2
      <4>2. file'[Len(file')].item = i
        BY <1>2, <4>1
      <4> QED
        BY <4>1, <4>2 DEF ReportServed
    <3> QED
      BY <3>7, <3>8
  <2>3. CASE /\ m.test >= n /\ m.suite = Len(Suites)
             /\ copied' = Len(f) /\ server' = TRUE
             /\ mem' = [mem EXCEPT ![p] = m]
             /\ UNCHANGED <<status, parent>>
    <3>1. m.test # 0
      BY <1>3, <2>3
    <3>2. clicks = 0 /\ ~ failed => At(m, f)
      BY <1>1, <1>5, <2>3, <3>1 DEF At
    <3>3. Good(m, "idle", file', clicks', failed')
      BY <1>1, <1>2, <3>2 DEF Good, n
    <3>4. Processes'
      BY <1>1, <1>2, <1>4, <2>3, <3>3, IdleStep
    <3>5. ReportServed'
      BY <1>2, <2>3 DEF ReportServed
    <3> QED
      BY <3>4, <3>5
  <2> QED
    BY <1>2, <2>1, <2>2, <2>3
<1> QED
  BY <1>1, <1>2, <1>6 DEF IInv, Processes
-----------------------------------------------------------------------------
\* The operator's other steps.
LEMMA ClickStep ==
  ASSUME IInv, NEW p \in Pids, NEW i \in Items, Click(p, i)
  PROVE  IInv'
<1>1. /\ status[p] = "idle" /\ mem[p].suite = i[1] /\ Run(p, mem[p], i, file)
      /\ file' = file /\ failed' = failed /\ clicks' = clicks + 1
  BY DEF Click
<1>2. /\ Processes /\ ReportServed /\ clicks \in Nat /\ file \in Seq(Entry)
      /\ Good(mem[p], "idle", file, clicks, failed)
  BY <1>1 DEF IInv, Processes, Typed
<1>3. clicks' \in Nat /\ clicks' # 0 /\ file' \in Seq(Entry) /\ Run(p, mem[p], i, file')
  BY <1>1, <1>2
<1>4. /\ mem[p] \in Memory /\ mem[p].test <= Len(Suites[mem[p].suite])
      /\ ~ failed' => mem[p].passed = PassedOf(file')
  BY <1>1, <1>2 DEF Good
<1>5. /\ Processes'
      /\ UNCHANGED <<copied, server>> \/ (copied' = Len(file') /\ server' = TRUE)
  BY <1>1, <1>2, <1>3, <1>4, AfterRun
<1>6. ReportServed'
  <2>1. CASE UNCHANGED <<copied, server>>
    BY <1>1, <1>2, <2>1 DEF ReportServed
  <2>2. CASE copied' = Len(file') /\ server' = TRUE
    BY <2>2 DEF ReportServed
  <2> QED
    BY <1>5, <2>1, <2>2
<1> QED
  BY <1>3, <1>5, <1>6 DEF IInv, Processes

\* another suite,
LEMMA ChooseStep ==
  ASSUME IInv, NEW p \in Pids, NEW s \in 1 .. Len(Suites), Choose(p, s)
  PROVE  IInv'
<1> DEFINE n == on_popup_select(mem[p], s)
<1>1. /\ status[p] = "idle" /\ mem' = [mem EXCEPT ![p] = n]
      /\ UNCHANGED <<status, parent, file, copied, server, failed>> /\ clicks' = clicks + 1
  BY DEF Choose
<1>2. /\ Processes /\ ReportServed /\ clicks \in Nat /\ file \in Seq(Entry)
      /\ Good(mem[p], "idle", file, clicks, failed)
  BY <1>1 DEF IInv, Processes, Typed
<1>3. clicks' \in Nat /\ clicks' # 0
  BY <1>1, <1>2
<1>4. n \in Memory /\ n.test <= Len(Suites[n.suite]) /\ n.passed = mem[p].passed
  <2>1. mem[p] \in Memory /\ mem[p].test <= Len(Suites[mem[p].suite])
    BY <1>2 DEF Good
  <2>2. CASE s = mem[p].suite
    BY <2>1, <2>2 DEF on_popup_select
  <2>3. CASE s # mem[p].suite
    <3>1. n = [mem[p] EXCEPT !.suite = s, !.test = 0]
      BY <2>3 DEF on_popup_select
    <3> HIDE DEF n
    <3>2. n \in Memory /\ n.suite = s /\ n.test = 0 /\ n.passed = mem[p].passed
      BY <2>1, <3>1 DEF Memory
    <3> QED
      BY <3>2, SuiteFacts
  <2> QED
    BY <2>2, <2>3
<1> HIDE DEF n
<1>5. Good(n, "idle", file', clicks', failed')
  BY <1>1, <1>2, <1>3, <1>4 DEF Good
<1>6. file' \in Seq(Entry)
  BY <1>1, <1>2
<1>7. Processes'
  BY <1>1, <1>2, <1>3, <1>4, <1>5, <1>6, IdleStep
<1>8. ReportServed'
  BY <1>1, <1>2 DEF ReportServed
<1> QED
  BY <1>3, <1>7, <1>8 DEF IInv, Processes
-----------------------------------------------------------------------------
\* One process gets another memory and a status, others may be killed.
LEMMA EndGood ==
  ASSUME IInv, NEW p \in Pids, NEW n, mem' = [mem EXCEPT ![p] = n],
         Good(n, status'[p], file, clicks, failed'),
         status' \in [Pids -> {"none", "idle", "busy", "watch", "dead"}],
         \A q \in Pids \ {p} : status'[q] \in {status[q], "dead"},
         failed' = failed \/ failed' = TRUE,
         UNCHANGED <<parent, file, copied, server, clicks>>
  PROVE  /\ Typed' /\ ReportServed' /\ (clicks = 0 /\ ~ failed => Sequenced(file))'
         /\ \A q \in Pids : Good(mem'[q], status'[q], file', clicks', failed')
<1>1. Typed /\ ReportServed /\ (clicks = 0 /\ ~ failed => Sequenced(file))
  BY DEF IInv
<1>2. /\ mem' \in [Pids -> Memory] /\ mem'[p] = n /\ \A q \in Pids \ {p} : mem'[q] = mem[q]
  <2>1. n \in Memory
    BY DEF Good
  <2> QED
    BY <1>1, <2>1 DEF Typed
<1>3. ASSUME NEW q \in Pids \ {p} PROVE Good(mem'[q], status'[q], file', clicks', failed')
  <2>1. Good(mem[q], status[q], file, clicks, failed)
    BY DEF IInv
  <2> QED
    BY <1>2, <2>1 DEF Good
<1>4. Typed'
  BY <1>1, <1>2 DEF Typed
<1>5. ReportServed'
  BY <1>1 DEF ReportServed
<1>6. (clicks = 0 /\ ~ failed => Sequenced(file))'
  BY <1>1 DEF Sequenced
<1>7. Good(mem'[p], status'[p], file', clicks', failed')
  BY <1>2
<1> QED
  BY <1>3, <1>4, <1>5, <1>6, <1>7

\* What Good says of a process that is in a GPS test or waits for it.
LEMMA InTest ==
  ASSUME IInv, NEW p \in Pids, status[p] \in {"busy", "watch"}
  PROVE  LET m == mem[p]
             i == m.running
         IN  /\ m \in Memory /\ m.test <= Len(Suites[m.suite]) /\ i \in Items /\ i[1] = m.suite
             /\ clicks = 0 => (\A j \in Items : m.log[j] \in {None, j}) /\ i = <<m.suite, m.test>>
             /\ ~ failed => m.passed = PassedOf(file) /\ (clicks = 0 => At(m, file))
<1>1. Good(mem[p], status[p], file, clicks, failed)
  BY DEF IInv
<1> QED
  BY <1>1 DEF Good

\* the GPS has a fix,
LEMMA FixStep ==
  ASSUME IInv, NEW p \in Pids, Fix(p)
  PROVE  IInv'
<1> DEFINE m == mem[p]
           i == m.running
           l == [m EXCEPT !.log[i] = i]
           n == set_active_test(l, i)
<1>1. /\ status[p] = "busy" /\ mem' = [mem EXCEPT ![p] = n]
      /\ status' = [status EXCEPT ![m.pid] = "dead", ![p] = "idle"]
      /\ UNCHANGED <<parent, file, copied, server, clicks, failed>>
  BY DEF Fix, Killed, history
<1>2. /\ m \in Memory /\ i \in Items /\ i[1] = m.suite
      /\ clicks = 0 => (\A j \in Items : m.log[j] \in {None, j}) /\ i = <<m.suite, m.test>>
      /\ ~ failed => m.passed = PassedOf(file) /\ (clicks = 0 => At(m, file))
  BY <1>1, InTest
<1>3. /\ l \in Memory /\ l.suite = m.suite /\ l.test = m.test /\ l.passed = m.passed
      /\ \A j \in Items : l.log[j] = IF j = i THEN i ELSE m.log[j]
  <2>1. m.log \in [Items -> Items \cup {None}]
    BY <1>2 DEF Memory
  <2>2. [m.log EXCEPT ![i] = i] \in [Items -> Items \cup {None}]
    BY <1>2, <2>1
  <2> QED
    BY <1>2, <2>1, <2>2 DEF Memory
<1>4. status' \in [Pids -> {"none", "idle", "busy", "watch", "dead"}] /\ status'[p] = "idle"
  BY <1>1 DEF IInv, Typed
<1>5. \A q \in Pids \ {p} : status'[q] = IF q = m.pid THEN "dead" ELSE status[q]
  BY <1>1 DEF IInv, Typed
<1> HIDE DEF m, i, l
<1>6. Good(n, "idle", file, clicks, failed)
  <2>1. /\ clicks = 0 => (\A j \in Items : l.log[j] \in {None, j}) /\ i = <<l.suite, l.test>>
        /\ ~ failed => l.passed = PassedOf(file) /\ (clicks = 0 => At(l, file))
        /\ i[1] = l.suite
    BY <1>2, <1>3 DEF At
  <2> QED
    BY <1>2, <1>3, <2>1, OverGood
<1> HIDE DEF n
<1>7. /\ Typed' /\ ReportServed' /\ (clicks = 0 /\ ~ failed => Sequenced(file))'
      /\ \A q \in Pids : Good(mem'[q], status'[q], file', clicks', failed')
  BY <1>1, <1>4, <1>5, <1>6, EndGood
<1>8. OneInterface'
  <2>1. ASSUME ~ failed PROVE \A q \in Pids \ {p} : status'[q] \in {"none", "dead"}
    BY <1>1, <1>5, <2>1 DEF IInv, OneInterface, m
  <2> QED
    BY <1>1, <1>4, <2>1 DEF OneInterface
<1> QED
  BY <1>7, <1>8 DEF IInv

\* or cannot be read,
LEMMA ReadErrorStep ==
  ASSUME IInv, NEW p \in Pids, ReadError(p)
  PROVE  IInv'
<1> DEFINE m == mem[p]
           i == m.running
           l == Stored(m, i)
           n == set_active_test(l, i)
<1>1. /\ status[p] = "busy" /\ mem' = [mem EXCEPT ![p] = n]
      /\ status' = [status EXCEPT ![p] = "idle"] /\ failed' = TRUE
      /\ UNCHANGED <<parent, file, copied, server, clicks>>
  BY DEF ReadError
<1>2. /\ m \in Memory /\ m.test <= Len(Suites[m.suite]) /\ i \in Items /\ i[1] = m.suite
      /\ clicks = 0 => (\A j \in Items : m.log[j] \in {None, j}) /\ i = <<m.suite, m.test>>
  BY <1>1, InTest
<1>3. /\ l \in Memory /\ l.suite = m.suite /\ l.test = m.test
      /\ \A j \in Items : l.log[j] = m.log[j] \/ (j = <<m.suite, m.test>> /\ l.log[j] = i)
  BY <1>2, StoredLog
<1>4. /\ status' \in [Pids -> {"none", "idle", "busy", "watch", "dead"}]
      /\ status'[p] = "idle" /\ \A q \in Pids \ {p} : status'[q] = status[q]
  BY <1>1 DEF IInv, Typed
<1> HIDE DEF m, i, l
<1>5. Good(n, "idle", file, clicks, TRUE)
  <2>1. /\ clicks = 0 => (\A j \in Items : l.log[j] \in {None, j}) /\ i = <<l.suite, l.test>>
        /\ i[1] = l.suite
    BY <1>2, <1>3
  <2> QED
    BY <1>2, <1>3, <2>1, OverGood
<1> HIDE DEF n
<1>6. Good(n, status'[p], file, clicks, failed')
  BY <1>1, <1>4, <1>5
<1>7. /\ Typed' /\ ReportServed' /\ (clicks = 0 /\ ~ failed => Sequenced(file))'
      /\ \A q \in Pids : Good(mem'[q], status'[q], file', clicks', failed')
  BY <1>1, <1>4, <1>6, EndGood
<1>8. OneInterface'
  BY <1>1 DEF OneInterface
<1> QED
  BY <1>7, <1>8 DEF IInv

\* the watchdog wakes up and takes over.
LEMMA TimeoutStep ==
  ASSUME IInv, NEW c \in Pids, Timeout(c)
  PROVE  IInv'
<1> DEFINE m == mem[c]
           i == m.running
           n == set_active_test(m, i)
<1>1. /\ status[c] = "watch" /\ mem' = [mem EXCEPT ![c] = n]
      /\ status' = [status EXCEPT ![parent[c]] = "dead", ![c] = "idle"]
      /\ UNCHANGED <<parent, file, copied, server, clicks, failed>>
  BY DEF Timeout, Then, history
<1>2. /\ m \in Memory /\ i \in Items /\ i[1] = m.suite
      /\ clicks = 0 => (\A j \in Items : m.log[j] \in {None, j}) /\ i = <<m.suite, m.test>>
      /\ ~ failed => m.passed = PassedOf(file) /\ (clicks = 0 => At(m, file))
  BY <1>1, InTest
<1>3. status' \in [Pids -> {"none", "idle", "busy", "watch", "dead"}] /\ status'[c] = "idle"
  BY <1>1 DEF IInv, Typed
<1>4. \A q \in Pids \ {c} : status'[q] = IF q = parent[c] THEN "dead" ELSE status[q]
  BY <1>1 DEF IInv, Typed
<1> HIDE DEF m, i
<1>5. Good(n, "idle", file, clicks, failed)
  BY <1>2, OverGood
<1> HIDE DEF n
<1>6. /\ Typed' /\ ReportServed' /\ (clicks = 0 /\ ~ failed => Sequenced(file))'
      /\ \A q \in Pids : Good(mem'[q], status'[q], file', clicks', failed')
  BY <1>1, <1>3, <1>4, <1>5, EndGood
<1>7. OneInterface'
  <2>1. ASSUME ~ failed PROVE \A q \in Pids \ {c} : status'[q] \in {"none", "dead"}
    <3>1. PICK u \in Pids :
            /\ \A q \in Pids \ {u} : status[q] \in {"none", "dead", "watch"}
            /\ \A q \in Pids : status[q] = "watch" => mem[u].pid = q /\ parent[q] = u
      BY <2>1 DEF IInv, OneInterface
    <3> QED
      BY <1>1, <1>4, <3>1
  <2> QED
    BY <1>1, <1>3, <2>1 DEF OneInterface
<1> QED
  BY <1>6, <1>7 DEF IInv
-----------------------------------------------------------------------------
\* At the start one process is the interface, with nothing judged.
LEMMA InitOK == Init => IInv
<1> SUFFICES ASSUME Init PROVE IInv
  OBVIOUS
<1>1. 1 \in Pids
  BY Dm2Assumption DEF Pids
<1>2. 1 \in 1 .. Len(Suites)
  BY SuiteFacts
<1> DEFINE m == [suite |-> 1, test |-> 0, passed |-> {},
                 log |-> [i \in Items |-> None], running |-> None, pid |-> 0]
<1>3. /\ m \in Memory /\ m.suite = 1 /\ m.test = 0 /\ m.passed = {}
      /\ \A i \in Items : m.log[i] = None
  BY <1>2 DEF Memory
<1>4. /\ mem = [p \in Pids |-> m]
      /\ status = [p \in Pids |-> IF p = 1 THEN "idle" ELSE "none"]
      /\ parent = [p \in Pids |-> p] /\ file = <<>> /\ clicks = 0
  BY DEF Init
<1> HIDE DEF m
<1>5. Typed
  BY <1>3, <1>4 DEF Typed
<1>6. OneInterface
  BY <1>1, <1>4 DEF OneInterface
<1>7. PassedOf(file) = {} /\ At(m, file) /\ Sequenced(file)
  <2>1. Len(file) = 0
    BY <1>4
  <2> QED
    BY <1>3, <1>4, <2>1 DEF PassedOf, At, NextItem, Sequenced
<1>8. \A p \in Pids : Good(mem[p], status[p], file, clicks, failed)
  <2>1. m.test <= Len(Suites[m.suite])
    BY <1>2, <1>3, SuiteFacts
  <2> QED
    BY <1>3, <1>4, <1>7, <2>1 DEF Good
<1>9. ReportServed
  BY <1>4 DEF ReportServed
<1> QED
  BY <1>5, <1>6, <1>7, <1>8, <1>9 DEF IInv

\* Every step keeps the invariant.
LEMMA StepOK == IInv /\ [Next]_vars => IInv'
<1> SUFFICES ASSUME IInv, [Next]_vars PROVE IInv'
  OBVIOUS
<1>1. CASE UNCHANGED vars
  <2>1. UNCHANGED <<status, mem, parent, file, copied, server, clicks, failed>>
    BY <1>1 DEF vars, history
  <2> QED
    BY <2>1 DEF IInv, Typed, OneInterface, Sequenced, ReportServed
<1>2. ASSUME NEW p \in Pids, NEW pass \in BOOLEAN, Press(p, pass) PROVE IInv'
  BY <1>2, PressStep
<1>3. ASSUME NEW p \in Pids, NEW i \in Items, Click(p, i) PROVE IInv'
  BY <1>3, ClickStep
<1>4. ASSUME NEW p \in Pids, NEW s \in 1 .. Len(Suites), Choose(p, s) PROVE IInv'
  BY <1>4, ChooseStep
<1>5. ASSUME NEW p \in Pids, Fix(p) PROVE IInv'
  BY <1>5, FixStep
<1>6. ASSUME NEW p \in Pids, ReadError(p) PROVE IInv'
  BY <1>6, ReadErrorStep
<1>7. ASSUME NEW p \in Pids, Timeout(p) PROVE IInv'
  BY <1>7, TimeoutStep
<1> QED
  BY <1>1, <1>2, <1>3, <1>4, <1>5, <1>6, <1>7 DEF Next

\* So it always holds.
LEMMA Invariant == Spec => []IInv
<1>1. Init => IInv
  BY InitOK
<1>2. IInv /\ [Next]_vars => IInv'
  BY StepOK
<1> QED
  BY <1>1, <1>2, PTL DEF Spec
-----------------------------------------------------------------------------
\* An operator who only presses Pass and Fail gets every test saved, in order:
\* next_test (dm2.c) goes on from the test that was judged, also after a watchdog
\* has taken over with its copy of the memory.
THEOREM InSequenceHolds == Spec => []InSequence
<1>1. IInv => InSequence
  BY DEF IInv, InSequence, Sequenced
<1> QED
  BY <1>1, Invariant, PTL

\* For such an operator the log of a test is the one that the test made: active_test
\* is the test's own index while it runs.
THEOREM LogFromTestHolds == Spec => []LogFromTest
<1>1. IInv => LogFromTest
  BY DEF IInv, LogFromTest, Good
<1> QED
  BY <1>1, Invariant, PTL

\* One process is the interface, and what it remembers of the results is what was
\* saved last (save_item_result), as long as no watchdog has been left behind.
THEOREM MemoryMatchesLogHolds == Spec => []MemoryMatchesLog
<1>1. IInv => MemoryMatchesLog
  <2> DEFINE interfaces == {p \in Pids : status[p] \in {"idle", "busy"}}
             saved == {i \in Items : \E k \in 1 .. Len(file) :
                         /\ file[k] = [item |-> i, pass |-> TRUE]
                         /\ \A l \in k + 1 .. Len(file) : file[l].item # i}
  <2>1. ASSUME IInv, ~ failed
        PROVE  Cardinality(interfaces) = 1 /\ \A p \in interfaces : mem[p].passed = saved
    <3>1. PICK u \in Pids :
            /\ status[u] \in {"idle", "busy"}
            /\ \A q \in Pids \ {u} : status[q] \in {"none", "dead", "watch"}
      BY <2>1 DEF IInv, OneInterface
    <3>2. interfaces = {u}
      BY <3>1
    <3>3. Cardinality({u}) = 1
      BY FS_Singleton
    <3>4. saved = PassedOf(file)
      BY DEF PassedOf
    <3>5. mem[u].passed = PassedOf(file)
      BY <2>1, <3>1 DEF IInv, Good
    <3> HIDE DEF interfaces, saved
    <3> QED
      BY <3>2, <3>3, <3>4, <3>5
  <2> QED
    BY <2>1 DEF MemoryMatchesLog
<1> QED
  BY <1>1, Invariant, PTL

\* When the last test has been judged the server hands the whole log out.
THEOREM ReportServedHolds == Spec => []ReportServed
<1>1. IInv => ReportServed
  BY DEF IInv
<1> QED
  BY <1>1, Invariant, PTL
=============================================================================
