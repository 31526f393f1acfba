----------------------------- MODULE UsockProofs -----------------------------
(* Proofs about the user socket server, for every value of its constants.  *)
EXTENDS UsockServer, SeqLemmas

\* The flag and the list of every user are kept by the address of the user.
UsersTyped == when \in [Slots -> BOOLEAN] /\ DOMAIN finished = Slots

\* Replies of a callback set the flag.
LEMMA EnqueuePolled ==
  ASSUME UsersTyped, WritersPolled, NEW s, NEW ucmds, usock_cmd_enqueue(s, ucmds),
         conn' = conn
  PROVE  (UsersTyped /\ WritersPolled)'
BY DEF UsersTyped, WritersPolled, usock_cmd_enqueue

\* Every step of the daemon and of the clients keeps the flags.
LEMMA StepPolled ==
  UsersTyped /\ WritersPolled /\ [Next]_vars => (UsersTyped /\ WritersPolled)'
<1> SUFFICES ASSUME UsersTyped, WritersPolled, [Next]_vars
             PROVE  (UsersTyped /\ WritersPolled)'
  OBVIOUS
<1> USE DEF users, engine, sock
<1>0. ASSUME UNCHANGED users PROVE (UsersTyped /\ WritersPolled)'
  BY <1>0 DEF UsersTyped, WritersPolled
<1>c. ASSUME NEW c, NEW info, NEW ret, Callback(c, info, ret), conn' = conn
      PROVE  (UsersTyped /\ WritersPolled)'
  BY <1>c, EnqueuePolled DEF Callback
<1>1. CASE Inform
  <2>1. conn' = conn /\ (Callback(First, TRUE, "interim") \/ UNCHANGED <<when, finished, wild>>)
    BY <1>1 DEF Inform
  <2> QED
    BY <1>c, <2>1 DEF UsersTyped, WritersPolled
<1>2. ASSUME NEW ret \in {"OK", "error"}, Finish(ret)
      PROVE  (UsersTyped /\ WritersPolled)'
  BY <1>c, <1>2 DEF Finish
<1>3. CASE GiveUp
  BY <1>0, <1>3 DEF GiveUp
<1>4. CASE select
  BY <1>0, <1>4 DEF select
<1>5. CASE usock_evt_send
  BY <1>5 DEF usock_evt_send, UsersTyped, WritersPolled
<1>6. ASSUME NEW s \in Slots, Connect(s) PROVE (UsersTyped /\ WritersPolled)'
  BY <1>6 DEF Connect, NewList, UsersTyped, WritersPolled
<1>7. ASSUME NEW s \in Slots, ReadRequest(s) PROVE (UsersTyped /\ WritersPolled)'
  <2> DEFINE r == Head(requests[conn[s]])
  <2>1. CASE SubmitFor(s, r)
    BY <1>0, <2>1 DEF SubmitFor
  <2>2. CASE HangUpFor(s, r)
    <3>1. \/ UNCHANGED users
          \/ Callback(First, FALSE, "cancelled") /\ conn' = conn
      BY <2>2 DEF HangUpFor
    <3> QED
      BY <1>0, <1>c, <3>1
  <2>3. CASE usock_rcv_event(s, r)
    BY <2>3 DEF usock_rcv_event, UsersTyped, WritersPolled
  <2>4. CASE Rejected(r)
    BY <1>0, <2>4 DEF Rejected
  <2> QED
    BY <1>7, <2>1, <2>2, <2>3, <2>4 DEF ReadRequest
<1>8. ASSUME NEW s \in Slots, ReadEof(s) PROVE (UsersTyped /\ WritersPolled)'
  BY <1>8 DEF ReadEof, UsersTyped, WritersPolled
<1>9. ASSUME NEW s \in Slots, WriteClosed(s) PROVE (UsersTyped /\ WritersPolled)'
  BY <1>0, <1>9 DEF WriteClosed
<1>10. ASSUME NEW s \in Slots, NEW j \in 0 .. Len(finished[s]), Write(s, j)
       PROVE (UsersTyped /\ WritersPolled)'
  BY <1>10 DEF Write, WhenLeft, UsersTyped, WritersPolled
<1>11. ASSUME NEW c \in Conns, Close(c) PROVE (UsersTyped /\ WritersPolled)'
  BY <1>0, <1>11 DEF Close
<1>12. ASSUME NEW c \in Conns, NEW k \in Requests, Send(c, k)
       PROVE (UsersTyped /\ WritersPolled)'
  BY <1>0, <1>12 DEF Send
<1>13. CASE UNCHANGED vars
  BY <1>0, <1>13 DEF vars
<1> QED
  BY <1>1, <1>2, <1>3, <1>4, <1>5, <1>6, <1>7, <1>8, <1>9, <1>10, <1>11, <1>12, <1>13
     DEF Next, Daemon

\* Whoever has something to get, and is connected, is polled for writing.
THEOREM WritersPolledHolds == Spec => []WritersPolled
<1>1. Init => UsersTyped /\ WritersPolled
  BY DEF Init, UsersTyped, WritersPolled
<1> QED
  BY <1>1, StepPolled, PTL DEF Spec
-----------------------------------------------------------------------------
(* Replies reach the client that made the request, if no client leaves     *)
(* while a command of its own is queued.  The commands of the queue keep   *)
(* their users alive: whoever is the context of a command is connected,    *)
(* has not closed and so is not freed, and its address is not used again.  *)

QueueProofs == INSTANCE AtQueueProofs

Message == Reply \cup Event \cup Part

\* The replies among the messages of q are to connection c.
RepliesTo(q, c) == \A m \in Members(q) : m.type = "reply" => m.conn = c

\* The queue and the table of its commands.
QueueTyped ==
  /\ QueueProofs!IInv /\ next >= 1 /\ \A x \in Members(queue) : x >= 1
  /\ cmd \in Seq(Command) /\ Len(cmd) = next - 1

\* Users and connections.
SockTyped ==
  /\ conn \in [Slots -> 0 .. MaxConns]
  /\ requests \in [Conns -> Seq(Request)]
  /\ closed \subseteq Conns /\ sel \subseteq Slots
  /\ nconns \in Nat /\ sent \in Nat /\ events \in Nat

\* A command of the engine's own answers to nobody; any other one to a user that
\* is connected.
Owned(c) ==
  c.cb = "own" \/ (c.ctx \in Slots /\ conn[c.ctx] = c.conn /\ c.conn \in Conns \ closed)

QueueOwned == \A x \in Members(queue) : Owned(cmd[x])

\* Who is called for writing is connected; of a connection that its client closed
\* everything was read.
Present == (\A s \in sel : conn[s] # 0) /\ (\A c \in closed : requests[c] = <<>>)

\* What was written, and what waits to be.
OutInv ==
  /\ out \in [Conns -> Seq(Message)]
  /\ \A c \in Conns : RepliesTo(out[c], c)

FinishedInv ==
  /\ ~ wild
  /\ finished \in [Slots -> Seq(Message)]
  /\ \A s \in Slots : conn[s] # 0 => RepliesTo(finished[s], conn[s])

OwnerInv == QueueTyped /\ SockTyped /\ QueueOwned /\ Present /\ OutInv /\ FinishedInv

\* A step of the queue keeps its invariant, and brings no ids but new ones.
LEMMA QueueSteps ==
  ASSUME QueueProofs!IInv,
         \/ Engine!Submit \/ Engine!Finish \/ Engine!Cancel \/ Engine!GiveUp
  PROVE  /\ QueueProofs!IInv'
         /\ next' \in Nat /\ next <= next'
         /\ \A x \in Members(queue') : x \in Nat /\ x < next' /\ (x \in Members(queue) \/ next <= x)
<1>q. \A q : QueueProofs!Members(q) = Members(q)
  BY DEF QueueProofs!Members, Members
<1>n. next \in Nat /\ queue \in Seq(Nat)
  BY DEF QueueProofs!IInv
<1>o. ASSUME QueueProofs!IInv' PROVE \A x \in Members(queue') : x \in Nat /\ x < next'
  <2>1. queue' \in Seq(Nat) /\ \A x \in QueueProofs!Members(queue') : x < next'
    BY <1>o DEF QueueProofs!IInv, QueueProofs!Members
  <2> QED
    BY <1>q, <2>1 DEF Members
<1>1. CASE Engine!Submit
  <2>1. QueueProofs!Submit
    BY <1>1 DEF Engine!Submit, QueueProofs!Submit, Engine!Fresh, QueueProofs!Fresh
  <2>2. next' \in Nat /\ next < next' /\ queue' = queue \o QueueProofs!Fresh
    BY <2>1 DEF QueueProofs!Submit
  <2>3. next <= next'
    BY <1>n, <2>2
  <2>4. Members(queue') = Members(queue) \cup Members(QueueProofs!Fresh)
    BY <1>q, <1>n, <2>2, <2>3, QueueProofs!AddFresh DEF QueueProofs!IInv
  <2>5. \A x \in Members(QueueProofs!Fresh) : next <= x
    BY <1>q, <1>n, <2>2, <2>3, QueueProofs!FreshIds
  <2> QED
    BY <2>1, <2>2, <2>3, <2>4, <2>5, QueueProofs!StepIInv, <1>o DEF QueueProofs!Next
<1>2. CASE Engine!Finish
  <2>1. QueueProofs!Finish
    BY <1>2 DEF Engine!Finish, QueueProofs!Finish, Engine!Fresh, QueueProofs!Fresh
  <2>2. queue # <<>> /\ next' \in Nat /\ next <= next' /\ queue' = Tail(queue) \o QueueProofs!Fresh
    BY <2>1 DEF QueueProofs!Finish
  <2>3. /\ Tail(queue) \in Seq(Nat) /\ QueueProofs!Distinct(Tail(queue))
        /\ Members(Tail(queue)) \subseteq Members(queue)
    BY <1>q, <2>2, QueueProofs!FirstAndRest
  <2>4. \A x \in QueueProofs!Members(Tail(queue)) : x < next
    BY <1>q, <2>3 DEF QueueProofs!IInv
  <2>5. Members(queue') = Members(Tail(queue)) \cup Members(QueueProofs!Fresh)
    BY <1>q, <1>n, <2>2, <2>3, <2>4, QueueProofs!AddFresh
  <2>6. \A x \in Members(QueueProofs!Fresh) : next <= x
    BY <1>q, <1>n, <2>2, QueueProofs!FreshIds
  <2> QED
    BY <2>1, <2>2, <2>3, <2>5, <2>6, QueueProofs!StepIInv, <1>o DEF QueueProofs!Next
<1>3. CASE Engine!Cancel
  <2>1. QueueProofs!Cancel
    BY <1>3 DEF Engine!Cancel, QueueProofs!Cancel, Engine!Fresh, QueueProofs!Fresh
  <2>2. queue # <<>> /\ next' \in Nat /\ next < next'
    BY <2>1 DEF QueueProofs!Cancel
  <2>3. next <= next'
    BY <1>n, <2>2
  <2>4. /\ Tail(queue) \in Seq(Nat) /\ QueueProofs!Distinct(Tail(queue))
        /\ Members(Tail(queue)) \subseteq Members(queue)
    BY <1>q, <2>2, QueueProofs!FirstAndRest
  <2>5. \A x \in QueueProofs!Members(Tail(queue)) : x < next
    BY <1>q, <2>4 DEF QueueProofs!IInv
  <2>6. Members(queue') = Members(Tail(queue)) \cup Members(QueueProofs!Fresh)
    BY <1>q, <1>n, <2>1, <2>2, <2>4, <2>5, QueueProofs!InsertFresh
  <2>7. \A x \in Members(QueueProofs!Fresh) : next <= x
    BY <1>q, <1>n, <2>2, <2>3, QueueProofs!FreshIds
  <2> QED
    BY <2>1, <2>2, <2>3, <2>4, <2>6, <2>7, QueueProofs!StepIInv, <1>o DEF QueueProofs!Next
<1>4. CASE Engine!GiveUp
  <2>1. QueueProofs!GiveUp
    BY <1>4 DEF Engine!GiveUp, QueueProofs!GiveUp
  <2>2. queue # <<>> /\ next' = next /\ queue' = Tail(queue)
    BY <2>1 DEF QueueProofs!GiveUp
  <2>3. Members(Tail(queue)) \subseteq Members(queue)
    BY <1>q, <2>2, QueueProofs!FirstAndRest
  <2>4. next' \in Nat /\ next <= next'
    BY <1>n, <2>2
  <2> QED
    BY <2>1, <2>2, <2>3, <2>4, QueueProofs!StepIInv, <1>o DEF QueueProofs!Next
<1> QED
  BY <1>1, <1>2, <1>3, <1>4

\* A command that was not new in this step keeps its entry in the table, and one
\* that leaves takes nothing along.
LEMMA QueueKept ==
  ASSUME QueueTyped, QueueOwned, UNCHANGED <<cmd, conn, closed>>, next' = next,
         Engine!Finish \/ Engine!GiveUp \/ UNCHANGED <<queue, next, done, dropped>>
  PROVE  QueueTyped' /\ QueueOwned'
<1>1. CASE Engine!Finish \/ Engine!GiveUp
  <2>1. /\ QueueProofs!IInv'
        /\ \A x \in Members(queue') : x \in Members(queue) \/ next <= x
        /\ \A x \in Members(queue') : x \in Nat /\ x < next
    BY <1>1, QueueSteps DEF QueueTyped
  <2>2. \A x \in Members(queue') : x \in Members(queue)
    BY <2>1 DEF QueueTyped, QueueProofs!IInv
  <2>3. Members(queue)' = Members(queue')
    BY DEF Members
  <2>4. QueueTyped'
    BY <2>1, <2>2, <2>3 DEF QueueTyped
  <2>5. QueueOwned'
    BY <2>2, <2>3 DEF QueueOwned, Owned
  <2> QED
    BY <2>4, <2>5
<1>2. CASE UNCHANGED <<queue, next, done, dropped>>
  BY <1>2 DEF QueueTyped, QueueOwned, Owned, QueueProofs!IInv, QueueProofs!Members,
              QueueProofs!Distinct, Members
<1> QED
  BY <1>1, <1>2

\* New commands belong to the user that asked for them.
LEMMA QueueGrows ==
  ASSUME QueueTyped, QueueOwned, UNCHANGED <<conn, closed>>,
         conn \in [Slots -> 0 .. MaxConns],
         NEW s \in Slots, conn[s] \in Conns \ closed, NEW id \in Nat,
         NEW cbs \in Seq({"pass", "hangup", "entry", "null"}),
         next' = next + Len(cbs), cmd' = cmd \o Submitted(s, cbs, id),
         Engine!Submit \/ Engine!Cancel
  PROVE  QueueTyped' /\ QueueOwned'
<1> DEFINE new == Submitted(s, cbs, id)
           n == Len(cbs)
<1>1. new \in Seq(Command) /\ Len(new) = n
  BY DEF Submitted, Command
<1>2. ASSUME NEW i \in 1 .. n PROVE Owned(new[i])
  BY <1>2 DEF Submitted, Owned
<1>3. n \in Nat /\ next \in Nat /\ next >= 1 /\ cmd \in Seq(Command) /\ Len(cmd) = next - 1
  BY DEF QueueTyped, QueueProofs!IInv
<1>4. /\ QueueProofs!IInv'
      /\ \A x \in Members(queue') :
           x \in Nat /\ x < next' /\ (x \in Members(queue) \/ next <= x)
  BY QueueSteps DEF QueueTyped
<1>n. next' = next + n /\ cmd' = cmd \o new
  OBVIOUS
<1>5. \A x \in Members(queue) : x \in Nat /\ 1 <= x /\ x < next
  BY DEF QueueTyped, QueueProofs!IInv, QueueProofs!Members, Members
<1>o. \A x \in Members(queue) : Owned(cmd[x])
  BY DEF QueueOwned
<1> HIDE DEF new, n
<1>6. /\ cmd' \in Seq(Command) /\ Len(cmd') = next - 1 + n
      /\ \A x \in 1 .. next - 1 + n :
           cmd'[x] = IF x <= next - 1 THEN cmd[x] ELSE new[x - (next - 1)]
  <2>1. /\ cmd \o new \in Seq(Command) /\ Len(cmd \o new) = Len(cmd) + Len(new)
        /\ \A x \in 1 .. Len(cmd) + Len(new) :
             (cmd \o new)[x] = IF x <= Len(cmd) THEN cmd[x] ELSE new[x - Len(cmd)]
    BY <1>1, <1>3, ConcatProperties
  <2>2. Len(cmd) = next - 1 /\ Len(new) = n
    BY <1>1, <1>3
  <2> QED
    BY <1>n, <2>1, <2>2
<1>7. ASSUME NEW x \in Members(queue') PROVE x >= 1 /\ Owned(cmd'[x])
  <2>1. CASE x \in Members(queue)
    <3>1. x \in 1 .. next - 1 + n /\ x <= next - 1 /\ x >= 1
      BY <1>3, <1>5, <2>1
    <3> QED
      BY <1>6, <1>o, <2>1, <3>1
  <2>2. CASE next <= x
    <3>1. x \in Nat /\ x < next + n
      BY <1>4, <1>7, <1>n
    <3>2. x \in 1 .. next - 1 + n /\ ~ (x <= next - 1) /\ x - (next - 1) \in 1 .. n
      BY <1>3, <2>2, <3>1
    <3> QED
      BY <1>2, <1>6, <3>2
  <2> QED
    BY <1>4, <1>7, <2>1, <2>2
<1>8. Members(queue)' = Members(queue')
  BY DEF Members
<1>9. next' >= 1 /\ Len(cmd') = next' - 1
  BY <1>3, <1>6, <1>n
<1>10. QueueTyped'
  BY <1>4, <1>6, <1>7, <1>8, <1>9 DEF QueueTyped
<1>11. QueueOwned'
  BY <1>7, <1>8 DEF QueueOwned, Owned
<1> QED
  BY <1>10, <1>11

\* What a callback makes of a response goes to the client that asked.
LEMMA CallbackOwner ==
  ASSUME SockTyped, FinishedInv, NEW c \in Command, Owned(c), NEW info,
         NEW ret, Callback(c, info, ret), conn' = conn
  PROVE  FinishedInv'
<1> DEFINE r == Replies(c, info, ret)
<1>1. r = <<>> \/ (c.cb # "own" /\ r \in Seq(Message) /\ RepliesTo(r, c.conn))
  <2>1. CASE c.cb \in {"pass", "hangup"}
    <3> DEFINE m == [type |-> "reply", conn |-> c.conn, req |-> c.id, id |-> c.id,
                     last |-> ret # "interim"]
    <3>1. c.conn \in Conns /\ c.id \in Nat
      BY <2>1 DEF Owned, Command
    <3>2. m \in Message /\ m.conn = c.conn
      BY <3>1 DEF Message, Reply
    <3>3. r = <<m>>
      BY <2>1 DEF Replies
    <3> HIDE DEF m, r
    <3> QED
      BY <2>1, <3>2, <3>3, MembersOne DEF RepliesTo
  <2>2. CASE c.cb = "entry" /\ r # <<>>
    <3> DEFINE m == [type |-> "reply", conn |-> c.conn, req |-> c.id, id |-> 0,
                     last |-> ret = "OK"]
    <3>1. c.conn \in Conns /\ c.id \in Nat
      BY <2>2 DEF Owned, Command
    <3>2. m \in Message /\ m.conn = c.conn
      BY <3>1 DEF Message, Reply
    <3>3. r = <<m>>
      BY <2>2 DEF Replies
    <3> HIDE DEF m, r
    <3> QED
      BY <2>2, <3>2, <3>3, MembersOne DEF RepliesTo
  <2>3. CASE ~ (c.cb \in {"pass", "hangup"}) /\ ~ (c.cb = "entry")
    BY <2>3 DEF Replies
  <2> QED
    BY <2>1, <2>2, <2>3
<1>2. usock_cmd_enqueue(c.ctx, r)
  BY DEF Callback
<1> HIDE DEF r
<1>3. CASE r = <<>>
  BY <1>2, <1>3 DEF usock_cmd_enqueue, FinishedInv
<1>4. CASE r # <<>>
  <2>1. /\ c.ctx \in Slots /\ conn[c.ctx] = c.conn /\ c.conn # 0
        /\ r \in Seq(Message) /\ RepliesTo(r, c.conn)
    BY <1>1, <1>4 DEF Owned, Conns
  <2>2. /\ finished' = [finished EXCEPT ![c.ctx] = @ \o r]
        /\ wild' = wild
    BY <1>2, <1>4, <2>1 DEF usock_cmd_enqueue, Enqueued
  <2>3. finished[c.ctx] \in Seq(Message) /\ RepliesTo(finished[c.ctx], c.conn)
    BY <2>1 DEF FinishedInv
  <2>4. finished[c.ctx] \o r \in Seq(Message) /\ RepliesTo(finished[c.ctx] \o r, c.conn)
    BY <2>1, <2>3, MembersConcat, ConcatProperties DEF RepliesTo
  <2>5. finished' \in [Slots -> Seq(Message)]
    BY <2>2, <2>4 DEF FinishedInv
  <2>6. ASSUME NEW s \in Slots, conn[s] # 0 PROVE RepliesTo(finished'[s], conn[s])
    BY <2>1, <2>2, <2>4, <2>6 DEF FinishedInv
  <2> QED
    BY <2>2, <2>5, <2>6 DEF FinishedInv, RepliesTo
<1> QED
  BY <1>3, <1>4

\* The command at the head of the queue is known, and its owner too.
LEMMA FirstOwned ==
  ASSUME QueueTyped, QueueOwned, queue # <<>>
  PROVE  First \in Command /\ Owned(First)
<1>1. queue \in Seq(Nat) /\ Head(queue) = queue[1] /\ 1 \in 1 .. Len(queue)
  BY DEF QueueTyped, QueueProofs!IInv
<1>2. Head(queue) \in Members(queue)
  BY <1>1 DEF Members
<1>3. Head(queue) \in Nat /\ Head(queue) >= 1 /\ Head(queue) < next
  BY <1>1, <1>2 DEF QueueTyped, QueueProofs!IInv, QueueProofs!Members, Members
<1>4. Head(queue) \in 1 .. Len(cmd)
  BY <1>3 DEF QueueTyped, QueueProofs!IInv
<1> QED
  BY <1>2, <1>4 DEF First, QueueTyped, QueueOwned

\* Steps of the engine.
LEMMA EngineOwner ==
  ASSUME OwnerInv, Inform \/ GiveUp \/ \E ret \in {"OK", "error"} : Finish(ret)
  PROVE  OwnerInv'
<1> USE DEF OwnerInv, users, sock
<1>1. CASE Inform
  <2>1. QueueTyped' /\ QueueOwned'
    BY <1>1, QueueKept DEF Inform
  <2>2. FinishedInv'
    <3>1. First \in Command /\ Owned(First)
      BY <1>1, FirstOwned DEF Inform
    <3>2. conn' = conn /\ (Callback(First, TRUE, "interim") \/ UNCHANGED <<finished, wild>>)
      BY <1>1 DEF Inform
    <3>3. CASE Callback(First, TRUE, "interim")
      BY <3>1, <3>2, <3>3, CallbackOwner
    <3>4. CASE UNCHANGED <<finished, wild>>
      BY <3>2, <3>4 DEF FinishedInv, RepliesTo, Members
    <3> QED
      BY <3>2, <3>3, <3>4
  <2>3. SockTyped' /\ Present' /\ OutInv'
    BY <1>1 DEF Inform, SockTyped, Present, OutInv
  <2> QED
    BY <2>1, <2>2, <2>3
<1>2. CASE GiveUp
  <2>1. QueueTyped' /\ QueueOwned'
    <3>1. next' = next /\ UNCHANGED <<cmd, conn, closed>>
      BY <1>2 DEF GiveUp, Engine!GiveUp
    <3> QED
      BY <1>2, <3>1, QueueKept DEF GiveUp
  <2>2. SockTyped' /\ Present' /\ OutInv' /\ FinishedInv'
    BY <1>2 DEF GiveUp, SockTyped, Present, OutInv, FinishedInv
  <2> QED
    BY <2>1, <2>2
<1>3. ASSUME NEW ret \in {"OK", "error"}, Finish(ret) PROVE OwnerInv'
  <2>1. QueueTyped' /\ QueueOwned'
    BY <1>3, QueueKept DEF Finish
  <2>2. FinishedInv'
    <3>1. queue # <<>> /\ conn' = conn /\ Callback(First, infos > 0, ret)
      BY <1>3 DEF Finish, Engine!Finish
    <3>2. First \in Command /\ Owned(First)
      BY <3>1, FirstOwned
    <3> QED
      BY <3>1, <3>2, CallbackOwner
  <2>3. SockTyped' /\ Present' /\ OutInv'
    BY <1>3 DEF Finish, SockTyped, Present, OutInv
  <2> QED
    BY <2>1, <2>2, <2>3
<1> QED
  BY <1>1, <1>2, <1>3

\* The queue and its table stay.
LEMMA QueueStays ==
  ASSUME QueueTyped, UNCHANGED engine
  PROVE  QueueTyped' /\ Members(queue') = Members(queue) /\ cmd' = cmd
                     /\ Members(queue)' = Members(queue)
BY DEF engine, QueueTyped, QueueProofs!IInv, QueueProofs!Members, QueueProofs!Distinct, Members

\* Clients come, and leave; a client that leaves has no command in the queue.
LEMMA ConnectionOwner ==
  ASSUME ~ LeavesBusy, OwnerInv,
         \/ \E s \in Slots : Connect(s) \/ ReadEof(s)
         \/ \E c \in Conns : Close(c) \/ \E k \in Requests : Send(c, k)
  PROVE  OwnerInv'
<1> USE DEF OwnerInv, users
<1>1. ASSUME NEW s \in Slots, Connect(s) PROVE OwnerInv'
  <2>1. /\ conn[s] = 0 /\ conn' = [conn EXCEPT ![s] = nconns + 1] /\ nconns' = nconns + 1
        /\ nconns < MaxConns /\ finished' = [finished EXCEPT ![s] = <<>>]
        /\ UNCHANGED <<engine, sel, requests, closed, out, sent, events, wild>>
    BY <1>1 DEF Connect, NewList
  <2>2. nconns + 1 \in 0 .. MaxConns
    BY <2>1, UsockAssumption DEF SockTyped
  <2>3. SockTyped'
    BY <2>1, <2>2 DEF SockTyped
  <2>4. QueueTyped' /\ Members(queue)' = Members(queue) /\ cmd' = cmd
    BY <2>1, QueueStays
  <2>5. QueueOwned'
    BY <2>1, <2>4 DEF QueueOwned, Owned, SockTyped, Conns
  <2>6. Present'
    <3>1. s \notin sel
      BY <2>1 DEF Present
    <3> QED
      BY <2>1, <3>1 DEF Present, SockTyped
  <2>7. OutInv'
    BY <2>1 DEF OutInv
  <2>8. FinishedInv'
    BY <2>1 DEF FinishedInv, RepliesTo, Members, SockTyped
  <2> QED
    BY <2>3, <2>4, <2>5, <2>6, <2>7, <2>8
<1>2. ASSUME NEW s \in Slots, ReadEof(s) PROVE OwnerInv'
  <2>1. /\ conn[s] # 0 /\ s \notin sel /\ conn[s] \in closed
        /\ conn' = [conn EXCEPT ![s] = 0]
        /\ UNCHANGED <<engine, finished, sel, requests, closed, out, nconns, sent, events, wild>>
    BY <1>2 DEF ReadEof, Readable, sock
  <2>2. 0 \in 0 .. MaxConns
    BY UsockAssumption
  <2>3. SockTyped'
    BY <2>1, <2>2 DEF SockTyped
  <2>4. QueueTyped' /\ Members(queue)' = Members(queue) /\ cmd' = cmd
    BY <2>1, QueueStays
  <2>5. QueueOwned'
    BY <2>1, <2>4 DEF QueueOwned, Owned, SockTyped
  <2>6. Present' /\ OutInv' /\ FinishedInv'
    BY <2>1 DEF Present, SockTyped, OutInv, FinishedInv
  <2> QED
    BY <2>3, <2>4, <2>5, <2>6
<1>3. ASSUME NEW c \in Conns, Close(c) PROVE OwnerInv'
  <2>1. /\ requests[c] = <<>> /\ ~ Busy(c) /\ closed' = closed \cup {c}
        /\ UNCHANGED <<engine, users, sel, requests, out, nconns, sent, events, wild>>
    BY <1>3 DEF Close
  <2>2. QueueTyped' /\ Members(queue)' = Members(queue) /\ cmd' = cmd
    BY <2>1, QueueStays
  <2>3. \A x \in Members(queue) : cmd[x].conn # c
    BY <2>1 DEF Busy, Members
  <2>4. QueueOwned'
    BY <2>1, <2>2, <2>3 DEF QueueOwned, Owned
  <2>5. SockTyped' /\ Present' /\ OutInv' /\ FinishedInv'
    BY <2>1 DEF SockTyped, Present, OutInv, FinishedInv
  <2> QED
    BY <2>2, <2>4, <2>5
<1>4. ASSUME NEW c \in Conns, NEW k \in Requests, Send(c, k) PROVE OwnerInv'
  <2>1. /\ c \notin closed /\ sent' = sent + 1
        /\ requests' = [requests EXCEPT ![c] = Append(@, [kind |-> k, id |-> sent])]
        /\ UNCHANGED <<engine, users, sel, closed, out, nconns, events, wild>>
    BY <1>4 DEF Send
  <2>2. QueueTyped' /\ Members(queue)' = Members(queue) /\ cmd' = cmd
    BY <2>1, QueueStays
  <2>3. QueueOwned'
    BY <2>1, <2>2 DEF QueueOwned, Owned
  <2>4. [kind |-> k, id |-> sent] \in Request
    BY UsockAssumption DEF Request, SockTyped
  <2>5. SockTyped'
    BY <2>1, <2>4 DEF SockTyped
  <2>6. Present' /\ OutInv' /\ FinishedInv'
    BY <2>1 DEF SockTyped, Present, OutInv, FinishedInv
  <2> QED
    BY <2>2, <2>3, <2>5, <2>6
<1> QED
  BY <1>1, <1>2, <1>3, <1>4

\* A request is read from a connection that is open.
LEMMA RequestOwner ==
  ASSUME OwnerInv, NEW s \in Slots, ReadRequest(s)
  PROVE  OwnerInv'
<1> USE DEF OwnerInv
<1> DEFINE r == Head(requests[conn[s]])
<1>1. /\ conn[s] # 0 /\ requests[conn[s]] # <<>>
      /\ SubmitFor(s, r) \/ HangUpFor(s, r) \/ usock_rcv_event(s, r) \/ Rejected(r)
      /\ requests' = [requests EXCEPT ![conn[s]] = <<>>]
      /\ UNCHANGED <<sel, closed, out, nconns, sent, events>>
  BY DEF ReadRequest, Readable, Unread
<1>2. conn[s] \in Conns \ closed
  BY <1>1 DEF SockTyped, Present, Conns
<1>3. r \in Request
  BY <1>1, <1>2 DEF SockTyped
<1>4. conn' = conn
  BY <1>1 DEF SubmitFor, HangUpFor, usock_rcv_event, Rejected, users
<1> HIDE DEF r
<1>5. SockTyped' /\ Present' /\ OutInv'
  <2>1. <<>> \in Seq(Request)
    OBVIOUS
  <2>2. SockTyped'
    BY <1>1, <1>4, <2>1 DEF SockTyped
  <2>3. Present'
    BY <1>1, <1>2, <1>4 DEF Present, SockTyped
  <2>4. OutInv'
    BY <1>1 DEF OutInv
  <2> QED
    BY <2>2, <2>3, <2>4
<1>6. ASSUME UNCHANGED <<finished, wild>> PROVE FinishedInv'
  BY <1>4, <1>6 DEF FinishedInv, RepliesTo, Members
<1>7. ASSUME UNCHANGED engine PROVE QueueTyped' /\ QueueOwned'
  BY <1>1, <1>4, <1>7, QueueStays DEF QueueOwned, Owned
<1>8. conn \in [Slots -> 0 .. MaxConns] /\ r.id \in Nat
  BY <1>3 DEF SockTyped, Request
<1>9. CASE SubmitFor(s, r)
  <2> DEFINE cbs == Callbacks(r.kind)
  <2>1. cbs \in Seq({"pass", "hangup", "entry", "null"})
    <3>1. <<"pass">> \in Seq({"pass", "hangup", "entry", "null"})
      OBVIOUS
    <3>2. <<"null", "entry">> \in Seq({"pass", "hangup", "entry", "null"})
      OBVIOUS
    <3>3. <<"null">> \in Seq({"pass", "hangup", "entry", "null"})
      OBVIOUS
    <3>4. <<>> \in Seq({"pass", "hangup", "entry", "null"})
      OBVIOUS
    <3> QED
      BY <3>1, <3>2, <3>3, <3>4 DEF Callbacks
  <2>2. next' = next + Len(cbs) /\ Engine!Submit /\ cmd' = cmd \o Submitted(s, cbs, r.id)
    BY <1>9 DEF SubmitFor
  <2> HIDE DEF cbs
  <2>3. QueueTyped' /\ QueueOwned'
    BY <1>1, <1>2, <1>4, <1>8, <2>1, <2>2, QueueGrows
  <2>4. FinishedInv'
    BY <1>6, <1>9 DEF SubmitFor, users
  <2> QED
    BY <1>5, <2>3, <2>4
<1>10. CASE HangUpFor(s, r)
  <2> DEFINE cbs == <<"hangup">>
  <2>1. cbs \in Seq({"pass", "hangup", "entry", "null"}) /\ Len(cbs) = 1
    OBVIOUS
  <2>2. next' = next + Len(cbs) /\ cmd' = cmd \o Submitted(s, cbs, r.id)
        /\ (Engine!Submit \/ Engine!Cancel)
    BY <1>10 DEF HangUpFor
  <2> HIDE DEF cbs
  <2>3. QueueTyped' /\ QueueOwned'
    BY <1>1, <1>2, <1>4, <1>8, <2>1, <2>2, QueueGrows
  <2>4. CASE UNCHANGED users /\ UNCHANGED wild
    BY <1>5, <1>6, <2>3, <2>4 DEF users
  <2>5. CASE Engine!Cancel /\ Callback(First, FALSE, "cancelled")
    <3>1. First \in Command /\ Owned(First)
      BY <2>5, FirstOwned DEF Engine!Cancel
    <3>2. FinishedInv'
      BY <1>4, <2>5, <3>1, CallbackOwner
    <3> QED
      BY <1>5, <2>3, <3>2
  <2> QED
    BY <1>10, <2>4, <2>5 DEF HangUpFor
<1>11. CASE usock_rcv_event(s, r)
  BY <1>5, <1>6, <1>7, <1>11 DEF usock_rcv_event
<1>12. CASE Rejected(r)
  BY <1>5, <1>6, <1>7, <1>12 DEF Rejected, users
<1> QED
  BY <1>1, <1>9, <1>10, <1>11, <1>12

\* What is written to a connection is what waited for it.
LEMMA WriteOwner ==
  ASSUME OwnerInv, NEW s \in Slots, NEW j \in 0 .. Len(finished[s]), Write(s, j)
  PROVE  OwnerInv'
<1> USE DEF OwnerInv
<1> DEFINE q == finished[s]
           left  == SubSeq(q, j + 1, Len(q))
           whole == SubSeq(q, 1, j)
           part  == <<[type |-> "part"]>>
<1>1. /\ s \in sel /\ sel' = sel \ {s}
      /\ finished' = [finished EXCEPT ![s] = left]
      /\ \/ out' = [out EXCEPT ![conn[s]] = @ \o whole]
         \/ out' = [out EXCEPT ![conn[s]] = @ \o Append(whole, [type |-> "part"])]
      /\ UNCHANGED <<engine, conn, requests, closed, nconns, sent, events, wild>>
  BY DEF Write
<1>2. conn[s] # 0 /\ conn[s] \in Conns
  BY <1>1 DEF SockTyped, Present, Conns
<1>3. q \in Seq(Message) /\ RepliesTo(q, conn[s]) /\ Len(q) \in Nat /\ j \in 0 .. Len(q)
  BY <1>2 DEF FinishedInv
<1> HIDE DEF q
<1>4. /\ left \in Seq(Message) /\ Members(left) \subseteq Members(q)
      /\ whole \in Seq(Message) /\ Members(whole) \subseteq Members(q)
  <2>1. j + 1 \in 1 .. Len(q) + 1 /\ Len(q) \in 0 .. Len(q) /\ 1 \in 1 .. Len(q) + 1
    BY <1>3
  <2> QED
    BY <1>3, <2>1, MembersSubSeq
<1>5. part \in Seq(Message) /\ RepliesTo(part, conn[s])
  <2>1. [type |-> "part"] \in Message
    BY DEF Message, Part
  <2> QED
    BY <2>1, MembersOne DEF RepliesTo
<1>6. Append(whole, [type |-> "part"]) = whole \o part
  BY <1>4, <1>5
<1> HIDE DEF left, whole, part
<1>7. RepliesTo(left, conn[s]) /\ RepliesTo(whole, conn[s])
  BY <1>3, <1>4 DEF RepliesTo
<1>8. whole \o part \in Seq(Message) /\ RepliesTo(whole \o part, conn[s])
  BY <1>4, <1>5, <1>7, MembersConcat, ConcatProperties DEF RepliesTo
<1>9. FinishedInv'
  BY <1>1, <1>4, <1>7 DEF FinishedInv, RepliesTo
<1>10. OutInv'
  <2>1. PICK w \in Seq(Message) : RepliesTo(w, conn[s]) /\ out' = [out EXCEPT ![conn[s]] = @ \o w]
    BY <1>1, <1>4, <1>6, <1>7, <1>8
  <2>2. out[conn[s]] \in Seq(Message) /\ RepliesTo(out[conn[s]], conn[s])
    BY <1>2 DEF OutInv
  <2>3. out[conn[s]] \o w \in Seq(Message) /\ RepliesTo(out[conn[s]] \o w, conn[s])
    BY <2>1, <2>2, MembersConcat, ConcatProperties DEF RepliesTo
  <2> QED
    BY <1>2, <2>1, <2>3 DEF OutInv, RepliesTo
<1>11. SockTyped' /\ Present'
  BY <1>1 DEF SockTyped, Present
<1>12. QueueTyped' /\ QueueOwned'
  BY <1>1, QueueStays DEF QueueOwned, Owned
<1> QED
  BY <1>9, <1>10, <1>11, <1>12

\* Every step keeps the invariant, if clients do not leave with commands queued.
LEMMA StepOwner == ASSUME ~ LeavesBusy, OwnerInv, [Next]_vars PROVE OwnerInv'
<1> USE DEF OwnerInv
<1>0. ASSUME UNCHANGED <<engine, conn, finished, sock, events, wild>>, SockTyped', Present'
      PROVE  OwnerInv'
  <2>1. QueueTyped' /\ QueueOwned'
    BY <1>0, QueueStays DEF QueueOwned, Owned, sock
  <2>2. OutInv' /\ FinishedInv'
    BY <1>0 DEF OutInv, FinishedInv, RepliesTo, Members, sock
  <2> QED
    BY <1>0, <2>1, <2>2
<1>1. CASE select
  BY <1>0, <1>1 DEF select, users, sock, SockTyped, Present
<1>2. CASE usock_evt_send
  <2> DEFINE e == <<[type |-> "event", number |-> events + 1]>>
  <2>1. /\ finished' = [s \in Slots |-> IF s \in Subscribers THEN finished[s] \o e
                                                             ELSE finished[s]]
        /\ events' = events + 1
        /\ UNCHANGED <<engine, conn, sel, sock, wild>>
    BY <1>2 DEF usock_evt_send, Enqueued
  <2>2. e \in Seq(Message) /\ \A c : RepliesTo(e, c)
    <3>1. [type |-> "event", number |-> events + 1] \in Message
      BY DEF Message, Event, SockTyped
    <3> QED
      BY <3>1, MembersOne DEF RepliesTo
  <2> HIDE DEF e
  <2>3. ASSUME NEW s \in Slots
        PROVE  finished[s] \o e \in Seq(Message)
               /\ (conn[s] # 0 => RepliesTo(finished[s] \o e, conn[s]))
    <3>1. finished[s] \in Seq(Message) /\ (conn[s] # 0 => RepliesTo(finished[s], conn[s]))
      BY DEF FinishedInv
    <3>2. /\ finished[s] \o e \in Seq(Message)
          /\ Members(finished[s] \o e) = Members(finished[s]) \cup Members(e)
      BY <2>2, <3>1, MembersConcat, ConcatProperties
    <3> QED
      BY <2>2, <3>1, <3>2 DEF RepliesTo
  <2>4. FinishedInv'
    BY <2>1, <2>3 DEF FinishedInv, RepliesTo
  <2>5. QueueTyped' /\ QueueOwned'
    BY <2>1, QueueStays DEF QueueOwned, Owned, sock
  <2>6. SockTyped' /\ Present' /\ OutInv'
    BY <2>1 DEF SockTyped, Present, OutInv, sock
  <2> QED
    BY <2>4, <2>5, <2>6
<1>3. ASSUME NEW s \in Slots, WriteClosed(s) PROVE OwnerInv'
  BY <1>0, <1>3 DEF WriteClosed, users, sock, SockTyped, Present
<1>4. CASE UNCHANGED vars
  BY <1>0, <1>4 DEF vars, users, sock, SockTyped, Present
<1> QED
  BY <1>1, <1>2, <1>3, <1>4, EngineOwner, ConnectionOwner, RequestOwner, WriteOwner
     DEF Next, Daemon

\* The daemon starts with it.
LEMMA InitOwner == Init => OwnerInv
<1> SUFFICES ASSUME Init PROVE OwnerInv
  OBVIOUS
<1>1. /\ next \in Nat /\ next >= 1 /\ done = {} /\ dropped = {}
      /\ queue = [i \in 1 .. next - 1 |-> i]
  BY DEF Init, Engine!Init
<1>2. queue \in Seq(Nat) /\ Len(queue) = next - 1 /\ \A i \in 1 .. next - 1 : queue[i] = i
  BY <1>1
<1>3. QueueProofs!Distinct(queue) /\ QueueProofs!Members(queue) = Members(queue)
      /\ \A x \in Members(queue) : x \in 1 .. next - 1
  BY <1>1, <1>2 DEF QueueProofs!Distinct, QueueProofs!Members, Members
<1>4. QueueProofs!IInv
  BY <1>1, <1>2, <1>3 DEF QueueProofs!IInv
<1>5. [cb |-> "own", ctx |-> 0, conn |-> 0, id |-> 0] \in Command
  BY UsockAssumption DEF Command
<1>6. /\ cmd \in Seq(Command) /\ Len(cmd) = next - 1
      /\ \A i \in 1 .. next - 1 : cmd[i].cb = "own"
  BY <1>1, <1>5 DEF Init
<1>7. QueueTyped /\ QueueOwned
  BY <1>1, <1>3, <1>4, <1>6 DEF QueueTyped, QueueOwned, Owned
<1>8. SockTyped /\ Present
  BY UsockAssumption DEF Init, SockTyped, Present
<1>9. OutInv /\ FinishedInv
  BY DEF Init, OutInv, FinishedInv, RepliesTo, Members
<1> QED
  BY <1>7, <1>8, <1>9 DEF OwnerInv

\* As long as no client leaves with commands of its own in the queue, replies go
\* to the client that asked, and no user that is freed is written to.
THEOREM RepliesToOwnerHolds == ASSUME ~ LeavesBusy PROVE Spec => []RepliesToOwner
<1>1. Init => OwnerInv
  BY InitOwner
<1>2. OwnerInv => RepliesToOwner
  BY DEF OwnerInv, OutInv, FinishedInv, RepliesTo, RepliesToOwner, Members
<1>3. OwnerInv /\ [Next]_vars => OwnerInv'
  BY StepOwner
<1> QED
  BY <1>1, <1>2, <1>3, PTL DEF Spec
-----------------------------------------------------------------------------
(* Order: what a connection is told is in the order of its requests and of *)
(* the events.  What was written to it, what waits in finished_ucmds, the  *)
(* commands of its user in the queue and the requests not yet read follow  *)
(* one another: nothing in one of them is to be told before what is in the *)
(* one before.                                                             *)

\* A reply to request r may come after the reply x.
Behind(x, r) ==
  x.req < r \/ (HungUp(x.req) /\ x.req # r) \/ (x.req = r /\ ~ x.last)

\* Message y may come after x.
Before(x, y) ==
  /\ x.type = "reply" /\ y.type = "reply" => Behind(x, y.req)
  /\ x.type = "event" /\ y.type = "event" => x.number < y.number

InTurn == {p \in Message \X Message : Before(p[1], p[2])}

\* Command n is answered, and m behind it in the queue may be answered after it.
Replying(n) == cmd[n].cb \in {"pass", "hangup", "entry"}

Ahead(n, m) ==
  Replying(n) /\ Replying(m) /\ cmd[n].conn = cmd[m].conn =>
    cmd[n].id < cmd[m].id \/ (cmd[n].cb = "hangup" /\ cmd[n].id # cmd[m].id)

InQueueOrder == {p \in Nat \X Nat : Ahead(p[1], p[2])}

\* Message x was written to connection c or waits for it.
SaidTo(x, c) ==
  \/ x \in Members(out[c])
  \/ \E s \in Slots : conn[s] = c /\ x \in Members(finished[s])

\* A connection has one user.
OneUser ==
  \A s \in Slots : conn[s] <= nconns /\ \A t \in Slots : conn[s] # 0 /\ conn[s] = conn[t] => s = t

\* The messages are in order, and none is of the future.
Talk ==
  /\ \A c \in Conns : Sorted(out[c], InTurn)
  /\ \A s \in Slots : conn[s] # 0 => Sorted(out[conn[s]] \o finished[s], InTurn)
  /\ \A c \in Conns, x \in Message : SaidTo(x, c) =>
       (x.type = "event" => x.number <= events) /\ (x.type = "reply" => x.req < sent)

\* What was said to the user of a queued command may come before its reply, and the
\* commands of the queue are in order.
Spoken(c, r) == \A x \in Message : SaidTo(x, c) /\ x.type = "reply" => Behind(x, r)

QueueOrder ==
  /\ \A n \in Members(queue) : Replying(n) =>
       cmd[n].id < sent /\ Spoken(cmd[n].conn, cmd[n].id)
  /\ Sorted(queue, InQueueOrder)

\* A request not yet read is younger than all that.
RequestOrder ==
  \A c \in Conns : \A r \in Members(requests[c]) :
    /\ r.id < sent
    /\ \A x \in Message : SaidTo(x, c) /\ x.type = "reply" => x.req < r.id
    /\ \A n \in Members(queue) : Replying(n) /\ cmd[n].conn = c => cmd[n].id < r.id

OrderInv == OneUser /\ Talk /\ QueueOrder /\ RequestOrder
-----------------------------------------------------------------------------
\* Membership in the two relations: the first one, ...
LEMMA InTurnPair ==
  ASSUME NEW x \in Message, NEW y \in Message
  PROVE  <<x, y>> \in InTurn <=> Before(x, y)
BY DEF InTurn

\* ... the second one.
LEMMA QueuePair ==
  ASSUME NEW n \in Nat, NEW m \in Nat
  PROVE  <<n, m>> \in InQueueOrder <=> Ahead(n, m)
BY DEF InQueueOrder

\* In the next state.
LEMMA QueuePairNext ==
  ASSUME NEW n \in Nat, NEW m \in Nat
  PROVE  <<n, m>> \in InQueueOrder' <=> Ahead(n, m)'
BY DEF InQueueOrder

\* A hang-up stays one, so what may come before stays so.
LEMMA StillBefore ==
  ASSUME \A id : HungUp(id) => HungUp(id)'
  PROVE  /\ InTurn \subseteq InTurn'
         /\ \A x, r : Behind(x, r) => Behind(x, r)'
<1>1. \A x, r : Behind(x, r) => Behind(x, r)'
  BY DEF Behind
<1>2. \A x, y : Before(x, y) => Before(x, y)'
  BY <1>1 DEF Before
<1> QED
  BY <1>1, <1>2 DEF InTurn

\* What a reply is said to be is what was written or waits.
LEMMA SaidToNext ==
  ASSUME NEW x, NEW c
  PROVE  SaidTo(x, c)' <=> \/ x \in Members(out'[c])
                           \/ \E s \in Slots : conn'[s] = c /\ x \in Members(finished'[s])
BY DEF SaidTo, Members

\* The order of the messages in the next state, ...
LEMMA TalkNext ==
  Talk' <=> /\ \A c \in Conns : Sorted(out'[c], InTurn')
            /\ \A s \in Slots : conn'[s] # 0 => Sorted(out'[conn'[s]] \o finished'[s], InTurn')
            /\ \A c \in Conns, x \in Message : SaidTo(x, c)' =>
                 (x.type = "event" => x.number <= events') /\ (x.type = "reply" => x.req < sent')
BY DEF Talk, Sorted

\* ... of the commands.
LEMMA QueueOrderNext ==
  QueueOrder' <=> /\ \A n \in Members(queue') :
                       (Replying(n) => cmd[n].id < sent /\ Spoken(cmd[n].conn, cmd[n].id))'
                  /\ Sorted(queue', InQueueOrder')
BY DEF QueueOrder, Sorted, Members

\* ... and of the requests that are not read.
LEMMA RequestOrderNext ==
  RequestOrder' <=>
    \A c \in Conns : \A r \in Members(requests'[c]) :
      /\ r.id < sent'
      /\ \A x \in Message : SaidTo(x, c)' /\ x.type = "reply" => x.req < r.id
      /\ \A n \in Members(queue') : Replying(n)' /\ cmd'[n].conn = c => cmd'[n].id < r.id
BY DEF RequestOrder, Members
-----------------------------------------------------------------------------
\* One more message for a user, after all that was said to it.
LEMMA OneMore ==
  ASSUME OutInv, FinishedInv, NEW s \in Slots, conn[s] \in Conns,
         Sorted(out[conn[s]] \o finished[s], InTurn), NEW m \in Message,
         \A x \in Message : SaidTo(x, conn[s]) => Before(x, m)
  PROVE  Sorted(out[conn[s]] \o (finished[s] \o <<m>>), InTurn)
<1> DEFINE o == out[conn[s]]
           f == finished[s]
<1>1. o \in Seq(Message) /\ f \in Seq(Message) /\ <<m>> \in Seq(Message)
  BY DEF OutInv, FinishedInv
<1>2. \A x \in Members(o) \cup Members(f) : x \in Message /\ SaidTo(x, conn[s])
  BY <1>1 DEF SaidTo, Members
<1> HIDE DEF o, f
<1>3. o \o f \in Seq(Message) /\ Members(o \o f) = Members(o) \cup Members(f)
  BY <1>1, MembersConcat, ConcatProperties
<1>4. Sorted(o \o f, InTurn) /\ Sorted(<<m>>, InTurn) /\ Members(<<m>>) = {m}
  BY SortedOne, MembersOne DEF o, f
<1>5. \A x \in Members(o \o f), y \in Members(<<m>>) : <<x, y>> \in InTurn
  BY <1>2, <1>3, <1>4, InTurnPair
<1>6. Sorted((o \o f) \o <<m>>, InTurn)
  BY <1>1, <1>3, <1>4, <1>5, SortedConcat
<1>7. (o \o f) \o <<m>> = o \o (f \o <<m>>)
  BY <1>1, ConcatAssociative
<1> QED
  BY <1>6, <1>7 DEF o, f

\* The reply that a callback makes, if it makes one.
LEMMA ReplyMade ==
  ASSUME NEW c \in Command, Owned(c), NEW info, NEW ret
  PROVE  \/ Replies(c, info, ret) = <<>>
         \/ /\ c.cb \in {"pass", "hangup", "entry"}
            /\ \E m \in Message : /\ Replies(c, info, ret) = <<m>> /\ m.type = "reply"
                                  /\ m.req = c.id /\ (ret = "interim" => ~ m.last)
<1> DEFINE r == Replies(c, info, ret)
<1>1. CASE c.cb \in {"pass", "hangup"}
  <2> DEFINE m == [type |-> "reply", conn |-> c.conn, req |-> c.id, id |-> c.id,
                   last |-> ret # "interim"]
  <2>1. c.conn \in Conns /\ c.id \in Nat
    BY <1>1 DEF Owned, Command
  <2>2. m \in Message /\ m.type = "reply" /\ m.req = c.id
    BY <2>1 DEF Message, Reply
  <2>3. ret = "interim" => ~ m.last
    OBVIOUS
  <2>4. r = <<m>>
    BY <1>1 DEF Replies
  <2> HIDE DEF m, r
  <2> QED
    BY <1>1, <2>2, <2>3, <2>4 DEF r
<1>2. CASE c.cb = "entry" /\ r # <<>>
  <2> DEFINE m == [type |-> "reply", conn |-> c.conn, req |-> c.id, id |-> 0,
                   last |-> ret = "OK"]
  <2>1. c.conn \in Conns /\ c.id \in Nat
    BY <1>2 DEF Owned, Command
  <2>2. m \in Message /\ m.type = "reply" /\ m.req = c.id
    BY <2>1 DEF Message, Reply
  <2>3. ret = "interim" => ~ m.last
    OBVIOUS
  <2>4. r = <<m>>
    BY <1>2 DEF Replies
  <2> HIDE DEF m, r
  <2> QED
    BY <1>2, <2>2, <2>3, <2>4 DEF r
<1>3. CASE ~ (c.cb \in {"pass", "hangup"}) /\ ~ (c.cb = "entry")
  BY <1>3 DEF Replies
<1> QED
  BY <1>1, <1>2, <1>3

\* What a callback says comes after all that was said to the client, and nothing
\* else is new.
LEMMA CallbackOrder ==
  ASSUME OwnerInv, OneUser, Talk, NEW c \in Command, Owned(c),
         c.cb \in {"pass", "hangup", "entry"} => c.id < sent /\ Spoken(c.conn, c.id),
         NEW info, NEW ret, Callback(c, info, ret),
         UNCHANGED <<conn, out, sent, events, nconns>>, \A id : HungUp(id) => HungUp(id)'
  PROVE  /\ OneUser' /\ Talk'
         /\ \A d \in Conns, x \in Message : SaidTo(x, d)' =>
              \/ SaidTo(x, d)
              \/ /\ d = c.conn /\ c.cb \in {"pass", "hangup", "entry"}
                 /\ x.type = "reply" /\ x.req = c.id /\ (ret = "interim" => ~ x.last)
<1> DEFINE r == Replies(c, info, ret)
<1>1. OneUser'
  BY DEF OneUser
<1>2. usock_cmd_enqueue(c.ctx, r) /\ OutInv /\ FinishedInv
  BY DEF Callback, OwnerInv
<1>3. InTurn \subseteq InTurn'
  BY StillBefore
<1>4. CASE r = <<>>
  <2>1. UNCHANGED finished
    BY <1>2, <1>4 DEF usock_cmd_enqueue
  <2>2. \A d, x : SaidTo(x, d)' <=> SaidTo(x, d)
    BY <2>1 DEF SaidTo, Members
  <2>3. /\ \A d \in Conns : Sorted(out[d], InTurn')
        /\ \A s \in Slots : conn[s] # 0 => Sorted(out[conn[s]] \o finished[s], InTurn')
    BY <1>3, SortedMore DEF Talk
  <2>4. Talk'
    BY <2>1, <2>2, <2>3, TalkNext DEF Talk
  <2> QED
    BY <1>1, <2>2, <2>4
<1>5. CASE r # <<>>
  <2>1. PICK m \in Message : r = <<m>> /\ m.type = "reply" /\ m.req = c.id
                             /\ (ret = "interim" => ~ m.last)
    BY <1>5, ReplyMade
  <2>2. c.cb \in {"pass", "hangup", "entry"}
    BY <1>5, ReplyMade
  <2> HIDE DEF r
  <2>3. c.ctx \in Slots /\ conn[c.ctx] = c.conn /\ c.conn \in Conns /\ c.conn # 0
    BY <2>2 DEF Owned, Conns
  <2>4. finished' = [finished EXCEPT ![c.ctx] = @ \o <<m>>]
    BY <1>2, <1>5, <2>1, <2>3 DEF usock_cmd_enqueue, Enqueued
  <2>5. finished \in [Slots -> Seq(Message)]
    BY <1>2 DEF FinishedInv
  <2>6. Members(finished[c.ctx] \o <<m>>) = Members(finished[c.ctx]) \cup {m}
    <3> DEFINE f == finished[c.ctx]
               a == <<m>>
    <3>1. f \in Seq(Message) /\ a \in Seq(Message) /\ Members(a) = {m}
      BY <2>3, <2>5, MembersOne
    <3> HIDE DEF f, a
    <3>2. Members(f \o a) = Members(f) \cup Members(a)
      BY <3>1, MembersConcat
    <3> QED
      BY <3>1, <3>2 DEF f, a
  <2>7. \A s \in Slots : Members(finished'[s]) =
                           IF s = c.ctx THEN Members(finished[s]) \cup {m} ELSE Members(finished[s])
    BY <2>4, <2>5, <2>6
  <2>8. \A d, x : SaidTo(x, d)' => SaidTo(x, d) \/ (d = c.conn /\ x = m)
    <3> SUFFICES ASSUME NEW d, NEW x, SaidTo(x, d)' PROVE SaidTo(x, d) \/ (d = c.conn /\ x = m)
      OBVIOUS
    <3>1. \/ x \in Members(out[d])
          \/ \E s \in Slots : conn[s] = d /\ x \in Members(finished'[s])
      BY SaidToNext
    <3>2. CASE x \in Members(out[d])
      BY <3>2 DEF SaidTo
    <3>3. ASSUME NEW s \in Slots, conn[s] = d, x \in Members(finished'[s])
          PROVE  SaidTo(x, d) \/ (d = c.conn /\ x = m)
      BY <2>3, <2>7, <3>3 DEF SaidTo
    <3> QED
      BY <3>1, <3>2, <3>3
  <2>9. \A x \in Message : SaidTo(x, c.conn) => Before(x, m)
    BY <2>1, <2>2 DEF Before, Spoken
  <2>10. Sorted(out[c.conn] \o (finished[c.ctx] \o <<m>>), InTurn)
    BY <1>2, <2>3, <2>9, OneMore DEF Talk
  <2>11. \A s \in Slots : conn[s] # 0 => Sorted(out[conn[s]] \o finished'[s], InTurn)
    BY <2>3, <2>4, <2>5, <2>10 DEF Talk
  <2>12. \A d \in Conns : Sorted(out[d], InTurn)
    BY DEF Talk
  <2>13. /\ \A d \in Conns : Sorted(out[d], InTurn')
         /\ \A s \in Slots : conn[s] # 0 => Sorted(out[conn[s]] \o finished'[s], InTurn')
    BY <1>3, <2>11, <2>12, SortedMore
  <2>14. Talk'
    BY <2>1, <2>2, <2>8, <2>13, TalkNext DEF Talk
  <2> QED
    BY <1>1, <2>1, <2>2, <2>8, <2>14
<1> QED
  BY <1>4, <1>5
-----------------------------------------------------------------------------
\* The first command, and those behind it.
LEMMA FirstOrder ==
  ASSUME QueueTyped, QueueOrder, queue # <<>>
  PROVE  /\ Head(queue) \in Nat /\ Tail(queue) \in Seq(Nat)
         /\ Sorted(Tail(queue), InQueueOrder)
         /\ Members(queue) = {Head(queue)} \cup Members(Tail(queue))
         /\ \A n \in Members(Tail(queue)) : n \in Nat /\ Ahead(Head(queue), n)
<1> DEFINE h == Head(queue)
           t == Tail(queue)
           a == <<h>>
<1>1. queue \in Seq(Nat)
  BY DEF QueueTyped, QueueProofs!IInv
<1>2. h \in Nat /\ t \in Seq(Nat) /\ a \in Seq(Nat) /\ queue = a \o t
  BY <1>1
<1>3. Members(queue) = {h} \cup Members(t)
  BY <1>1, MembersHeadTail
<1>4. Members(a) = {h}
  BY MembersOne
<1> HIDE DEF h, t, a
<1>5. Sorted(t, InQueueOrder) /\ \A x \in Members(a), y \in Members(t) : <<x, y>> \in InQueueOrder
  BY <1>2, SortedConcat DEF QueueOrder
<1>6. \A n \in Members(t) : n \in Nat
  BY <1>2 DEF Members
<1>7. \A n \in Members(t) : n \in Nat /\ Ahead(h, n)
  BY <1>2, <1>4, <1>5, <1>6, QueuePair
<1> QED
  BY <1>2, <1>3, <1>5, <1>7 DEF h, t

\* The commands of the queue are in the table, and an answered one belongs to a
\* connection.
LEMMA QueuedKnown ==
  ASSUME QueueTyped, QueueOwned, NEW n \in Members(queue)
  PROVE  /\ n \in Nat /\ n \in 1 .. next - 1 /\ n \in DOMAIN cmd /\ cmd[n] \in Command
         /\ Replying(n) => cmd[n].conn \in Conns
<1>1. n \in Nat /\ n >= 1 /\ n < next /\ next \in Nat
  BY DEF QueueTyped, QueueProofs!IInv, QueueProofs!Members, Members
<1>2. n \in 1 .. next - 1 /\ n \in DOMAIN cmd /\ cmd[n] \in Command
  BY <1>1 DEF QueueTyped
<1> QED
  BY <1>1, <1>2 DEF QueueOwned, Owned, Replying

\* A reply of one command may come before the reply of another one behind it.
LEMMA AfterFirst ==
  ASSUME NEW n, NEW m, n \in DOMAIN cmd, Ahead(n, m), Replying(n), Replying(m),
         cmd[n].conn = cmd[m].conn, NEW x, x.req = cmd[n].id
  PROVE  Behind(x, cmd[m].id)
BY DEF Ahead, Behind, HungUp

\* The first command says something, and leaves the queue if that was its last word.
LEMMA AnswerOrder ==
  ASSUME OwnerInv, OrderInv, queue # <<>>,
         UNCHANGED <<cmd, conn, out, sent, events, requests, nconns>>,
         NEW info, NEW ret, Callback(First, info, ret),
         (queue' = queue /\ ret = "interim") \/ queue' = Tail(queue)
  PROVE  OrderInv'
<1> DEFINE h == Head(queue)
<1>1. /\ h \in Nat /\ Tail(queue) \in Seq(Nat)
      /\ Sorted(Tail(queue), InQueueOrder)
      /\ Members(queue) = {h} \cup Members(Tail(queue))
      /\ \A n \in Members(Tail(queue)) : n \in Nat /\ Ahead(h, n)
  BY FirstOrder DEF OwnerInv, OrderInv
<1>2. First = cmd[h] /\ First \in Command /\ Owned(First)
  BY FirstOwned DEF OwnerInv, First
<1> HIDE DEF h
<1>3. /\ \A id : HungUp(id) => HungUp(id)'
      /\ InQueueOrder' = InQueueOrder
      /\ \A x, r : Behind(x, r) => Behind(x, r)'
      /\ \A n : Replying(n)' <=> Replying(n)
  <2>1. \A id : HungUp(id) => HungUp(id)'
    BY DEF HungUp
  <2>2. \A n, m : Ahead(n, m)' <=> Ahead(n, m)
    BY DEF Ahead, Replying
  <2> QED
    BY <2>1, <2>2, StillBefore DEF InQueueOrder, Replying
<1>4. \A n \in Members(queue) : Replying(n) => cmd[n].id < sent /\ Spoken(cmd[n].conn, cmd[n].id)
  BY DEF OrderInv, QueueOrder
<1>5. First.cb \in {"pass", "hangup", "entry"} => Replying(h) /\ First.id < sent /\ Spoken(First.conn, First.id)
  BY <1>1, <1>2, <1>4 DEF Replying
<1>6. /\ OneUser' /\ Talk'
      /\ \A d \in Conns, x \in Message : SaidTo(x, d)' =>
           \/ SaidTo(x, d)
           \/ /\ d = First.conn /\ First.cb \in {"pass", "hangup", "entry"}
              /\ x.type = "reply" /\ x.req = First.id /\ (ret = "interim" => ~ x.last)
  BY <1>2, <1>3, <1>5, CallbackOrder DEF OrderInv
<1>7. \A n \in Members(queue') :
        n \in Members(queue) /\ ((n = h /\ ret = "interim") \/ Ahead(h, n))
  BY <1>1
<1>8. ASSUME NEW n \in Members(queue'), Replying(n), NEW x \in Message,
             SaidTo(x, cmd[n].conn)', x.type = "reply"
      PROVE  Behind(x, cmd[n].id)
  <2>1. n \in Members(queue) /\ cmd[n].conn \in Conns /\ h \in DOMAIN cmd
    BY <1>1, <1>7, <1>8, QueuedKnown DEF OwnerInv
  <2>2. CASE SaidTo(x, cmd[n].conn)
    BY <1>4, <1>8, <2>1, <2>2 DEF Spoken
  <2>3. CASE ~ SaidTo(x, cmd[n].conn)
    <3>1. /\ cmd[n].conn = cmd[h].conn /\ Replying(h) /\ x.req = cmd[h].id
          /\ (ret = "interim" => ~ x.last)
      BY <1>2, <1>5, <1>6, <1>8, <2>1, <2>3
    <3>2. CASE Ahead(h, n)
      BY <1>8, <2>1, <3>1, <3>2, AfterFirst
    <3>3. CASE n = h /\ ret = "interim"
      BY <3>1, <3>3 DEF Behind
    <3> QED
      BY <1>7, <3>2, <3>3
  <2> QED
    BY <2>2, <2>3
<1>9. QueueOrder'
  <2>1. ASSUME NEW n \in Members(queue'), Replying(n)
        PROVE  cmd'[n].id < sent' /\ (Spoken(cmd[n].conn, cmd[n].id))'
    <3>1. cmd'[n].id < sent'
      BY <1>4, <1>7, <2>1
    <3>2. \A x \in Message : SaidTo(x, cmd[n].conn)' /\ x.type = "reply" => Behind(x, cmd[n].id)'
      BY <1>3, <1>8, <2>1
    <3>3. (Spoken(cmd[n].conn, cmd[n].id))'
      BY <3>2 DEF Spoken, SaidTo, Behind, HungUp
    <3> QED
      BY <3>1, <3>3
  <2>2. \A n \in Members(queue') :
           (Replying(n) => cmd[n].id < sent /\ Spoken(cmd[n].conn, cmd[n].id))'
    BY <1>3, <2>1
  <2>3. Sorted(queue', InQueueOrder')
    BY <1>1, <1>3 DEF OrderInv, QueueOrder
  <2> QED
    BY <2>2, <2>3, QueueOrderNext
<1>10. RequestOrder'
  <2> SUFFICES ASSUME NEW c \in Conns, NEW r \in Members(requests[c])
               PROVE  /\ r.id < sent
                      /\ \A x \in Message : SaidTo(x, c)' /\ x.type = "reply" => x.req < r.id
                      /\ \A n \in Members(queue') : Replying(n)' /\ cmd[n].conn = c => cmd[n].id < r.id
    BY RequestOrderNext
  <2>1. /\ r.id < sent
        /\ \A x \in Message : SaidTo(x, c) /\ x.type = "reply" => x.req < r.id
        /\ \A n \in Members(queue) : Replying(n) /\ cmd[n].conn = c => cmd[n].id < r.id
    BY DEF OrderInv, RequestOrder
  <2>2. First.cb \in {"pass", "hangup", "entry"} /\ First.conn = c => First.id < r.id
    BY <1>1, <1>2, <1>5, <2>1
  <2> QED
    BY <1>3, <1>6, <1>7, <2>1, <2>2
<1> QED
  BY <1>6, <1>9, <1>10 DEF OrderInv
-----------------------------------------------------------------------------
\* Steps that say nothing, and only take something away.
LEMMA QuietOrder ==
  ASSUME OrderInv, UNCHANGED <<cmd, conn, out, finished, sent, events, nconns>>,
         Members(queue') \subseteq Members(queue),
         Sorted(queue', InQueueOrder),
         \A c \in Conns : Members(requests'[c]) \subseteq Members(requests[c])
  PROVE  OrderInv'
<1>1. /\ \A d, x : SaidTo(x, d)' <=> SaidTo(x, d)
      /\ \A n : Replying(n)' <=> Replying(n)
      /\ \A x, r : Behind(x, r)' <=> Behind(x, r)
  BY DEF SaidTo, Members, Replying, Behind, HungUp
<1>2. InTurn' = InTurn /\ InQueueOrder' = InQueueOrder
  <2>1. \A n, m : Ahead(n, m)' <=> Ahead(n, m)
    BY DEF Ahead, Replying
  <2>2. \A x, y : Before(x, y)' <=> Before(x, y)
    BY <1>1 DEF Before
  <2> QED
    BY <2>1, <2>2 DEF InTurn, InQueueOrder
<1>3. OneUser'
  BY DEF OrderInv, OneUser
<1>4. Talk'
  BY <1>1, <1>2, TalkNext DEF OrderInv, Talk
<1>5. QueueOrder'
  <2>1. ASSUME NEW n \in Members(queue')
        PROVE  (Replying(n) => cmd[n].id < sent /\ Spoken(cmd[n].conn, cmd[n].id))'
    <3>1. Replying(n) => cmd[n].id < sent /\ Spoken(cmd[n].conn, cmd[n].id)
      BY <2>1 DEF OrderInv, QueueOrder
    <3> QED
      BY <1>1, <3>1 DEF Spoken, SaidTo, Members, Behind, HungUp, Replying
  <2> QED
    BY <1>2, <2>1, QueueOrderNext
<1>6. RequestOrder'
  BY <1>1, RequestOrderNext DEF OrderInv, RequestOrder
<1> QED
  BY <1>3, <1>4, <1>5, <1>6 DEF OrderInv

\* Steps of the engine.
LEMMA EngineOrder ==
  ASSUME OwnerInv, OrderInv, Inform \/ GiveUp \/ \E ret \in {"OK", "error"} : Finish(ret)
  PROVE  OrderInv'
<1> USE DEF users, sock
<1>0. /\ UNCHANGED <<cmd, conn, out, sent, events, requests, nconns>>
      /\ Sorted(queue, InQueueOrder)
  BY DEF Inform, GiveUp, Finish, OrderInv, QueueOrder
<1>1. CASE Inform
  <2>1. queue # <<>> /\ queue' = queue
        /\ (Callback(First, TRUE, "interim") \/ UNCHANGED finished)
    BY <1>1 DEF Inform
  <2>2. CASE Callback(First, TRUE, "interim")
    BY <1>0, <2>1, <2>2, AnswerOrder
  <2>3. CASE UNCHANGED finished
    BY <1>0, <2>1, <2>3, QuietOrder
  <2> QED
    BY <2>1, <2>2, <2>3
<1>2. CASE GiveUp
  <2>1. queue # <<>> /\ queue' = Tail(queue) /\ UNCHANGED finished
    BY <1>2 DEF GiveUp, Engine!GiveUp
  <2>2. Sorted(Tail(queue), InQueueOrder) /\ Members(Tail(queue)) \subseteq Members(queue)
    BY <2>1, FirstOrder DEF OwnerInv, OrderInv
  <2> QED
    BY <1>0, <2>1, <2>2, QuietOrder
<1>3. ASSUME NEW ret \in {"OK", "error"}, Finish(ret) PROVE OrderInv'
  <2>1. queue # <<>> /\ queue' = Tail(queue) \o Engine!Fresh /\ next' = next
        /\ Callback(First, infos > 0, ret)
    BY <1>3 DEF Finish, Engine!Finish
  <2>2. next \in Nat /\ queue \in Seq(Nat)
    BY DEF OwnerInv, QueueTyped, QueueProofs!IInv
  <2>3. Engine!Fresh = <<>>
    BY <2>1, <2>2 DEF Engine!Fresh
  <2>4. queue' = Tail(queue)
    <3>1. Tail(queue) \in Seq(Nat)
      BY <2>1, <2>2
    <3> QED
      BY <2>1, <2>3, <3>1, ConcatEmptySeq
  <2> QED
    BY <1>0, <2>1, <2>4, AnswerOrder
<1> QED
  BY <1>1, <1>2, <1>3

\* Steps that leave the queue and the requests alone and make no new reply.
LEMMA SaidNothing ==
  ASSUME OwnerInv, OrderInv, UNCHANGED <<queue, cmd, sent, requests>>,
         \A d \in Conns, x \in Message : SaidTo(x, d)' /\ x.type = "reply" => SaidTo(x, d)
  PROVE  InTurn' = InTurn /\ QueueOrder' /\ RequestOrder'
<1>1. /\ \A n : Replying(n)' <=> Replying(n)
      /\ \A x, r : Behind(x, r)' <=> Behind(x, r)
      /\ Members(queue') = Members(queue)
  BY DEF Replying, Behind, HungUp
<1>2. InTurn' = InTurn /\ InQueueOrder' = InQueueOrder
  <2>1. \A n, m : Ahead(n, m)' <=> Ahead(n, m)
    BY DEF Ahead, Replying
  <2>2. \A x, y : Before(x, y)' <=> Before(x, y)
    BY <1>1 DEF Before
  <2> QED
    BY <2>1, <2>2 DEF InTurn, InQueueOrder
<1>3. QueueOrder'
  <2>1. ASSUME NEW n \in Members(queue), Replying(n)
        PROVE  cmd[n].id < sent' /\ (Spoken(cmd[n].conn, cmd[n].id))'
    <3>1. cmd[n].id < sent /\ Spoken(cmd[n].conn, cmd[n].id) /\ cmd[n].conn \in Conns
      BY <2>1, QueuedKnown DEF OrderInv, QueueOrder, OwnerInv
    <3>2. \A x \in Message : SaidTo(x, cmd[n].conn)' /\ x.type = "reply" => Behind(x, cmd[n].id)'
      BY <1>1, <3>1 DEF Spoken
    <3>3. (Spoken(cmd[n].conn, cmd[n].id))'
      BY <3>2 DEF Spoken, SaidTo, Behind, HungUp
    <3> QED
      BY <3>1, <3>3
  <2>2. \A n \in Members(queue') :
          (Replying(n) => cmd[n].id < sent /\ Spoken(cmd[n].conn, cmd[n].id))'
    BY <1>1, <2>1
  <2> QED
    BY <1>2, <2>2, QueueOrderNext DEF OrderInv, QueueOrder
<1>4. RequestOrder'
  BY <1>1, RequestOrderNext DEF OrderInv, RequestOrder
<1> QED
  BY <1>2, <1>3, <1>4

\* Clients come, send and leave.
LEMMA ConnectionOrder ==
  ASSUME OwnerInv, OrderInv,
         \/ \E s \in Slots : Connect(s) \/ ReadEof(s)
         \/ \E c \in Conns : Close(c) \/ \E k \in Requests : Send(c, k)
  PROVE  OrderInv'
<1> USE DEF users
<1>1. ASSUME NEW s \in Slots, Connect(s) \/ ReadEof(s) PROVE OrderInv'
  <2>1. /\ UNCHANGED <<engine, requests, out, sent, events>>
        /\ \/ /\ conn[s] = 0 /\ conn' = [conn EXCEPT ![s] = nconns + 1] /\ nconns' = nconns + 1
              /\ nconns < MaxConns /\ finished' = [finished EXCEPT ![s] = <<>>]
           \/ /\ conn[s] # 0 /\ conn' = [conn EXCEPT ![s] = 0] /\ UNCHANGED <<finished, nconns>>
    BY <1>1 DEF Connect, NewList, ReadEof, Readable, sock
  <2>2. /\ conn \in [Slots -> 0 .. MaxConns] /\ nconns \in Nat
        /\ finished \in [Slots -> Seq(Message)] /\ out \in [Conns -> Seq(Message)]
        /\ \A t \in Slots : conn[t] \in Nat
    BY UsockAssumption DEF OwnerInv, SockTyped, FinishedInv, OutInv
  <2>3. OneUser'
    <3>1. /\ \A t \in Slots : conn[t] <= nconns
          /\ \A t, u \in Slots : conn[t] # 0 /\ conn[t] = conn[u] => t = u
      BY DEF OrderInv, OneUser
    <3>2. CASE conn' = [conn EXCEPT ![s] = nconns + 1] /\ nconns' = nconns + 1
      <4>1. /\ conn'[s] = nconns + 1 /\ \A t \in Slots : t # s => conn'[t] = conn[t]
            /\ \A t \in Slots : conn[t] # nconns + 1 /\ conn[t] <= nconns + 1
        BY <2>2, <3>1, <3>2
      <4> QED
        BY <2>2, <3>1, <3>2, <4>1 DEF OneUser
    <3>3. CASE conn' = [conn EXCEPT ![s] = 0] /\ nconns' = nconns
      <4>1. conn'[s] = 0 /\ \A t \in Slots : t # s => conn'[t] = conn[t]
        BY <2>2, <3>3
      <4>2. \A t \in Slots : 0 <= nconns
        BY <2>2
      <4> QED
        BY <3>1, <3>3, <4>1, <4>2 DEF OneUser
    <3> QED
      BY <2>1, <3>2, <3>3
  <2>4. \A t \in Slots : conn'[t] # 0 =>
          \/ conn'[t] = conn[t] /\ finished'[t] = finished[t]
          \/ finished'[t] = <<>> /\ conn'[t] \in Conns
    <3>1. conn'[s] # 0 => conn'[s] \in Conns
      BY <2>1, <2>2, UsockAssumption DEF Conns
    <3> QED
      BY <2>1, <2>2, <3>1
  <2>5. \A d \in Conns, x \in Message : SaidTo(x, d)' => SaidTo(x, d)
    <3>1. Members(<<>>) = {}
      BY DEF Members
    <3>2. \A d \in Conns : d # 0
      BY DEF Conns
    <3> QED
      BY <2>1, <2>4, <3>1, <3>2, SaidToNext DEF SaidTo
  <2>6. InTurn' = InTurn /\ QueueOrder' /\ RequestOrder'
    BY <2>1, <2>5, SaidNothing DEF engine
  <2>7. Talk'
    <3>1. ASSUME NEW t \in Slots, conn'[t] # 0
          PROVE  Sorted(out[conn'[t]] \o finished'[t], InTurn)
      <4>1. CASE finished'[t] = <<>> /\ conn'[t] \in Conns
        <5>1. out[conn'[t]] \in Seq(Message)
          BY <2>2, <4>1
        <5> QED
          BY <4>1, <5>1, ConcatEmptySeq DEF OrderInv, Talk
      <4> QED
        BY <2>4, <3>1, <4>1 DEF OrderInv, Talk
    <3> QED
      BY <2>1, <2>5, <2>6, <3>1, TalkNext DEF OrderInv, Talk
  <2> QED
    BY <2>3, <2>6, <2>7 DEF OrderInv
<1>2. ASSUME NEW c \in Conns, Close(c) PROVE OrderInv'
  BY <1>2, QuietOrder DEF Close, engine, OrderInv, QueueOrder
<1>3. ASSUME NEW c \in Conns, NEW k \in Requests, Send(c, k) PROVE OrderInv'
  <2> DEFINE r == [kind |-> k, id |-> sent]
  <2>1. /\ sent' = sent + 1 /\ sent \in Nat
        /\ requests' = [requests EXCEPT ![c] = Append(@, r)]
        /\ UNCHANGED <<queue, cmd, conn, out, finished, events, nconns>>
    BY <1>3 DEF Send, engine, OwnerInv, SockTyped
  <2>2. r \in Request /\ r.id = sent
    BY <2>1, UsockAssumption DEF Request
  <2> HIDE DEF r
  <2>3. /\ requests \in [Conns -> Seq(Request)]
        /\ \A d \in Conns : \A e \in Members(requests'[d]) :
             e \in Members(requests[d]) \/ (d = c /\ e = r)
    <3>1. requests \in [Conns -> Seq(Request)]
      BY DEF OwnerInv, SockTyped
    <3>2. requests[c] \in Seq(Request) /\ <<r>> \in Seq(Request)
          /\ Append(requests[c], r) = requests[c] \o <<r>>
      BY <2>2, <3>1, AppendIsConcat
    <3>3. Members(requests'[c]) = Members(requests[c]) \cup {r}
      <4> DEFINE q == requests[c]
                 a == <<r>>
      <4>1. q \in Seq(Request) /\ a \in Seq(Request) /\ Members(a) = {r}
            /\ requests'[c] = q \o a
        BY <2>1, <3>1, <3>2, MembersOne
      <4> HIDE DEF q, a
      <4>2. Members(q \o a) = Members(q) \cup Members(a)
        BY <4>1, MembersConcat
      <4> QED
        BY <4>1, <4>2 DEF q
    <3> QED
      BY <2>1, <3>1, <3>3
  <2>4. /\ \A d, x : SaidTo(x, d)' <=> SaidTo(x, d)
        /\ \A n : Replying(n)' <=> Replying(n)
        /\ \A x, y : Behind(x, y)' <=> Behind(x, y)
    BY <2>1 DEF SaidTo, Members, Replying, Behind, HungUp
  <2>5. InTurn' = InTurn /\ InQueueOrder' = InQueueOrder
    <3>1. \A n, m : Ahead(n, m)' <=> Ahead(n, m)
      BY <2>1 DEF Ahead, Replying
    <3>2. \A x, y : Before(x, y)' <=> Before(x, y)
      BY <2>4 DEF Before
    <3> QED
      BY <3>1, <3>2 DEF InTurn, InQueueOrder
  <2>6. \A x \in Message : x.type = "reply" => x.req \in Nat
    BY DEF Message, Reply, Event, Part
  <2>7. Talk' /\ OneUser'
    <3>1. \A d \in Conns, x \in Message : SaidTo(x, d)' =>
            (x.type = "event" => x.number <= events') /\ (x.type = "reply" => x.req < sent')
      BY <2>1, <2>4, <2>6 DEF OrderInv, Talk
    <3> QED
      BY <2>1, <2>5, <3>1, TalkNext DEF OrderInv, Talk, OneUser
  <2>8. \A n \in Members(queue) : Replying(n) => cmd[n].id \in Nat
    BY QueuedKnown DEF OwnerInv, Command
  <2>9. QueueOrder'
    <3>1. ASSUME NEW n \in Members(queue), Replying(n)
          PROVE  cmd[n].id < sent' /\ (Spoken(cmd[n].conn, cmd[n].id))'
      <4>1. cmd[n].id < sent /\ Spoken(cmd[n].conn, cmd[n].id)
        BY <3>1 DEF OrderInv, QueueOrder
      <4>2. (Spoken(cmd[n].conn, cmd[n].id))'
        <5>1. PICK d, i : d = cmd[n].conn /\ i = cmd[n].id
          OBVIOUS
        <5>2. Spoken(d, i)'
          BY <2>4, <4>1, <5>1 DEF Spoken
        <5>3. cmd'[n].conn = d /\ cmd'[n].id = i
          BY <2>1, <5>1
        <5> QED
          BY <5>2, <5>3 DEF Spoken, SaidTo, Members, Behind, HungUp
      <4> QED
        BY <2>1, <2>8, <3>1, <4>1, <4>2
    <3>2. \A n \in Members(queue') :
            (Replying(n) => cmd[n].id < sent /\ Spoken(cmd[n].conn, cmd[n].id))'
      BY <2>1, <2>4, <3>1
    <3> QED
      BY <2>1, <2>5, <3>2, QueueOrderNext DEF OrderInv, QueueOrder
  <2>10. RequestOrder'
    <3> SUFFICES ASSUME NEW d \in Conns, NEW e \in Members(requests'[d])
                 PROVE  /\ e.id < sent'
                        /\ \A x \in Message : SaidTo(x, d) /\ x.type = "reply" => x.req < e.id
                        /\ \A n \in Members(queue) : Replying(n) /\ cmd[n].conn = d =>
                                                       cmd[n].id < e.id
      BY <2>1, <2>4, RequestOrderNext
    <3>1. CASE e \in Members(requests[d])
      <4>1. e.id \in Nat
        <5>1. requests[d] \in Seq(Request)
          BY <2>3
        <5>2. e \in Request
          BY <3>1, <5>1 DEF Members
        <5> QED
          BY <5>2 DEF Request
      <4> QED
        BY <2>1, <3>1, <4>1 DEF OrderInv, RequestOrder
    <3>2. CASE d = c /\ e = r
      BY <2>1, <2>2, <3>2 DEF OrderInv, Talk, QueueOrder
    <3> QED
      BY <2>3, <3>1, <3>2
  <2> QED
    BY <2>7, <2>9, <2>10 DEF OrderInv
<1> QED
  BY <1>1, <1>2, <1>3

\* What is written moves from the list to the connection; what is left comes after
\* it, also if a message was written in part.
LEMMA WriteOrder ==
  ASSUME OwnerInv, OrderInv, NEW s \in Slots, NEW j \in 0 .. Len(finished[s]), Write(s, j)
  PROVE  OrderInv'
<1> DEFINE c == conn[s]
           o == out[c]
           q == finished[s]
           left  == SubSeq(q, j + 1, Len(q))
           whole == SubSeq(q, 1, j)
           m     == [type |-> "part"]
<1>1. /\ s \in sel
      /\ finished' = [finished EXCEPT ![s] = left]
      /\ \/ out' = [out EXCEPT ![c] = @ \o whole]
         \/ out' = [out EXCEPT ![c] = @ \o Append(whole, m)]
      /\ UNCHANGED <<queue, cmd, conn, requests, nconns, sent, events>>
  BY DEF Write, engine
<1>2. c # 0 /\ c \in Conns
  BY <1>1 DEF OwnerInv, SockTyped, Present, Conns
<1>3. /\ out \in [Conns -> Seq(Message)] /\ finished \in [Slots -> Seq(Message)]
      /\ o \in Seq(Message) /\ q \in Seq(Message) /\ j \in 0 .. Len(q)
  BY <1>2 DEF OwnerInv, OutInv, FinishedInv
<1>4. m \in Message /\ m.type = "part"
  BY DEF Message, Part
<1>5. Sorted(o \o q, InTurn)
  BY <1>2 DEF OrderInv, Talk
<1>s. \A x \in Members(o) \cup Members(q) : SaidTo(x, c)
  BY DEF SaidTo
<1> HIDE DEF c, o, q, m
<1>6. left \in Seq(Message) /\ whole \in Seq(Message) /\ whole \o left = q
  BY <1>3, SplitSeq
<1> HIDE DEF left, whole
<1>7. /\ Sorted(o, InTurn) /\ Sorted(q, InTurn)
      /\ \A x \in Members(o), y \in Members(q) : <<x, y>> \in InTurn
  BY <1>3, <1>5, SortedConcat
<1>8. /\ Sorted(whole, InTurn) /\ Sorted(left, InTurn)
      /\ \A x \in Members(whole), y \in Members(left) : <<x, y>> \in InTurn
  BY <1>6, <1>7, SortedConcat
<1>9. Members(q) = Members(whole) \cup Members(left)
  <2>t. left \in Seq(Message) /\ whole \in Seq(Message)
    BY <1>6
  <2>1. Members(whole \o left) = Members(whole) \cup Members(left)
    BY <2>t, MembersConcat
  <2> QED
    BY <1>6, <2>1
<1>10. \A x \in Members(o) \cup Members(q) : x \in Message
  BY <1>3 DEF Members
<1>11. \A x \in Message : <<x, m>> \in InTurn /\ <<m, x>> \in InTurn
  BY <1>4, InTurnPair DEF Before
<1>12. PICK w \in Seq(Message) :
         /\ out' = [out EXCEPT ![c] = @ \o w]
         /\ Sorted(w, InTurn) /\ Members(w) \subseteq Members(whole) \cup {m}
  <2>1. CASE out' = [out EXCEPT ![c] = @ \o whole]
    BY <1>6, <1>8, <2>1
  <2>2. CASE out' = [out EXCEPT ![c] = @ \o Append(whole, m)]
    <3> DEFINE a == <<m>>
    <3>1. a \in Seq(Message) /\ Members(a) = {m} /\ Sorted(a, InTurn)
      BY <1>4, MembersOne, SortedOne
    <3>2. Append(whole, m) = whole \o a
      BY <1>4, <1>6, AppendIsConcat
    <3> HIDE DEF a
    <3>3. /\ whole \o a \in Seq(Message)
          /\ Members(whole \o a) = Members(whole) \cup Members(a)
      BY <1>6, <3>1, MembersConcat, ConcatProperties
    <3>4. Sorted(whole \o a, InTurn)
      BY <1>6, <1>8, <1>9, <1>10, <1>11, <3>1, SortedConcat
    <3> QED
      BY <2>2, <3>1, <3>2, <3>3, <3>4
  <2> QED
    BY <1>1, <2>1, <2>2
<1>13. Sorted(o \o w, InTurn) /\ o \o w \in Seq(Message) /\ Members(o \o w) = Members(o) \cup Members(w)
  <2>1. \A x \in Members(o), y \in Members(w) : <<x, y>> \in InTurn
    BY <1>7, <1>9, <1>10, <1>11, <1>12
  <2> QED
    BY <1>3, <1>7, <1>12, <2>1, SortedConcat, MembersConcat, ConcatProperties
<1>14. Sorted((o \o w) \o left, InTurn)
  <2>1. \A x \in Members(o \o w), y \in Members(left) : <<x, y>> \in InTurn
    BY <1>7, <1>8, <1>9, <1>10, <1>11, <1>12, <1>13
  <2> QED
    BY <1>6, <1>8, <1>13, <2>1, SortedConcat
<1>15. /\ out'[c] = o \o w /\ finished'[s] = left
       /\ \A d \in Conns : d # c => out'[d] = out[d]
       /\ \A t \in Slots : t # s => finished'[t] = finished[t]
  BY <1>1, <1>2, <1>3, <1>12 DEF o
<1>16. \A d \in Conns, x \in Message : SaidTo(x, d)' => SaidTo(x, d) \/ x = m
  <2> SUFFICES ASSUME NEW d \in Conns, NEW x \in Message, SaidTo(x, d)', x # m
               PROVE  SaidTo(x, d)
    OBVIOUS
  <2>1. CASE x \in Members(out'[d])
    BY <1>9, <1>12, <1>13, <1>15, <1>s, <2>1 DEF SaidTo
  <2>2. ASSUME NEW t \in Slots, conn[t] = d, x \in Members(finished'[t])
        PROVE  SaidTo(x, d)
    BY <1>9, <1>15, <1>s, <2>2 DEF SaidTo, c
  <2> QED
    BY <1>1, <2>1, <2>2, SaidToNext
<1>17. InTurn' = InTurn /\ QueueOrder' /\ RequestOrder'
  BY <1>1, <1>4, <1>16, SaidNothing
<1>18. Talk'
  <2>1. \A d \in Conns : Sorted(out'[d], InTurn)
    BY <1>13, <1>15 DEF OrderInv, Talk
  <2>2. ASSUME NEW t \in Slots, conn[t] # 0
        PROVE  Sorted(out'[conn[t]] \o finished'[t], InTurn)
    <3>1. CASE t = s
      BY <1>14, <1>15, <3>1 DEF c
    <3>2. CASE t # s
      <4>1. conn[t] # c /\ conn[t] \in Conns
        BY <1>2, <2>2, <3>2 DEF OrderInv, OneUser, OwnerInv, SockTyped, Conns, c
      <4> QED
        BY <1>15, <2>2, <3>2, <4>1 DEF OrderInv, Talk
    <3> QED
      BY <3>1, <3>2
  <2>3. \A d \in Conns, x \in Message : SaidTo(x, d)' =>
          (x.type = "event" => x.number <= events) /\ (x.type = "reply" => x.req < sent)
    BY <1>4, <1>16 DEF OrderInv, Talk
  <2> QED
    BY <1>1, <1>17, <2>1, <2>2, <2>3, TalkNext
<1>19. OneUser'
  BY <1>1 DEF OrderInv, OneUser
<1> QED
  BY <1>17, <1>18, <1>19 DEF OrderInv

\* An event is younger than all events before it.
LEMMA EventOrder == ASSUME OwnerInv, OrderInv, usock_evt_send PROVE OrderInv'
<1> DEFINE m == [type |-> "event", number |-> events + 1]
<1>1. /\ finished' = [s \in Slots |-> IF s \in Subscribers THEN finished[s] \o <<m>>
                                                           ELSE finished[s]]
      /\ events' = events + 1 /\ events \in Nat
      /\ UNCHANGED <<queue, cmd, conn, out, requests, nconns, sent>>
  BY DEF usock_evt_send, Enqueued, engine, sock, OwnerInv, SockTyped
<1>2. m \in Message /\ m.type = "event" /\ m.number = events + 1
  BY <1>1 DEF Message, Event
<1>3. \A x \in Message : x.type = "event" => x.number \in Nat
  BY DEF Message, Reply, Event, Part
<1> HIDE DEF m
<1>4. \A d \in Conns, x \in Message : SaidTo(x, d) => Before(x, m)
  BY <1>1, <1>2, <1>3 DEF Before, OrderInv, Talk
<1>5. \A s \in Slots : finished[s] \in Seq(Message) /\ (conn[s] # 0 => conn[s] \in Conns)
  BY DEF OwnerInv, FinishedInv, SockTyped, Conns
<1>6. ASSUME NEW s \in Slots, conn[s] # 0 PROVE Sorted(out[conn[s]] \o finished'[s], InTurn)
  <2>1. Sorted(out[conn[s]] \o finished[s], InTurn)
    BY <1>6 DEF OrderInv, Talk
  <2>2. Sorted(out[conn[s]] \o (finished[s] \o <<m>>), InTurn)
    BY <1>2, <1>4, <1>5, <1>6, <2>1, OneMore DEF OwnerInv
  <2> QED
    BY <1>1, <2>1, <2>2
<1>7. ASSUME NEW s \in Slots PROVE \A x \in Members(finished'[s]) : x \in Members(finished[s]) \/ x = m
  <2> DEFINE q == finished[s]
             a == <<m>>
  <2>1. q \in Seq(Message) /\ a \in Seq(Message) /\ Members(a) = {m}
        /\ (finished'[s] = q \/ finished'[s] = q \o a)
    BY <1>1, <1>2, <1>5, MembersOne
  <2> HIDE DEF q, a
  <2>2. Members(q \o a) = Members(q) \cup Members(a)
    BY <2>1, MembersConcat
  <2> QED
    BY <2>1, <2>2 DEF q
<1>8. \A d \in Conns, x \in Message : SaidTo(x, d)' => SaidTo(x, d) \/ x = m
  BY <1>1, <1>7, SaidToNext DEF SaidTo
<1>9. InTurn' = InTurn /\ QueueOrder' /\ RequestOrder'
  BY <1>1, <1>2, <1>8, SaidNothing
<1>10. Talk'
  <2>1. \A d \in Conns, x \in Message : SaidTo(x, d)' =>
          (x.type = "event" => x.number <= events') /\ (x.type = "reply" => x.req < sent)
    BY <1>1, <1>2, <1>3, <1>8 DEF OrderInv, Talk
  <2> QED
    BY <1>1, <1>6, <1>9, <2>1, TalkNext DEF OrderInv, Talk
<1>11. OneUser'
  BY <1>1 DEF OrderInv, OneUser
<1> QED
  BY <1>9, <1>10, <1>11 DEF OrderInv
-----------------------------------------------------------------------------
\* The commands that a step creates.
NewIds == {n \in Nat : next <= n /\ n < next'}

\* The commands of a request join the table.
LEMMA TableGrows ==
  ASSUME OwnerInv, NEW s \in Slots, conn[s] \in Conns, NEW id \in Nat,
         NEW cbs \in Seq({"pass", "hangup", "entry", "null"}),
         next' = next + Len(cbs), cmd' = cmd \o Submitted(s, cbs, id)
  PROVE  /\ \A n \in 1 .. next - 1 : n \in DOMAIN cmd' /\ cmd'[n] = cmd[n]
         /\ \A n \in NewIds : /\ n - (next - 1) \in 1 .. Len(cbs)
                              /\ cmd'[n].cb = cbs[n - (next - 1)]
                              /\ cmd'[n].conn = conn[s] /\ cmd'[n].id = id
         /\ \A x : HungUp(x) => HungUp(x)'
<1> DEFINE new == Submitted(s, cbs, id)
           k == Len(cbs)
<1>1. /\ new \in Seq(Command) /\ Len(new) = k
      /\ \A i \in 1 .. k : new[i].cb = cbs[i] /\ new[i].conn = conn[s] /\ new[i].id = id
  BY DEF Submitted, Command, OwnerInv, SockTyped
<1>2. k \in Nat /\ next \in Nat /\ next >= 1 /\ cmd \in Seq(Command) /\ Len(cmd) = next - 1
  BY DEF OwnerInv, QueueTyped, QueueProofs!IInv
<1>3. cmd' = cmd \o new /\ next' = next + k
  OBVIOUS
<1> HIDE DEF new, k
<1>4. /\ cmd' \in Seq(Command) /\ Len(cmd') = next - 1 + k
      /\ \A x \in 1 .. next - 1 + k :
           cmd'[x] = IF x <= next - 1 THEN cmd[x] ELSE new[x - (next - 1)]
  <2>1. /\ cmd \o new \in Seq(Command) /\ Len(cmd \o new) = Len(cmd) + Len(new)
        /\ \A x \in 1 .. Len(cmd) + Len(new) :
             (cmd \o new)[x] = IF x <= Len(cmd) THEN cmd[x] ELSE new[x - Len(cmd)]
    BY <1>1, <1>2, ConcatProperties
  <2>2. Len(cmd) = next - 1 /\ Len(new) = k
    BY <1>1, <1>2
  <2> QED
    BY <1>3, <2>1, <2>2
<1>5. \A n \in 1 .. next - 1 : n \in 1 .. next - 1 + k /\ n <= next - 1
  BY <1>2
<1>6. \A n \in 1 .. next - 1 : n \in DOMAIN cmd' /\ n \in DOMAIN cmd /\ cmd'[n] = cmd[n]
  BY <1>2, <1>4, <1>5
<1>7. ASSUME NEW n \in NewIds
      PROVE  n - (next - 1) \in 1 .. k /\ cmd'[n] = new[n - (next - 1)]
  <2>1. n \in Nat /\ next <= n /\ n < next + k
    BY <1>3 DEF NewIds
  <2>2. n \in 1 .. next - 1 + k /\ ~ (n <= next - 1) /\ n - (next - 1) \in 1 .. k
    BY <1>2, <2>1
  <2> QED
    BY <1>4, <2>2
<1>8. \A x : HungUp(x) => HungUp(x)'
  <2>1. \A n \in DOMAIN cmd : n \in 1 .. next - 1
    BY <1>2
  <2> QED
    BY <1>6, <2>1 DEF HungUp
<1>9. ASSUME NEW n \in NewIds
      PROVE  /\ n - (next - 1) \in 1 .. k /\ cmd'[n].cb = cbs[n - (next - 1)]
             /\ cmd'[n].conn = conn[s] /\ cmd'[n].id = id
  <2>1. PICK i \in 1 .. k : i = n - (next - 1) /\ cmd'[n] = new[i]
    BY <1>7
  <2> QED
    BY <1>1, <2>1
<1> QED
  BY <1>6, <1>8, <1>9 DEF k

\* Where they may be in the queue: behind all the others, and a hang-up anywhere.
LEMMA NewAhead ==
  ASSUME OwnerInv, OrderInv, NEW s \in Slots, conn[s] \in Conns,
         NEW r \in Members(requests[conn[s]]), r.id \in Nat,
         NEW cbs \in Seq({"pass", "hangup", "entry", "null"}),
         \A i, j \in 1 .. Len(cbs) : i < j => cbs[i] = "null",
         next' = next + Len(cbs), cmd' = cmd \o Submitted(s, cbs, r.id)
  PROVE  /\ \A n, m \in Members(queue) : <<n, m>> \in InQueueOrder => <<n, m>> \in InQueueOrder'
         /\ \A n \in Members(queue), m \in NewIds : <<n, m>> \in InQueueOrder'
         /\ \A n, m \in NewIds : n < m => <<n, m>> \in InQueueOrder'
         /\ \A n \in NewIds, m \in Members(queue) :
              cmd'[n].cb = "hangup" => <<n, m>> \in InQueueOrder'
         /\ \A n \in Members(queue) : cmd'[n] = cmd[n] /\ (Replying(n)' <=> Replying(n))
         /\ \A n \in NewIds : cmd'[n].conn = conn[s] /\ cmd'[n].id = r.id
         /\ \A x : HungUp(x) => HungUp(x)'
<1>1. /\ \A n \in 1 .. next - 1 : n \in DOMAIN cmd' /\ cmd'[n] = cmd[n]
      /\ \A n \in NewIds : /\ n - (next - 1) \in 1 .. Len(cbs)
                           /\ cmd'[n].cb = cbs[n - (next - 1)]
                           /\ cmd'[n].conn = conn[s] /\ cmd'[n].id = r.id
      /\ \A x : HungUp(x) => HungUp(x)'
  BY TableGrows
<1>2. \A n \in Members(queue) : n \in Nat /\ n \in 1 .. next - 1 /\ cmd[n] \in Command
  BY QueuedKnown DEF OwnerInv
<1>3. \A n \in Members(queue) : cmd'[n] = cmd[n] /\ (Replying(n)' <=> Replying(n))
  BY <1>1, <1>2 DEF Replying
<1>4. \A n \in Members(queue) : Replying(n) /\ cmd[n].conn = conn[s] => cmd[n].id < r.id
  BY DEF OrderInv, RequestOrder
<1>5. \A n \in NewIds : n \in Nat
  BY DEF NewIds
<1>6. ASSUME NEW n \in Members(queue), NEW m \in Members(queue), <<n, m>> \in InQueueOrder
      PROVE  <<n, m>> \in InQueueOrder'
  <2>1. Ahead(n, m) /\ n \in Nat /\ m \in Nat
    BY <1>2, <1>6, QueuePair
  <2>2. Ahead(n, m)'
    BY <1>3, <2>1 DEF Ahead
  <2> QED
    BY <2>1, <2>2, QueuePairNext
<1>7. ASSUME NEW n \in Members(queue), NEW m \in NewIds PROVE <<n, m>> \in InQueueOrder'
  <2>1. cmd'[m].conn = conn[s] /\ cmd'[m].id = r.id
    BY <1>1
  <2>2. Ahead(n, m)'
    BY <1>3, <1>4, <2>1 DEF Ahead
  <2> QED
    BY <1>2, <1>5, <2>2, QueuePairNext
<1>8. ASSUME NEW n \in NewIds, NEW m \in NewIds, n < m PROVE <<n, m>> \in InQueueOrder'
  <2>1. next \in Nat
    BY DEF OwnerInv, QueueTyped, QueueProofs!IInv
  <2>2. PICK i, j \in 1 .. Len(cbs) : i = n - (next - 1) /\ j = m - (next - 1) /\ cmd'[n].cb = cbs[i]
    BY <1>1
  <2>3. i < j
    BY <1>5, <1>8, <2>1, <2>2
  <2>4. cmd'[n].cb = "null"
    BY <2>2, <2>3
  <2>5. Ahead(n, m)'
    BY <2>4 DEF Ahead, Replying
  <2> QED
    BY <1>5, <2>5, QueuePairNext
<1>9. ASSUME NEW n \in NewIds, NEW m \in Members(queue), cmd'[n].cb = "hangup"
      PROVE  <<n, m>> \in InQueueOrder'
  <2>1. cmd[m].id \in Nat
    BY <1>2 DEF Command
  <2>2. cmd'[n].conn = conn[s] /\ cmd'[n].id = r.id
    BY <1>1
  <2>3. Replying(m) /\ cmd[m].conn = conn[s] => cmd[m].id # r.id
    BY <1>4, <2>1
  <2>4. Ahead(n, m)'
    BY <1>3, <1>9, <2>2, <2>3 DEF Ahead
  <2> QED
    BY <1>2, <1>5, <2>4, QueuePairNext
<1> QED
  BY <1>1, <1>3, <1>6, <1>7, <1>8, <1>9

\* The queue with the commands of a request, of which the first command, if it is
\* cancelled by it, has said its last word.
LEMMA GrowOrder ==
  ASSUME OwnerInv, OrderInv, NEW s \in Slots, conn[s] \in Conns,
         NEW r \in Members(requests[conn[s]]), r.id \in Nat,
         NEW cbs \in Seq({"pass", "hangup", "entry", "null"}),
         \A i, j \in 1 .. Len(cbs) : i < j => cbs[i] = "null",
         next' = next + Len(cbs), cmd' = cmd \o Submitted(s, cbs, r.id),
         requests' = [requests EXCEPT ![conn[s]] = <<>>], UNCHANGED <<conn, sent>>,
         OneUser', Talk', Sorted(queue', InQueueOrder'),
         \A n \in Members(queue') : n \in Members(queue) \/ n \in NewIds,
         \A d \in Conns, x \in Message : SaidTo(x, d)' /\ x.type = "reply" =>
           \/ SaidTo(x, d)
           \/ \E h \in Members(queue) :
                /\ Replying(h) /\ d = cmd[h].conn /\ x.req = cmd[h].id
                /\ \A n \in Members(queue') : n \in Members(queue) => Ahead(h, n)
  PROVE  OrderInv'
<1>1. /\ \A n \in NewIds : cmd'[n].conn = conn[s] /\ cmd'[n].id = r.id
      /\ \A x : HungUp(x) => HungUp(x)'
  BY NewAhead
<1>2. \A n \in Members(queue) : cmd'[n] = cmd[n] /\ (Replying(n)' <=> Replying(n))
  BY NewAhead
<1>3. \A x, y : Behind(x, y) => Behind(x, y)'
  BY <1>1, StillBefore
<1>4. /\ r.id < sent
      /\ \A x \in Message : SaidTo(x, conn[s]) /\ x.type = "reply" => x.req < r.id
      /\ \A n \in Members(queue) : Replying(n) /\ cmd[n].conn = conn[s] => cmd[n].id < r.id
  BY DEF OrderInv, RequestOrder
<1>5. ASSUME NEW n \in Members(queue'), Replying(n)', NEW d, d = cmd'[n].conn,
             NEW e, e = cmd'[n].id
      PROVE  e < sent /\ \A x \in Message : SaidTo(x, d)' /\ x.type = "reply" => Behind(x, e)'
  <2>1. CASE n \in Members(queue)
    <3>1. Replying(n) /\ d = cmd[n].conn /\ e = cmd[n].id
      BY <1>2, <1>5, <2>1
    <3>2. e < sent /\ Spoken(d, e) /\ d \in Conns
      BY <2>1, <3>1, QueuedKnown DEF OrderInv, QueueOrder, OwnerInv
    <3>3. ASSUME NEW x \in Message, SaidTo(x, d)', x.type = "reply" PROVE Behind(x, e)
      <4>1. CASE SaidTo(x, d)
        BY <3>2, <3>3, <4>1 DEF Spoken
      <4>2. CASE ~ SaidTo(x, d)
        <5>1. PICK h \in Members(queue) :
                /\ Replying(h) /\ d = cmd[h].conn /\ x.req = cmd[h].id
                /\ Ahead(h, n)
          BY <2>1, <3>2, <3>3, <4>2
        <5>2. h \in DOMAIN cmd
          BY QueuedKnown DEF OwnerInv
        <5> QED
          BY <3>1, <5>1, <5>2, AfterFirst
      <4> QED
        BY <4>1, <4>2
    <3>4. ASSUME NEW x \in Message, SaidTo(x, d)', x.type = "reply" PROVE Behind(x, e)'
      BY <1>3, <3>3, <3>4
    <3> QED
      BY <3>2, <3>4
  <2>2. CASE n \in NewIds
    <3>1. e = r.id /\ d = conn[s]
      BY <1>1, <1>5, <2>2
    <3>2. ASSUME NEW x \in Message, SaidTo(x, d)', x.type = "reply"
          PROVE  x.req < e
      BY <1>4, <3>1, <3>2
    <3>3. \A x \in Message : SaidTo(x, d)' /\ x.type = "reply" => Behind(x, e)'
      BY <3>2 DEF Behind
    <3> QED
      BY <1>4, <3>1, <3>3
  <2> QED
    BY <1>5, <2>1, <2>2
<1>6. QueueOrder'
  <2>1. ASSUME NEW n \in Members(queue')
        PROVE  (Replying(n) => cmd[n].id < sent /\ Spoken(cmd[n].conn, cmd[n].id))'
    <3>1. PICK d, e : d = cmd'[n].conn /\ e = cmd'[n].id
      OBVIOUS
    <3>2. Replying(n)' =>
            e < sent /\ \A x \in Message : SaidTo(x, d)' /\ x.type = "reply" => Behind(x, e)'
      BY <1>5, <2>1, <3>1
    <3> QED
      BY <3>1, <3>2 DEF Spoken, SaidTo, Behind, HungUp
  <2> QED
    BY <2>1, QueueOrderNext
<1>7. RequestOrder'
  <2> SUFFICES ASSUME NEW c \in Conns, NEW e \in Members(requests'[c])
               PROVE  /\ e.id < sent
                      /\ \A x \in Message : SaidTo(x, c)' /\ x.type = "reply" => x.req < e.id
                      /\ \A n \in Members(queue') : Replying(n)' /\ cmd'[n].conn = c =>
                                                      cmd'[n].id < e.id
    BY RequestOrderNext
  <2>1. requests \in [Conns -> Seq(Request)] /\ Members(<<>>) = {}
    BY DEF OwnerInv, SockTyped, Members
  <2>2. c # conn[s] /\ e \in Members(requests[c])
    BY <2>1
  <2>3. /\ e.id < sent
        /\ \A x \in Message : SaidTo(x, c) /\ x.type = "reply" => x.req < e.id
        /\ \A n \in Members(queue) : Replying(n) /\ cmd[n].conn = c => cmd[n].id < e.id
    BY <2>2 DEF OrderInv, RequestOrder
  <2>4. \A x \in Message : SaidTo(x, c)' /\ x.type = "reply" => x.req < e.id
    BY <2>3
  <2>5. ASSUME NEW n \in Members(queue'), Replying(n)', cmd'[n].conn = c
        PROVE  cmd'[n].id < e.id
    <3>1. n \in Members(queue)
      BY <1>1, <2>2, <2>5
    <3>2. cmd'[n] = cmd[n] /\ Replying(n)
      BY <1>2, <2>5, <3>1
    <3> QED
      BY <2>3, <2>5, <3>1, <3>2
  <2> QED
    BY <2>3, <2>4, <2>5
<1> QED
  BY <1>6, <1>7 DEF OrderInv

\* How far one number is from another.
LEMMA Distance == ASSUME NEW a \in Nat, NEW b \in Nat, a <= b PROVE b - a \in Nat /\ b = a + (b - a)
OBVIOUS

\* The new commands are in the queue in the order of their ids.
LEMMA FreshSorted ==
  ASSUME next \in Nat, next' \in Nat, next <= next', NEW R,
         \A n, m \in NewIds : n < m => <<n, m>> \in R
  PROVE  /\ Engine!Fresh \in Seq(Nat) /\ Sorted(Engine!Fresh, R)
         /\ \A n \in Members(Engine!Fresh) : n \in NewIds
<1> DEFINE f == Engine!Fresh
           k == next' - next
<1>1. k \in Nat /\ next' = next + k
  BY Distance
<1>2. f = [i \in 1 .. k |-> next + i - 1]
  BY DEF Engine!Fresh
<1> HIDE DEF f, k
<1>3. ASSUME NEW i \in 1 .. k PROVE next + i - 1 \in NewIds /\ next + i - 1 \in Nat
  BY <1>1 DEF NewIds
<1>4. /\ f \in Seq(Nat) /\ Len(f) = k
      /\ \A i \in 1 .. k : f[i] = next + i - 1
  BY <1>1, <1>2, <1>3
<1>5. \A i \in 1 .. k : f[i] \in NewIds
  BY <1>3, <1>4
<1>6. ASSUME NEW i \in 1 .. k, NEW j \in 1 .. k, i < j PROVE <<f[i], f[j]>> \in R
  <2>1. f[i] < f[j]
    BY <1>4, <1>6
  <2> QED
    BY <1>5, <2>1
<1>7. \A n \in Members(f) : n \in NewIds
  BY <1>4, <1>5 DEF Members
<1> QED
  BY <1>4, <1>6, <1>7 DEF Sorted, f

\* A request whose commands go to the end of the queue.
LEMMA SubmitOrder ==
  ASSUME OwnerInv, OrderInv, NEW s \in Slots, conn[s] \in Conns,
         NEW r \in Members(requests[conn[s]]), r.id \in Nat,
         NEW cbs \in Seq({"pass", "hangup", "entry", "null"}),
         \A i, j \in 1 .. Len(cbs) : i < j => cbs[i] = "null",
         next' = next + Len(cbs), cmd' = cmd \o Submitted(s, cbs, r.id), Engine!Submit,
         requests' = [requests EXCEPT ![conn[s]] = <<>>],
         UNCHANGED <<conn, out, finished, sent, events, nconns>>
  PROVE  OrderInv'
<1>1. next \in Nat /\ next' \in Nat /\ next <= next' /\ queue \in Seq(Nat)
      /\ queue' = queue \o Engine!Fresh
  BY DEF Engine!Submit, OwnerInv, QueueTyped, QueueProofs!IInv
<1>2. /\ \A n, m \in Members(queue) : <<n, m>> \in InQueueOrder => <<n, m>> \in InQueueOrder'
      /\ \A n \in Members(queue), m \in NewIds : <<n, m>> \in InQueueOrder'
      /\ \A n, m \in NewIds : n < m => <<n, m>> \in InQueueOrder'
      /\ \A x : HungUp(x) => HungUp(x)'
  BY NewAhead
<1>3. /\ Engine!Fresh \in Seq(Nat) /\ Sorted(Engine!Fresh, InQueueOrder')
      /\ \A n \in Members(Engine!Fresh) : n \in NewIds
  BY <1>1, <1>2, FreshSorted
<1>4. Sorted(queue, InQueueOrder')
  BY <1>2, SortedWithin DEF OrderInv, QueueOrder
<1>5. Sorted(queue', InQueueOrder') /\ Members(queue') = Members(queue) \cup Members(Engine!Fresh)
  BY <1>1, <1>2, <1>3, <1>4, SortedConcat, MembersConcat
<1>6. \A n \in Members(queue') : n \in Members(queue) \/ n \in NewIds
  BY <1>3, <1>5
<1>7. \A d, x : SaidTo(x, d)' <=> SaidTo(x, d)
  BY DEF SaidTo, Members
<1>8. Talk' /\ OneUser'
  <2>1. InTurn \subseteq InTurn'
    BY <1>2, StillBefore
  <2>2. /\ \A d \in Conns : Sorted(out[d], InTurn')
        /\ \A t \in Slots : conn[t] # 0 => Sorted(out[conn[t]] \o finished[t], InTurn')
    BY <2>1, SortedMore DEF OrderInv, Talk
  <2> QED
    BY <1>7, <2>2, TalkNext DEF OrderInv, Talk, OneUser
<1> QED
  BY <1>5, <1>6, <1>7, <1>8, GrowOrder

\* A hang-up that finishes the first command and overtakes others.
LEMMA CancelOrder ==
  ASSUME OwnerInv, OrderInv, NEW s \in Slots, conn[s] \in Conns,
         NEW r \in Members(requests[conn[s]]), r.id \in Nat,
         next' = next + 1, cmd' = cmd \o Submitted(s, <<"hangup">>, r.id), Engine!Cancel,
         Callback(First, FALSE, "cancelled"),
         requests' = [requests EXCEPT ![conn[s]] = <<>>],
         UNCHANGED <<conn, out, sent, events, nconns>>
  PROVE  OrderInv'
<1> DEFINE cbs == <<"hangup">>
           h == Head(queue)
<1>1. /\ cbs \in Seq({"pass", "hangup", "entry", "null"}) /\ Len(cbs) = 1 /\ cbs[1] = "hangup"
      /\ \A i, j \in 1 .. Len(cbs) : i < j => cbs[i] = "null"
  OBVIOUS
<1>c. cmd' = cmd \o Submitted(s, cbs, r.id)
  OBVIOUS
<1> HIDE DEF cbs
<1>2. next \in Nat /\ queue \in Seq(Nat) /\ queue # <<>> /\ next' = next + Len(cbs)
  BY <1>1 DEF Engine!Cancel, OwnerInv, QueueTyped, QueueProofs!IInv
<1>3. /\ \A n, m \in Members(queue) : <<n, m>> \in InQueueOrder => <<n, m>> \in InQueueOrder'
      /\ \A n \in Members(queue), m \in NewIds : <<n, m>> \in InQueueOrder'
      /\ \A n \in NewIds, m \in Members(queue) :
           cmd'[n].cb = "hangup" => <<n, m>> \in InQueueOrder'
      /\ \A x : HungUp(x) => HungUp(x)'
  BY <1>1, <1>2, <1>c, NewAhead
<1>4. next \in NewIds /\ cmd'[next].cb = "hangup"
  <2>1. next \in NewIds
    BY <1>2 DEF NewIds
  <2>2. /\ \A n \in 1 .. next - 1 : n \in DOMAIN cmd' /\ cmd'[n] = cmd[n]
        /\ \A n \in NewIds : /\ n - (next - 1) \in 1 .. Len(cbs)
                             /\ cmd'[n].cb = cbs[n - (next - 1)]
                             /\ cmd'[n].conn = conn[s] /\ cmd'[n].id = r.id
        /\ \A x : HungUp(x) => HungUp(x)'
    BY <1>1, <1>2, <1>c, TableGrows
  <2>3. next - (next - 1) = 1
    BY <1>2
  <2> QED
    BY <1>1, <2>1, <2>2, <2>3
<1>5. PICK k \in 1 .. Len(queue) :
        queue' = SubSeq(queue, 2, k) \o <<next>> \o SubSeq(queue, k + 1, Len(queue))
                   \o Tail(Engine!Fresh)
  BY DEF Engine!Cancel
<1>6. Tail(Engine!Fresh) = <<>>
  <2>1. Engine!Fresh = [i \in 1 .. 1 |-> next + i - 1]
    BY <1>2 DEF Engine!Fresh
  <2>2. Engine!Fresh = <<next>>
    BY <1>2, <2>1
  <2> QED
    BY <2>2
<1>7. /\ h \in Nat /\ Members(queue) = {h} \cup Members(Tail(queue))
      /\ \A n \in Members(Tail(queue)) : n \in Nat /\ Ahead(h, n)
  BY <1>2, FirstOrder DEF OwnerInv, OrderInv
<1> HIDE DEF h
<1>8. Sorted(queue, InQueueOrder)
  BY DEF OrderInv, QueueOrder
<1>9. PICK a, b \in Seq(Nat) :
        /\ a = SubSeq(queue, 2, k) /\ b = SubSeq(queue, k + 1, Len(queue))
        /\ Sorted(a, InQueueOrder) /\ Sorted(b, InQueueOrder)
        /\ \A x \in Members(a), y \in Members(b) : <<x, y>> \in InQueueOrder
        /\ Members(a) \cup Members(b) \subseteq Members(Tail(queue))
  <2>1. queue \in Seq(Nat) /\ k \in 1 .. Len(queue)
    BY <1>2
  <2> QED
    BY Zenon, <1>8, <2>1, SortedParts
<1>s. /\ Sorted(a, InQueueOrder) /\ Sorted(b, InQueueOrder)
      /\ \A x \in Members(a), y \in Members(b) : <<x, y>> \in InQueueOrder
      /\ Members(a) \cup Members(b) \subseteq Members(Tail(queue))
  BY <1>9
<1>10. PICK m : m = <<next>>
  OBVIOUS
<1>11. m \in Seq(Nat) /\ Members(m) = {next} /\ Sorted(m, InQueueOrder')
  BY <1>2, <1>10, MembersOne, SortedOne
<1>12. queue' = (a \o m) \o b
  <2>1. queue' = ((a \o m) \o b) \o <<>>
    BY <1>5, <1>6, <1>9, <1>10
  <2>2. (a \o m) \o b \in Seq(Nat)
    BY <1>s, <1>11, ConcatProperties
  <2> QED
    BY <2>1, <2>2, ConcatEmptySeq
<1>13. Sorted(a, InQueueOrder') /\ Sorted(b, InQueueOrder')
       /\ \A x \in Members(a), y \in Members(b) : <<x, y>> \in InQueueOrder'
  <2>1. \A x, y \in Members(Tail(queue)) : <<x, y>> \in InQueueOrder => <<x, y>> \in InQueueOrder'
    BY <1>3, <1>7
  <2> QED
    BY <1>s, <2>1, SortedWithin
<1>14. /\ a \o m \in Seq(Nat) /\ Members(a \o m) = Members(a) \cup {next}
       /\ Sorted(a \o m, InQueueOrder')
  <2>1. \A x \in Members(a), y \in Members(m) : <<x, y>> \in InQueueOrder'
    BY <1>3, <1>4, <1>7, <1>s, <1>11
  <2> QED
    BY <1>s, <1>11, <1>13, <2>1, SortedConcat, MembersConcat, ConcatProperties
<1>15. /\ Members(queue') = Members(a) \cup {next} \cup Members(b)
       /\ Sorted(queue', InQueueOrder')
  <2>1. \A x \in Members(a \o m), y \in Members(b) : <<x, y>> \in InQueueOrder'
    BY <1>3, <1>4, <1>7, <1>s, <1>13, <1>14
  <2>2. Members((a \o m) \o b) = Members(a \o m) \cup Members(b)
    <3>1. PICK p \in Seq(Nat) : p = a \o m
      BY <1>14
    <3>2. Members(p \o b) = Members(p) \cup Members(b)
      BY <1>s, MembersConcat
    <3> QED
      BY <3>1, <3>2
  <2>3. Sorted((a \o m) \o b, InQueueOrder')
    BY <1>s, <1>13, <1>14, <2>1, SortedConcat
  <2> QED
    BY <1>12, <1>14, <2>2, <2>3
<1>16. \A n \in Members(queue') :
         \/ n \in NewIds
         \/ n \in Members(Tail(queue)) /\ n \in Members(queue) /\ Ahead(h, n)
  BY <1>4, <1>7, <1>s, <1>15
<1>17. First = cmd[h] /\ First \in Command /\ Owned(First) /\ h \in Members(queue)
  BY <1>2, <1>7, FirstOwned DEF OwnerInv, First, h
<1>18. First.cb \in {"pass", "hangup", "entry"} =>
         Replying(h) /\ First.id < sent /\ Spoken(First.conn, First.id)
  BY <1>17 DEF OrderInv, QueueOrder, Replying
<1>19. /\ OneUser' /\ Talk'
       /\ \A d \in Conns, x \in Message : SaidTo(x, d)' =>
            \/ SaidTo(x, d)
            \/ /\ d = First.conn /\ First.cb \in {"pass", "hangup", "entry"}
               /\ x.type = "reply" /\ x.req = First.id
  <2>1. /\ OneUser /\ Talk /\ First \in Command /\ Owned(First)
        /\ \A id : HungUp(id) => HungUp(id)'
    BY <1>3, <1>17 DEF OrderInv
  <2>2. First.cb \in {"pass", "hangup", "entry"} =>
          First.id < sent /\ Spoken(First.conn, First.id)
    BY <1>18
  <2> QED
    BY <2>1, <2>2, CallbackOrder
<1>20. \A n \in NewIds : n \notin Members(queue)
  <2>1. \A n \in Members(queue) : n \in 1 .. next - 1
    BY QueuedKnown DEF OwnerInv
  <2> QED
    BY <1>2, <2>1 DEF NewIds
<1>21. \A d \in Conns, x \in Message : SaidTo(x, d)' /\ x.type = "reply" =>
         \/ SaidTo(x, d)
         \/ \E g \in Members(queue) :
              /\ Replying(g) /\ d = cmd[g].conn /\ x.req = cmd[g].id
              /\ \A n \in Members(queue') : n \in Members(queue) => Ahead(g, n)
  BY <1>16, <1>17, <1>18, <1>19, <1>20
<1>22. \A n \in Members(queue') : n \in Members(queue) \/ n \in NewIds
  BY <1>16
<1> QED
  BY <1>1, <1>2, <1>c, <1>15, <1>19, <1>21, <1>22, GrowOrder

\* A request is read: its commands join the queue, it is carried out, or rejected;
\* what else was read with it is forgotten.
LEMMA RequestReadOrder ==
  ASSUME OwnerInv, OrderInv, NEW s \in Slots, ReadRequest(s) PROVE OrderInv'
<1> DEFINE r == Head(requests[conn[s]])
<1>1. /\ conn[s] # 0 /\ requests[conn[s]] # <<>>
      /\ SubmitFor(s, r) \/ HangUpFor(s, r) \/ usock_rcv_event(s, r) \/ Rejected(r)
      /\ requests' = [requests EXCEPT ![conn[s]] = <<>>]
      /\ UNCHANGED <<out, nconns, sent, events>>
  BY DEF ReadRequest, Readable, Unread
<1>2. conn[s] \in Conns /\ requests \in [Conns -> Seq(Request)]
  BY <1>1 DEF OwnerInv, SockTyped, Conns
<1>3. r \in Members(requests[conn[s]]) /\ r.id \in Nat
  <2>1. PICK q \in Seq(Request) : q = requests[conn[s]]
    BY <1>1, <1>2
  <2>2. Head(q) = q[1] /\ 1 \in 1 .. Len(q) /\ q[1] \in Request
    BY <1>1, <2>1
  <2>3. Head(q) \in Members(q) /\ Head(q) \in Request
    BY <2>2 DEF Members
  <2> QED
    BY <2>1, <2>3 DEF Request
<1> HIDE DEF r
<1>4. /\ Callbacks(r.kind) \in Seq({"pass", "hangup", "entry", "null"})
      /\ \A i, j \in 1 .. Len(Callbacks(r.kind)) : i < j => Callbacks(r.kind)[i] = "null"
  <2>1. Callbacks(r.kind) \in {<<"pass">>, <<"null", "entry">>, <<"null">>, <<>>}
    BY DEF Callbacks
  <2>2. CASE Callbacks(r.kind) = <<"null", "entry">>
    <3>1. \A i, j \in 1 .. 2 : i < j => i = 1
      OBVIOUS
    <3> QED
      BY <2>2, <3>1
  <2>n. \A i, j \in 1 .. 1 : ~ (i < j)
    OBVIOUS
  <2>3. CASE Callbacks(r.kind) = <<"pass">>
    BY <2>3, <2>n
  <2>5. CASE Callbacks(r.kind) = <<"null">>
    BY <2>5, <2>n
  <2>4. CASE Callbacks(r.kind) = <<>>
    BY <2>4
  <2> QED
    BY <2>1, <2>2, <2>3, <2>4, <2>5
<1>5. CASE SubmitFor(s, r)
  <2>1. /\ next' = next + Len(Callbacks(r.kind)) /\ Engine!Submit
        /\ cmd' = cmd \o Submitted(s, Callbacks(r.kind), r.id)
        /\ UNCHANGED <<conn, finished>>
    BY <1>5 DEF SubmitFor, users
  <2> QED
    BY <1>1, <1>2, <1>3, <1>4, <2>1, SubmitOrder
<1>6. CASE HangUpFor(s, r)
  <2>1. /\ next' = next + 1 /\ cmd' = cmd \o Submitted(s, <<"hangup">>, r.id)
        /\ UNCHANGED conn
        /\ \/ Engine!Submit /\ UNCHANGED finished
           \/ Engine!Cancel /\ Callback(First, FALSE, "cancelled")
    BY <1>6 DEF HangUpFor, users
  <2>2. CASE Engine!Submit /\ UNCHANGED finished
    <3>1. PICK cbs : cbs = <<"hangup">>
      OBVIOUS
    <3>2. /\ cbs \in Seq({"pass", "hangup", "entry", "null"}) /\ Len(cbs) = 1
          /\ \A i, j \in 1 .. Len(cbs) : i < j => cbs[i] = "null"
      BY <3>1
    <3>3. next' = next + Len(cbs) /\ cmd' = cmd \o Submitted(s, cbs, r.id)
      BY <2>1, <3>1, <3>2
    <3> QED
      BY <1>1, <1>2, <1>3, <2>1, <2>2, <3>2, <3>3, SubmitOrder
  <2>3. CASE Engine!Cancel /\ Callback(First, FALSE, "cancelled")
    BY <1>1, <1>2, <1>3, <2>1, <2>3, CancelOrder
  <2> QED
    BY <2>1, <2>2, <2>3
<1>7. CASE usock_rcv_event(s, r) \/ Rejected(r)
  <2>1. UNCHANGED <<queue, cmd, conn, finished>>
    BY <1>7 DEF usock_rcv_event, Rejected, engine, users
  <2>2. \A c \in Conns : Members(requests'[c]) \subseteq Members(requests[c])
    <3>1. Members(<<>>) = {}
      BY DEF Members
    <3> QED
      BY <1>1, <1>2, <3>1
  <2>3. Sorted(queue', InQueueOrder) /\ Members(queue') \subseteq Members(queue)
    BY <2>1 DEF OrderInv, QueueOrder
  <2> QED
    BY <1>1, <2>1, <2>2, <2>3, QuietOrder
<1> QED
  BY <1>1, <1>5, <1>6, <1>7

\* Every step keeps the order.
LEMMA StepOrder == ASSUME OwnerInv, OrderInv, [Next]_vars PROVE OrderInv'
<1>1. ASSUME UNCHANGED <<engine, conn, finished, sock, events>> PROVE OrderInv'
  <2>1. /\ UNCHANGED <<queue, cmd, conn, out, finished, sent, events, nconns, requests>>
        /\ Sorted(queue', InQueueOrder) /\ Members(queue') \subseteq Members(queue)
    BY <1>1 DEF OrderInv, QueueOrder, engine, sock
  <2> QED
    BY <2>1, QuietOrder
<1>2. CASE select
  BY <1>1, <1>2 DEF select, users
<1>3. ASSUME NEW s \in Slots, WriteClosed(s) PROVE OrderInv'
  BY <1>1, <1>3 DEF WriteClosed, users
<1>4. CASE UNCHANGED vars
  BY <1>1, <1>4 DEF vars, users
<1> QED
  BY <1>2, <1>3, <1>4, EngineOrder, ConnectionOrder, RequestReadOrder, WriteOrder, EventOrder
     DEF Next, Daemon

\* At first nothing is said, and the commands in the queue answer to nobody.
LEMMA InitOrder == Init => OrderInv
<1> SUFFICES ASSUME Init PROVE OrderInv
  OBVIOUS
<1>1. /\ next \in Nat /\ next >= 1 /\ queue = [i \in 1 .. next - 1 |-> i]
      /\ \A n \in 1 .. next - 1 : cmd[n].cb = "own"
      /\ conn = [s \in Slots |-> 0] /\ finished = [s \in Slots |-> <<>>]
      /\ out = [c \in Conns |-> <<>>] /\ requests = [c \in Conns |-> <<>>] /\ nconns = 0
  BY DEF Init, Engine!Init
<1>2. \A n \in 1 .. next - 1 : ~ Replying(n)
  BY <1>1 DEF Replying
<1>3. /\ Len(queue) = next - 1 /\ \A i \in 1 .. next - 1 : queue[i] = i
      /\ \A n \in Members(queue) : n \in 1 .. next - 1
  BY <1>1 DEF Members
<1>4. Members(<<>>) = {} /\ \A c \in Conns : c # 0
  BY DEF Members, Conns
<1>5. \A x, c : c \in Conns => ~ SaidTo(x, c)
  BY <1>1, <1>4 DEF SaidTo
<1>6. OneUser
  BY <1>1 DEF OneUser
<1>7. Talk
  BY <1>1, <1>5, SortedOne DEF Talk
<1>8. QueueOrder
  <2>1. \A n, m \in 1 .. next - 1 : n \in Nat /\ m \in Nat /\ Ahead(n, m)
    BY <1>1, <1>2 DEF Ahead
  <2>2. \A n, m \in 1 .. next - 1 : <<n, m>> \in InQueueOrder
    BY <2>1, QueuePair
  <2>3. Sorted(queue, InQueueOrder)
    BY <1>3, <2>2 DEF Sorted
  <2> QED
    BY <1>2, <1>3, <2>3 DEF QueueOrder
<1>9. RequestOrder
  BY <1>1, <1>4 DEF RequestOrder
<1> QED
  BY <1>6, <1>7, <1>8, <1>9 DEF OrderInv

\* As long as no client leaves with commands of its own in the queue, what a client
\* is told comes in the order of its requests, only hang-ups overtaking; nothing
\* comes after a last reply; and events come in order and once.
THEOREM InOrderHolds == ASSUME ~ LeavesBusy PROVE Spec => []InOrder
<1>1. Init => OwnerInv /\ OrderInv
  BY InitOwner, InitOrder
<1>2. OwnerInv /\ OrderInv /\ [Next]_vars => (OwnerInv /\ OrderInv)'
  BY StepOwner, StepOrder
<1>3. OwnerInv /\ OrderInv => InOrder
  <2> SUFFICES ASSUME OwnerInv, OrderInv, NEW c \in Conns,
                      NEW i \in 1 .. Len(out[c]), NEW j \in 1 .. Len(out[c]), i < j
               PROVE  /\ out[c][i].type = "reply" /\ out[c][j].type = "reply" =>
                           \/ \/ out[c][i].req < out[c][j].req
                              \/ HungUp(out[c][i].req) /\ out[c][i].req # out[c][j].req
                           \/ out[c][i].req = out[c][j].req /\ ~ out[c][i].last
                      /\ out[c][i].type = "event" /\ out[c][j].type = "event" =>
                           out[c][i].number < out[c][j].number
    BY DEF InOrder
  <2>1. out[c][i] \in Message /\ out[c][j] \in Message
    BY DEF OwnerInv, OutInv
  <2>2. <<out[c][i], out[c][j]>> \in InTurn
    BY DEF OrderInv, Talk, Sorted
  <2>3. Before(out[c][i], out[c][j])
    BY <2>1, <2>2, InTurnPair
  <2> QED
    BY <2>3 DEF Before, Behind
<1> QED
  BY <1>1, <1>2, <1>3, PTL DEF Spec
=============================================================================
