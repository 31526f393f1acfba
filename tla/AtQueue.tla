------------------------------ MODULE AtQueue ------------------------------
(***************************************************************************)
(* What the AT command engine (gsm/src/gsmd/atcmd.c) promises to the code  *)
(* that submits commands, without the UART, the lines and the flags:       *)
(* commands are finished one at a time, strictly in the order of the       *)
(* queue ("responses come in order, so first response has to be for first  *)
(* command we sent", atcmd.c:269); a new command goes to its end, except   *)
(* for a hang-up; a wakeup command may be given up, but also only when it  *)
(* is the first.  AtCmd implements this specification.                     *)
(***************************************************************************)
EXTENDS Naturals, Sequences

VARIABLES
  queue,   \* ids of the commands submitted and not finished, first one first
  next,    \* id of the next command
  done,    \* ids of the commands whose final callback ran
  dropped  \* ids of the commands given up

vars == <<queue, next, done, dropped>>

\* Where the commands created by a step (ids next .. next' - 1) are after it.
Fresh == [i \in 1 .. next' - next |-> next + i - 1]

Init ==
  /\ next \in {1, 3}
  /\ queue = [i \in 1 .. next - 1 |-> i]
  /\ done = {} /\ dropped = {}

\* atcmd_submit, perhaps with a wakeup command before, once or more often.
Submit ==
  /\ next' \in Nat /\ next < next'
  /\ queue' = queue \o Fresh
  /\ UNCHANGED <<done, dropped>>

\* The first command gets its final result, and its callback submits more.
Finish ==
  /\ queue # <<>>
  /\ next' \in Nat /\ next <= next'
  /\ queue' = Tail(queue) \o Fresh
  /\ done' = done \cup {Head(queue)}
  /\ UNCHANGED dropped

\* A hang-up finishes the first command and overtakes those not yet sent.
Cancel ==
  /\ queue # <<>>
  /\ next' \in Nat /\ next < next'
  /\ \E k \in 1 .. Len(queue) :
       queue' = SubSeq(queue, 2, k) \o <<next>> \o SubSeq(queue, k + 1, Len(queue))
                  \o Tail(Fresh)
  /\ done' = done \cup {Head(queue)}
  /\ UNCHANGED dropped

\* The modem did not answer the first command, a wakeup, in time.
GiveUp ==
  /\ queue # <<>>
  /\ queue' = Tail(queue)
  /\ dropped' = dropped \cup {Head(queue)}
  /\ UNCHANGED <<next, done>>

Next == Submit \/ Finish \/ Cancel \/ GiveUp

Spec == Init /\ [][Next]_vars
-----------------------------------------------------------------------------
\* No command is queued twice, and none is in the queue after its callback ran or
\* it was given up, either of which frees it (atcmd.c:236, 602); nor does both
\* happen to it.
FreedOnce ==
  /\ \A i, j \in 1 .. Len(queue) : queue[i] = queue[j] => i = j
  /\ \A i \in 1 .. Len(queue) : queue[i] < next /\ queue[i] \notin done \cup dropped
  /\ done \cap dropped = {}
=============================================================================
