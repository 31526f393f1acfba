--------------------------- MODULE ServicesProofs ---------------------------
(* Proofs about a client and its modem through gsmd: what a reply is made  *)
(* of, what the user of the tool is told of his messages, and how often a  *)
(* command is answered.                                                    *)
EXTENDS Services, SeqLemmas, FiniteSetTheorems

\* A sequence of whatever.
IsSequence(q) == \E S : q \in Seq(S)

\* It has the elements of its parts.
LEMMA JoinedSequence ==
  ASSUME NEW p, NEW q, IsSequence(p), IsSequence(q)
  PROVE  IsSequence(p \o q) /\ Members(p \o q) = Members(p) \cup Members(q)
<1>1. PICK S, T : p \in Seq(S) /\ q \in Seq(T)
  BY DEF IsSequence
<1> DEFINE U == S \cup T
<1>2. p \in Seq(U) /\ q \in Seq(U)
  BY <1>1
<1> HIDE DEF U
<1>3. p \o q \in Seq(U) /\ Members(p \o q) = Members(p) \cup Members(q)
  BY <1>2, MembersConcat, ConcatProperties
<1> QED
  BY <1>3 DEF IsSequence

\* ... none, or one.
LEMMA SmallSequence ==
  /\ IsSequence(<<>>) /\ Members(<<>>) = {}
  /\ \A x : IsSequence(<<x>>) /\ Members(<<x>>) = {x}
<1>1. <<>> \in Seq({}) /\ Members(<<>>) = {}
  BY DEF Members
<1>2. ASSUME NEW x PROVE <<x>> \in Seq({x}) /\ Members(<<x>>) = {x}
  BY MembersOne
<1> QED
  BY <1>1, <1>2 DEF IsSequence

\* Without its first element it has no more.
LEMMA RestOfSequence ==
  ASSUME NEW q, IsSequence(q), q # <<>>
  PROVE  /\ IsSequence(Tail(q)) /\ Members(Tail(q)) \subseteq Members(q)
         /\ Head(q) \in Members(q)
<1>1. PICK S : q \in Seq(S)
  BY DEF IsSequence
<1>2. Members(q) = {Head(q)} \cup Members(Tail(q))
  BY <1>1, MembersHeadTail
<1>3. Tail(q) \in Seq(S)
  BY <1>1
<1> QED
  BY <1>2, <1>3 DEF IsSequence

\* The first element stays while others are appended.
LEMMA FirstOfJoined ==
  ASSUME NEW p, NEW q, IsSequence(p), IsSequence(q), p # <<>>
  PROVE  p \o q # <<>> /\ Head(p \o q) = Head(p)
<1>1. PICK S, T : p \in Seq(S) /\ q \in Seq(T)
  BY DEF IsSequence
<1>2. p \in Seq(S \cup T) /\ q \in Seq(S \cup T)
  BY <1>1
<1> QED
  BY <1>2, HeadTailConcat

\* A sequence made by a formula for each index.
LEMMA MadeSequence ==
  ASSUME NEW k \in Nat, NEW f, f = [i \in 1 .. k |-> f[i]]
  PROVE  /\ IsSequence(f) /\ Len(f) = k
         /\ \A x \in Members(f) : \E i \in 1 .. k : x = f[i]
<1> DEFINE S == {f[i] : i \in 1 .. k}
<1>1. f \in Seq(S) /\ Len(f) = k
  OBVIOUS
<1> QED
  BY <1>1 DEF IsSequence, Members
-----------------------------------------------------------------------------
(* What a callback says.                                                   *)

\* When a callback may report success: with the result OK; a message that is
\* sent, also with its first line; and one that is stored, if it is cancelled.
Truthful(c, r, ret) ==
  \/ c.cb \in {"sms_send_cb", "sms_write_cb", "sms_delete_cb"} /\ ret = 0
  \/ c.cb = "sms_send_cb" /\ ret = Pending /\ r.own
  \/ c.cb = "sms_write_cb" /\ ret = Pending

\* It says nothing or one thing, and a success only then.
ToldSuccess(m) == m.type = "SMS" /\ sms_msghandler(m) = "success"

Says(q, c, r, ret) ==
  q = <<>> \/ \E m : q = <<m>> /\ (ToldSuccess(m) => m.id = c.id /\ Truthful(c, r, ret))

\* A reply that the tool does not take for a success.
Plain(type, sub) ==
  type # "SMS" \/ sub \in {"LIST", "READ", "GET_MSG_STORAGE", "GET_SERVICE_CENTRE"}

\* The ways to answer.
LEMMA SaysPlain ==
  ASSUME NEW type, NEW sub, Plain(type, sub), NEW c, NEW r, NEW ret, NEW p, NEW id,
         NEW n, NEW last, NEW text, NEW o \in Send(Reply(type, sub, id, n, last, text), p)
  PROVE  Says(o.out, c, r, ret)
<1> DEFINE m == Reply(type, sub, id, n, last, text)
<1>1. o.out = <<m>> /\ m.type = type /\ m.sub = sub
  BY DEF Send, Outcome, Reply
<1> HIDE DEF m
<1>2. ~ ToldSuccess(m)
  BY <1>1 DEF Plain, ToldSuccess, sms_msghandler
<1> QED
  BY <1>1, <1>2 DEF Says

\* ... with nothing,
LEMMA SaysNothing ==
  ASSUME NEW c, NEW r, NEW ret, NEW p, NEW o \in Nothing(p) \cup Killed(p)
  PROVE  Says(o.out, c, r, ret)
BY DEF Nothing, Killed, Outcome, Says

\* ... with what was understood,
LEMMA SaysParsed ==
  ASSUME NEW type, NEW sub, Plain(type, sub), NEW c, NEW r, NEW ret, NEW p, NEW id, NEW last, NEW l,
         NEW o \in Parsed(type, sub, id, l, last, p)
  PROVE  Says(o.out, c, r, ret)
BY SaysPlain, SaysNothing DEF Parsed

\* ... with a copy,
LEMMA SaysCopied ==
  ASSUME NEW type, NEW sub, Plain(type, sub), NEW c, NEW r, NEW ret, NEW p, NEW id, NEW l,
         NEW o \in Copied(type, sub, id, l, p)
  PROVE  Says(o.out, c, r, ret)
BY SaysPlain DEF Copied

\* ... with an entry of a list.
LEMMA SaysEntry ==
  ASSUME NEW type, NEW sub, Plain(type, sub), NEW c, NEW r, NEW ret, NEW p,
         NEW o \in Entry(type, sub, c, r, ret, p)
  PROVE  Says(o.out, c, r, ret)
BY SaysParsed, SaysNothing DEF Entry

\* The results a callback is called with.
Rets == {0, 4, 11, 16, 321, Pending}

\* The callbacks of short messages.
LEMMA SmsSays ==
  ASSUME NEW c, NEW r, NEW ret \in Rets, NEW p,
         NEW o, \/ c.cb = "sms_send_cb" /\ o \in sms_send_cb(c, r, ret, p)
                \/ c.cb = "sms_write_cb" /\ o \in sms_write_cb(c, r, ret, p)
                \/ c.cb = "sms_delete_cb" /\ o \in sms_delete_cb(c, r, ret, p)
  PROVE  Says(o.out, c, r, ret)
<1>0. ret = 0 \/ ret = Pending \/ - ret < 0
  BY DEF Rets, Pending
<1>1. ASSUME NEW type, NEW sub, NEW n, NEW last, NEW text,
             o \in Send(Reply(type, sub, c.id, n, last, text), p),
             ToldSuccess(Reply(type, sub, c.id, n, last, text)) => Truthful(c, r, ret)
      PROVE  Says(o.out, c, r, ret)
  <2> DEFINE m == Reply(type, sub, c.id, n, last, text)
  <2>1. o.out = <<m>> /\ m.id = c.id
    BY <1>1 DEF Send, Outcome, Reply
  <2> HIDE DEF m
  <2> QED
    BY <1>1, <2>1 DEF Says, m
<1>2. ASSUME NEW sub, NEW last, o \in Parsed("SMS", sub, c.id, r, last, p),
             r.own => Truthful(c, r, ret)
      PROVE  Says(o.out, c, r, ret)
  <2>1. CASE r.own /\ r.full
    BY <1>1, <1>2, <2>1 DEF Parsed
  <2>2. CASE ~ (r.own /\ r.full)
    BY <1>2, <2>2, SaysNothing DEF Parsed
  <2> QED
    BY <2>1, <2>2
<1>3. \A sub, last, text : - ret < 0 /\ sub \in {"SEND", "WRITE"} =>
        ~ ToldSuccess(Reply("SMS", sub, c.id, - ret, last, text))
  <2> SUFFICES ASSUME NEW sub \in {"SEND", "WRITE"}, NEW last, NEW text, - ret < 0
               PROVE  ~ ToldSuccess(Reply("SMS", sub, c.id, - ret, last, text))
    OBVIOUS
  <2>1. ~ (- ret >= 0)
    BY DEF Rets, Pending
  <2> QED
    BY <2>1 DEF ToldSuccess, sms_msghandler, Reply
<1>4. CASE c.cb = "sms_send_cb" /\ o \in sms_send_cb(c, r, ret, p)
  <2>1. CASE ret \in {0, Pending}
    BY <1>2, <1>4, <2>1 DEF sms_send_cb, Truthful
  <2>2. CASE ret \notin {0, Pending}
    BY <1>0, <1>1, <1>3, <1>4, <2>2 DEF sms_send_cb
  <2> QED
    BY <2>1, <2>2
<1>5. CASE c.cb = "sms_write_cb" /\ o \in sms_write_cb(c, r, ret, p)
  <2>1. CASE ret = 0
    BY <1>2, <1>5, <2>1 DEF sms_write_cb, Truthful
  <2>2. CASE ret = Pending
    <3>1. o \in Send(Reply("SMS", "WRITE", c.id, - ret, TRUE, "parsed"), p)
      <4>1. ret # 0
        BY <2>2 DEF Pending
      <4> QED
        BY <1>5, <4>1 DEF sms_write_cb
    <3>2. Truthful(c, r, ret)
      BY <1>5, <2>2 DEF Truthful
    <3> QED
      BY <1>1, <3>1, <3>2
  <2>3. CASE ret \notin {0, Pending}
    BY <1>0, <1>1, <1>3, <1>5, <2>3 DEF sms_write_cb
  <2> QED
    BY <2>1, <2>2, <2>3
<1>6. CASE c.cb = "sms_delete_cb" /\ o \in sms_delete_cb(c, r, ret, p)
  <2>1. ToldSuccess(Reply("SMS", "DELETE", c.id, ret, TRUE, "result")) => ret = 0
    BY DEF ToldSuccess, sms_msghandler, Reply
  <2> QED
    BY <1>1, <1>6, <2>1 DEF sms_delete_cb, Truthful
<1> QED
  BY <1>4, <1>5, <1>6

\* Every callback.
LEMMA CallbackSays ==
  ASSUME NEW c, NEW r, NEW ret \in Rets, NEW p, NEW o \in Callback(c, r, ret, p)
  PROVE  Says(o.out, c, r, ret)
<1> DEFINE said == Says(o.out, c, r, ret)
<1>n. ASSUME o \in Nothing(p) \cup Killed(p) PROVE said
  BY <1>n, SaysNothing DEF said
<1>s. ASSUME NEW type, NEW sub, Plain(type, sub), NEW id, NEW n, NEW last, NEW text,
             o \in Send(Reply(type, sub, id, n, last, text), p)
      PROVE  said
  BY <1>s, SaysPlain DEF said
<1>p. ASSUME NEW type, NEW sub, Plain(type, sub), NEW id, NEW last,
             o \in Parsed(type, sub, id, r, last, p)
      PROVE  said
  BY <1>p, SaysParsed DEF said
<1>c. ASSUME NEW type, NEW sub, Plain(type, sub), NEW id, o \in Copied(type, sub, id, r, p)
      PROVE  said
  BY <1>c, SaysCopied DEF said
<1>e. ASSUME NEW type, NEW sub, Plain(type, sub), o \in Entry(type, sub, c, r, ret, p)
      PROVE  said
  BY <1>e, SaysEntry DEF said
<1>t. /\ \A sub : Plain("PASSTHROUGH", sub) /\ Plain("NETWORK", sub) /\ Plain("PHONEBOOK", sub)
      /\ Plain("SMS", "LIST") /\ Plain("SMS", "READ")
      /\ Plain("SMS", "GET_MSG_STORAGE") /\ Plain("SMS", "GET_SERVICE_CENTRE")
  BY DEF Plain
<1>1. CASE c.cb = "usock_cmd_cb"
  <2>1. o \in usock_cmd_cb(c, r, ret, p)
    BY <1>1 DEF Callback
  <2> QED
    BY <1>c, <1>t, <2>1 DEF usock_cmd_cb
<1>2. CASE c.cb = "network_vmail_cb"
  <2>1. o \in network_vmail_cb(c, r, ret, p)
    BY <1>2 DEF Callback
  <2>2. \/ o \in Nothing(p) \cup Killed(p)
        \/ o \in Parsed("NETWORK", "VMAIL_GET", c.id, r, TRUE, p)
    BY <2>1 DEF network_vmail_cb
  <2> QED
    BY <1>n, <1>p, <1>t, <2>2
<1>3. CASE c.cb \in {"network_sigq_cb", "phonebook_get_support_cb", "usock_cpms_cb", "usock_get_smsc_cb"}
  <2>1. \/ o \in network_sigq_cb(c, r, ret, p) \/ o \in phonebook_get_support_cb(c, r, ret, p)
        \/ o \in usock_cpms_cb(c, r, ret, p) \/ o \in usock_get_smsc_cb(c, r, ret, p)
    BY <1>3 DEF Callback
  <2> QED
    BY <1>p, <1>t, <2>1 DEF network_sigq_cb, phonebook_get_support_cb, usock_cpms_cb, usock_get_smsc_cb
<1>4. CASE c.cb = "network_oper_cb"
  <2>1. o \in network_oper_cb(c, r, ret, p)
    BY <1>4 DEF Callback
  <2> QED
    BY <1>p, <1>s, <1>t, <2>1 DEF network_oper_cb
<1>5. CASE c.cb \in {"network_opers_cb", "phonebook_list_storage_cb"}
  <2>1. \/ o \in network_opers_cb(c, r, ret, p)
        \/ o \in phonebook_list_storage_cb(c, r, ret, p)
    BY <1>5 DEF Callback
  <2> QED
    BY <1>s, <1>t, <2>1 DEF network_opers_cb, phonebook_list_storage_cb
<1>6. CASE c.cb \in {"network_pref_opers_cb", "network_ownnumbers_cb", "sms_list_cb"}
  <2>1. \/ o \in network_pref_opers_cb(c, r, ret, p) \/ o \in network_ownnumbers_cb(c, r, ret, p)
        \/ o \in sms_list_cb(c, r, ret, p)
    BY <1>6 DEF Callback
  <2> QED
    BY <1>e, <1>t, <2>1 DEF network_pref_opers_cb, network_ownnumbers_cb, sms_list_cb
<1>7. CASE c.cb \in {"network_pref_num_cb", "sms_read_cb"}
  <2>1. o \in network_pref_num_cb(c, r, ret, p) \/ o \in sms_read_cb(c, r, ret, p)
    BY <1>7 DEF Callback
  <2> QED
    BY <1>n, <1>p, <1>t, <2>1 DEF network_pref_num_cb, sms_read_cb
<1>8. CASE c.cb \in {"phonebook_find_cb", "phonebook_readrg_cb"}
  <2>1. o \in phonebook_find_cb(c, r, ret, p) \/ o \in phonebook_readrg_cb(c, r, ret, p)
    BY <1>8 DEF Callback
  <2>2. \E sub, list : o \in RecordLine(sub, list, r, p)
    BY <2>1 DEF phonebook_find_cb, phonebook_readrg_cb
  <2>3. PICK sub, list : o \in RecordLine(sub, list, r, p)
    BY <2>2
  <2>4. CASE o \in Killed(p)
    BY <1>n, <2>4
  <2>5. ASSUME o \notin Killed(p) PROVE said
    <3>1. PICK q : /\ q = [p EXCEPT ![list] = @ + 1]
                   /\ o \in Send(Reply("PHONEBOOK", sub, 0, 1, TRUE, "count"), q)
      BY <2>3, <2>5 DEF RecordLine
    <3> QED
      BY <1>t, <3>1, SaysPlain DEF said
  <2> QED
    BY <2>4, <2>5
<1>9. CASE c.cb = "phonebook_read_cb"
  <2>1. o \in phonebook_read_cb(c, r, ret, p)
    BY <1>9 DEF Callback
  <2> QED
    BY <1>n, <1>p, <1>s, <1>t, <2>1 DEF phonebook_read_cb
<1>10. CASE c.cb \in {"phonebook_write_cb", "phonebook_delete_cb", "get_imsi_cb"}
  <2>1. \/ o \in phonebook_write_cb(c, r, ret, p) \/ o \in phonebook_delete_cb(c, r, ret, p)
        \/ o \in get_imsi_cb(c, r, ret, p)
    BY <1>10 DEF Callback
  <2> QED
    BY <1>c, <1>t, <2>1 DEF phonebook_write_cb, phonebook_delete_cb, get_imsi_cb
<1>11. CASE c.cb \in {"sms_send_cb", "sms_write_cb", "sms_delete_cb"}
  <2>1. \/ c.cb = "sms_send_cb" /\ o \in sms_send_cb(c, r, ret, p)
        \/ c.cb = "sms_write_cb" /\ o \in sms_write_cb(c, r, ret, p)
        \/ c.cb = "sms_delete_cb" /\ o \in sms_delete_cb(c, r, ret, p)
    BY <1>11 DEF Callback
  <2> QED
    BY <2>1, SmsSays DEF said
<1>12. CASE /\ c.cb \notin {"usock_cmd_cb", "network_vmail_cb", "network_sigq_cb",
                            "phonebook_get_support_cb", "usock_cpms_cb", "usock_get_smsc_cb",
                            "network_oper_cb", "network_opers_cb", "phonebook_list_storage_cb",
                            "network_pref_opers_cb", "network_ownnumbers_cb", "sms_list_cb",
                            "network_pref_num_cb", "sms_read_cb", "phonebook_find_cb"}
            /\ c.cb \notin {"phonebook_readrg_cb", "phonebook_read_cb", "phonebook_write_cb",
                            "phonebook_delete_cb", "get_imsi_cb", "sms_send_cb", "sms_write_cb",
                            "sms_delete_cb"}
  <2>1. o \in Nothing(p)
    BY <1>12 DEF Callback, null_cmd_cb, pin_cmd_cb
  <2> QED
    BY <1>n, <2>1
<1> QED
  BY <1>1, <1>2, <1>3, <1>4, <1>5, <1>6, <1>7, <1>8, <1>9, <1>10, <1>11, <1>12 DEF said
-----------------------------------------------------------------------------
(* What the lines of the modem's own say, and the events of errors.        *)

\* Nothing or one event; and no command or the two of a registration.
SaysEvent(q) == q = <<>> \/ \E m : q = <<m>> /\ m.type = "EVENT"

ParsedWell(p) == SaysEvent(p.events) /\ (p.cmds = <<>> \/ \E a, b : p.cmds = <<a, b>>)

\* The ways to parse.
LEMMA ParsedWays ==
  ASSUME NEW flags
  PROVE  /\ \A ret : ParsedWell(Parse(ret, <<>>, flags))
         /\ \A sub, n, text : ParsedWell(Built(sub, n, text, flags))
         /\ ParsedWell(Malformed(flags)) /\ ParsedWell(Ignored(flags))
<1>1. \A ret : ParsedWell(Parse(ret, <<>>, flags))
  BY DEF Parse, ParsedWell, SaysEvent
<1>2. ASSUME NEW sub, NEW n, NEW text PROVE ParsedWell(Built(sub, n, text, flags))
  <2>1. Event(sub, n, text).type = "EVENT"
    BY DEF Event
  <2>2. PICK m : m = Event(sub, n, text)
    OBVIOUS
  <2>3. Built(sub, n, text, flags).events = <<m>> /\ Built(sub, n, text, flags).cmds = <<>>
    BY <2>2 DEF Built, Parse
  <2> QED
    BY <2>1, <2>2, <2>3 DEF ParsedWell, SaysEvent
<1> QED
  BY <1>1, <1>2 DEF Malformed, Ignored

\* Every parser.
LEMMA ParserSays ==
  ASSUME NEW prefix, NEW l, NEW flags PROVE ParsedWell(Parser(prefix, l, flags))
<1>e. /\ \A ret : ParsedWell(Parse(ret, <<>>, flags))
      /\ \A sub, n, text : ParsedWell(Built(sub, n, text, flags))
      /\ ParsedWell(Malformed(flags)) /\ ParsedWell(Ignored(flags))
  BY ParsedWays
<1>1. /\ ParsedWell(ring_parse(l, flags)) /\ ParsedWell(cring_parse(l, flags))
      /\ ParsedWell(ccwa_parse(l, flags)) /\ ParsedWell(clip_parse(l, flags))
      /\ ParsedWell(colp_parse(l, flags)) /\ ParsedWell(ctzv_parse(l, flags))
  BY <1>e DEF ring_parse, cring_parse, ccwa_parse, clip_parse, colp_parse, ctzv_parse
<1>2. /\ ParsedWell(cusd_parse(l, flags)) /\ ParsedWell(cccm_parse(l, flags))
      /\ ParsedWell(cgev_parse(l, flags)) /\ ParsedWell(cgreg_parse(l, flags))
      /\ ParsedWell(copn_parse(l, flags)) /\ ParsedWell(ti_ctzv_parse(l, flags))
  BY <1>e DEF cusd_parse, cccm_parse, cgev_parse, cgreg_parse, copn_parse, ti_ctzv_parse
<1>3. ParsedWell(creg_parse(l, flags))
  <2>1. CASE l.fields = 2
    BY <1>e, <2>1 DEF creg_parse
  <2>2. CASE l.fields # 2
    <3> DEFINE b == Built("NETREG", l.n, "state", flags)
               k == IF l.n \in {1, 5} THEN <<"+CSMS=0", "+CNMI=2,1,2,1,0">> ELSE <<>>
    <3>1. creg_parse(l, flags) = [b EXCEPT !.cmds = k]
      BY <2>2 DEF creg_parse
    <3>2. /\ [b EXCEPT !.cmds = k].events = b.events
          /\ [b EXCEPT !.cmds = k].cmds = k
      BY DEF Built, Parse
    <3>3. k = <<>> \/ k = <<"+CSMS=0", "+CNMI=2,1,2,1,0">>
      OBVIOUS
    <3> HIDE DEF k, b
    <3>4. ParsedWell(b)
      BY <1>e DEF b
    <3> QED
      BY <3>1, <3>2, <3>3, <3>4 DEF ParsedWell
  <2> QED
    BY <2>1, <2>2
<1>4. /\ \A sub : ParsedWell(Stored(l, sub, flags)) /\ ParsedWell(Inlined(l, sub, flags))
  BY <1>e DEF Stored, Inlined
<1>5. /\ ParsedWell(cmti_parse(l, flags)) /\ ParsedWell(cmt_parse(l, flags))
      /\ ParsedWell(cbmi_parse(l, flags)) /\ ParsedWell(cbm_parse(l, flags))
      /\ ParsedWell(cdsi_parse(l, flags)) /\ ParsedWell(cds_parse(l, flags))
  BY <1>e, <1>4 DEF cmti_parse, cmt_parse, cbmi_parse, cbm_parse, cdsi_parse, cds_parse
<1>6. ParsedWell(csq_parse(l, flags))
  <2>1. CASE l.fields < 2
    BY <2>1 DEF csq_parse, Parse, ParsedWell, SaysEvent
  <2>2. CASE ~ (l.fields < 2)
    BY <1>e, <2>2 DEF csq_parse
  <2> QED
    BY <2>1, <2>2
<1>7. ParsedWell(cpri_parse(l, flags)) /\ ParsedWell(cpi_parse(l, flags))
  <2>1. \A f : ParsedWell(Ignored(f))
    BY ParsedWays
  <2> QED
    BY <1>e, <2>1 DEF cpri_parse, cpi_parse
<1> QED
  BY <1>e, <1>1, <1>2, <1>3, <1>5, <1>6, <1>7 DEF Parser

\* An error gives nothing or one event.
LEMMA ErrorSays == ASSUME NEW res PROVE SaysEvent(ErrorEvent(res))
<1>1. \A sub, n, text : SaysEvent(<<Event(sub, n, text)>>)
  <2> SUFFICES ASSUME NEW sub, NEW n, NEW text PROVE SaysEvent(<<Event(sub, n, text)>>)
    OBVIOUS
  <2>1. Event(sub, n, text).type = "EVENT"
    BY DEF Event
  <2>2. PICK m : m = Event(sub, n, text)
    OBVIOUS
  <2> QED
    BY <2>1, <2>2 DEF SaysEvent
<1>2. SaysEvent(<<>>)
  BY DEF SaysEvent
<1>3. \A cme : SaysEvent(generate_event_from_cme(cme)) /\ SaysEvent(generate_event_from_cms(cme))
  BY <1>1, <1>2 DEF generate_event_from_cme, generate_event_from_cms
<1> QED
  BY <1>2, <1>3 DEF ErrorEvent

\* Events do not tell of success.
LEMMA EventsSayNoSuccess ==
  ASSUME NEW q, SaysEvent(q)
  PROVE  IsSequence(q) /\ \A m \in Members(q) : ~ ToldSuccess(m)
BY SmallSequence DEF SaysEvent, ToldSuccess
-----------------------------------------------------------------------------
(* What a request submits.                                                 *)

\* The callbacks there are, and the commands that some of them come with.
Callbacks ==
  Quiet \cup Passing
    \cup {"network_vmail_cb", "network_sigq_cb", "network_oper_cb", "network_opers_cb",
          "network_pref_opers_cb", "network_pref_num_cb", "network_ownnumbers_cb",
          "phonebook_find_cb", "phonebook_readrg_cb", "phonebook_get_support_cb",
          "phonebook_list_storage_cb", "get_imsi_cb"}
    \cup {"sms_list_cb", "sms_read_cb", "sms_send_cb", "sms_write_cb", "usock_cpms_cb",
          "usock_get_smsc_cb"}

Fits(at, cb) ==
  /\ cb \in Callbacks
  /\ cb = "NULL" => at \in {"+CPMS=", "+CSCA=", "+CSCB="}
  /\ cb = "sms_send_cb" => at = "+CMGS="
  /\ cb = "sms_write_cb" => at = "+CMGW="
  /\ cb = "sms_delete_cb" => at = "+CMGD="
  /\ cb = "sms_read_cb" => at = "+CMGR="
  /\ cb = "get_imsi_cb" => at = "+CIMI"
  /\ cb = "phonebook_list_storage_cb" => at = "+CPBS=?"
  /\ cb = "network_vmail_cb" => at \in {"+CSVM?", "+CSVM="}
  /\ cb = "network_oper_cb" => at = "+COPS?"
  /\ cb = "network_opers_cb" => at = "+COPS=?"
  /\ cb = "network_pref_num_cb" => at = "+CPOL=?"

Paired(c) == Fits(c.at, c.cb)

\* At most two commands, paired; a cancelling one has one.
SubmitsWell(r) ==
  /\ \/ r.cmds = <<>>
     \/ \E a : r.cmds = <<a>> /\ Paired(a)
     \/ \E a, b : r.cmds = <<a, b>> /\ Paired(a) /\ Paired(b)
  /\ r.effect = "cancel" => \E a : r.cmds = <<a>> /\ Paired(a)

\* The ways to handle a request.
LEMMA SubmitWays ==
  /\ \A err : SubmitsWell(Refuse(err))
  /\ \A effect : effect # "cancel" => SubmitsWell(Do(effect))
  /\ \A at, cb, id, arg : Paired(Command(at, cb, id, arg)) => SubmitsWell(One(at, cb, id, arg))
<1>1. \A err : SubmitsWell(Refuse(err))
  BY DEF Refuse, SubmitsWell
<1>2. \A effect : effect # "cancel" => SubmitsWell(Do(effect))
  BY DEF Do, SubmitsWell
<1>3. ASSUME NEW at, NEW cb, NEW id, NEW arg, Paired(Command(at, cb, id, arg))
      PROVE  SubmitsWell(One(at, cb, id, arg))
  <2>1. PICK a : a = Command(at, cb, id, arg)
    OBVIOUS
  <2>2. One(at, cb, id, arg).cmds = <<a>> /\ One(at, cb, id, arg).effect = "none"
    BY <2>1 DEF One, Submit
  <2> QED
    BY <1>3, <2>1, <2>2 DEF SubmitsWell
<1> QED
  BY <1>1, <1>2, <1>3

\* The others come with any command.
Anyway ==
  {"usock_cmd_cb", "null_cmd_cb", "null_wakeup_cb", "pin_cmd_cb", "phone_powerup_cb",
   "network_sigq_cb", "network_pref_opers_cb", "network_ownnumbers_cb"}

\* ... so that a command with one of these is well paired.
LEMMA PairedAnyway ==
  /\ \A at, cb, id, arg : Fits(at, cb) => Paired(Command(at, cb, id, arg))
  /\ \A at, cb : cb \in Anyway => Fits(at, cb)
  /\ \A at, cb, id, arg : cb \in Anyway => Paired(Command(at, cb, id, arg))
<1>1. \A at, cb, id, arg : Fits(at, cb) => Paired(Command(at, cb, id, arg))
  BY DEF Paired, Command
<1>2. \A at, cb : cb \in Anyway => Fits(at, cb)
  BY DEF Anyway, Fits, Callbacks, Quiet, Passing
<1> QED
  BY <1>1, <1>2

\* The name and callback of a command.
Ordinary(c) == Fits(c[1], c[2])

\* A network request submits one or two of them.
LEMMA NetworkSubmits == ASSUME NEW m PROVE SubmitsWell(usock_rcv_network(m))
<1> DEFINE cs == NetworkCommands[m.sub]
           q  == [i \in DOMAIN cs |-> Command(cs[i][1], cs[i][2], 0, m.arg)]
<1>1. CASE m.sub \notin DOMAIN NetworkCommands
  BY <1>1, SubmitWays DEF usock_rcv_network
<1>2. CASE m.sub \in DOMAIN NetworkCommands
  <2>1. usock_rcv_network(m) = Submit(q)
    BY <1>2 DEF usock_rcv_network
  <2>2. Submit(q).cmds = q /\ Submit(q).effect = "none"
    BY DEF Submit
  <2>3. \/ \E a : cs = <<a>> /\ Ordinary(a)
        \/ \E a, b : cs = <<a, b>> /\ Ordinary(a) /\ Ordinary(b)
    <3>1. m.sub \in {"REGISTER", "DEREGISTER", "VMAIL_GET", "VMAIL_SET", "SIGQ_GET", "OPER_GET",
                     "OPER_LIST", "PREF_LIST", "PREF_DEL", "PREF_ADD", "PREF_SPACE", "GET_NUMBER"}
      BY <1>2 DEF NetworkCommands
    <3>2. CASE m.sub = "OPER_GET"
      <4>1. PICK a, b : a = <<"+COPS=3", "null_cmd_cb">> /\ b = <<"+COPS?", "network_oper_cb">>
        OBVIOUS
      <4>2. cs = <<a, b>>
        BY <3>2, <4>1 DEF NetworkCommands
      <4>3. Ordinary(a) /\ Ordinary(b)
        BY <4>1, PairedAnyway DEF Ordinary, Fits, Callbacks, Quiet, Passing, Anyway
      <4> QED
        BY <4>2, <4>3
    <3>3. CASE m.sub = "PREF_LIST"
      <4>1. PICK a, b : a = <<"+CPOL=,0", "null_cmd_cb">> /\ b = <<"+CPOL?", "network_pref_opers_cb">>
        OBVIOUS
      <4>2. NetworkCommands["PREF_LIST"] = <<a, b>>
        BY <4>1, Zenon DEF NetworkCommands
      <4>4. cs = <<a, b>>
        BY <3>3, <4>2
      <4>3. Ordinary(a) /\ Ordinary(b)
        BY <4>1, PairedAnyway DEF Ordinary, Fits, Callbacks, Quiet, Passing, Anyway
      <4> QED
        BY <4>4, <4>3
    <3>4. CASE m.sub \notin {"OPER_GET", "PREF_LIST"}
      <4>1. PICK on1, off, ask, tell, sig, opers, pref, num, own :
               /\ on1 = <<"+COPS=1", "null_cmd_cb">> /\ off = <<"+COPS=2", "null_cmd_cb">>
               /\ ask = <<"+CSVM?", "network_vmail_cb">> /\ tell = <<"+CSVM=", "network_vmail_cb">>
               /\ sig = <<"+CSQ", "network_sigq_cb">> /\ opers = <<"+COPS=?", "network_opers_cb">>
               /\ pref = <<"+CPOL=", "null_cmd_cb">> /\ num = <<"+CPOL=?", "network_pref_num_cb">>
               /\ own = <<"+CNUM", "network_ownnumbers_cb">>
        OBVIOUS
      <4>2. /\ Ordinary(on1) /\ Ordinary(off) /\ Ordinary(ask) /\ Ordinary(tell) /\ Ordinary(sig)
            /\ Ordinary(opers) /\ Ordinary(pref) /\ Ordinary(num) /\ Ordinary(own)
        BY <4>1, PairedAnyway DEF Ordinary, Fits, Callbacks, Quiet, Passing, Anyway
      <4>3. /\ NetworkCommands["REGISTER"] = <<on1>> /\ NetworkCommands["DEREGISTER"] = <<off>>
            /\ NetworkCommands["VMAIL_GET"] = <<ask>> /\ NetworkCommands["VMAIL_SET"] = <<tell>>
            /\ NetworkCommands["SIGQ_GET"] = <<sig>> /\ NetworkCommands["OPER_LIST"] = <<opers>>
            /\ NetworkCommands["PREF_DEL"] = <<pref>> /\ NetworkCommands["PREF_ADD"] = <<pref>>
            /\ NetworkCommands["PREF_SPACE"] = <<num>> /\ NetworkCommands["GET_NUMBER"] = <<own>>
        BY <4>1, Zenon DEF NetworkCommands
      <4> QED
        BY <3>1, <3>4, <4>2, <4>3
    <3> QED
      BY <3>2, <3>3, <3>4
  <2> HIDE DEF cs
  <2>4. ASSUME NEW a, cs = <<a>>, Ordinary(a)
        PROVE  \E x : q = <<x>> /\ Paired(x)
    <3>1. Paired(Command(a[1], a[2], 0, m.arg))
      BY <2>4, PairedAnyway DEF Ordinary
    <3>2. PICK x : x = Command(a[1], a[2], 0, m.arg)
      OBVIOUS
    <3>3. q = <<x>>
      BY <2>4, <3>2
    <3> QED
      BY <3>1, <3>2, <3>3
  <2>5. ASSUME NEW a, NEW b, cs = <<a, b>>, Ordinary(a), Ordinary(b)
        PROVE  \E x, y : q = <<x, y>> /\ Paired(x) /\ Paired(y)
    <3>1. Paired(Command(a[1], a[2], 0, m.arg)) /\ Paired(Command(b[1], b[2], 0, m.arg))
      BY <2>5, PairedAnyway DEF Ordinary
    <3>2. PICK x, y : x = Command(a[1], a[2], 0, m.arg) /\ y = Command(b[1], b[2], 0, m.arg)
      OBVIOUS
    <3>3. q = <<x, y>>
      BY <2>5, <3>2
    <3> QED
      BY <3>1, <3>2, <3>3
  <2> HIDE DEF q
  <2> QED
    BY <2>1, <2>2, <2>3, <2>4, <2>5 DEF SubmitsWell
<1> QED
  BY <1>1, <1>2

\* Requests about short messages.
LEMMA SmsSubmits == ASSUME NEW m PROVE SubmitsWell(usock_rcv_sms(m))
<1> DEFINE cs == SmsCommands[m.sub]
<1>1. CASE usock_rcv_sms(m) \in {Refuse("ENOSYS"), Refuse("EINVAL")}
  BY <1>1, SubmitWays
<1>2. CASE usock_rcv_sms(m) \notin {Refuse("ENOSYS"), Refuse("EINVAL")}
  <2>1. m.sub \in DOMAIN SmsCommands
    BY <1>2 DEF usock_rcv_sms
  <2>2. PICK id : usock_rcv_sms(m) = One(cs[1], cs[2], id, m.arg)
    BY <1>2 DEF usock_rcv_sms
  <2>3. Fits(cs[1], cs[2])
    BY <2>1 DEF SmsCommands, Fits, Callbacks, Quiet, Passing
  <2> HIDE DEF cs
  <2>4. Paired(Command(cs[1], cs[2], id, m.arg))
    BY <2>3, PairedAnyway
  <2> QED
    BY <2>2, <2>4, SubmitWays
<1> QED
  BY <1>1, <1>2

\* Requests about the phonebook.
LEMMA PhonebookSubmits == ASSUME NEW m PROVE SubmitsWell(usock_rcv_phonebook(m))
<1> DEFINE cs == PhonebookCommands[m.sub]
<1>1. CASE usock_rcv_phonebook(m) \in {Refuse("EINVAL"), Do("retrieve_find"), Do("retrieve_readrg")}
  BY <1>1, SubmitWays
<1>2. CASE usock_rcv_phonebook(m) \notin {Refuse("EINVAL"), Do("retrieve_find"), Do("retrieve_readrg")}
  <2>1. m.sub \in DOMAIN PhonebookCommands
    BY <1>2 DEF usock_rcv_phonebook
  <2>2. PICK id : usock_rcv_phonebook(m) = One(cs[1], cs[2], id, m.arg)
    BY <1>2 DEF usock_rcv_phonebook
  <2>3. Fits(cs[1], cs[2])
    BY <2>1 DEF PhonebookCommands, Fits, Callbacks, Quiet, Passing
  <2> HIDE DEF cs
  <2> QED
    BY <2>2, <2>3, PairedAnyway, SubmitWays
<1> QED
  BY <1>1, <1>2

\* Calls: the hang-up cancels, with a command of its own.
LEMMA VoicecallSubmits == ASSUME NEW m PROVE SubmitsWell(usock_rcv_voicecall(m))
<1>1. \A at, id, arg : Paired(Command(at, "usock_cmd_cb", id, arg))
  BY PairedAnyway DEF Anyway
<1>2. CASE m.sub = "HANGUP"
  <2> DEFINE h == One("H", "usock_cmd_cb", m.id, m.arg)
             a == Command("H", "usock_cmd_cb", m.id, m.arg)
  <2>1. usock_rcv_voicecall(m) = [h EXCEPT !.effect = "cancel"]
    BY <1>2 DEF usock_rcv_voicecall
  <2>2. [h EXCEPT !.effect = "cancel"].cmds = <<a>>
    BY DEF One, Submit
  <2>3. Paired(a)
    BY <1>1
  <2> HIDE DEF a, h
  <2> QED
    BY <2>1, <2>2, <2>3 DEF SubmitsWell
<1>3. CASE m.sub # "HANGUP"
  BY <1>1, <1>3, SubmitWays DEF usock_rcv_voicecall
<1> QED
  BY <1>2, <1>3

\* The radio.
LEMMA PhoneSubmits == ASSUME NEW m PROVE SubmitsWell(usock_rcv_phone(m))
<1>1. \A at, id, arg : /\ Paired(Command(at, "phone_powerup_cb", id, arg))
                       /\ Paired(Command(at, "null_cmd_cb", id, arg))
  BY PairedAnyway DEF Anyway
<1>2. CASE m.sub = "POWERDOWN"
  <2> DEFINE h == One("+CFUN=0", "null_cmd_cb", 0, m.arg)
             a == Command("+CFUN=0", "null_cmd_cb", 0, m.arg)
  <2>1. usock_rcv_phone(m) = [h EXCEPT !.effect = "off"]
    BY <1>2 DEF usock_rcv_phone
  <2>2. [h EXCEPT !.effect = "off"].cmds = <<a>>
        /\ [h EXCEPT !.effect = "off"].effect = "off"
    BY DEF One, Submit
  <2>3. Paired(a)
    BY <1>1
  <2> HIDE DEF a, h
  <2> QED
    BY <2>1, <2>2, <2>3 DEF SubmitsWell
<1>3. CASE m.sub # "POWERDOWN"
  BY <1>1, <1>3, SubmitWays DEF usock_rcv_phone
<1> QED
  BY <1>2, <1>3

\* Every request.
LEMMA RequestSubmits == ASSUME NEW m PROVE SubmitsWell(usock_rcv_pcmd(m))
<1>1. \A at, id, arg : /\ Paired(Command(at, "usock_cmd_cb", id, arg))
                       /\ Paired(Command(at, "pin_cmd_cb", id, arg))
  BY PairedAnyway DEF Anyway
<1>2. SubmitsWell(usock_rcv_passthrough(m))
  BY <1>1, SubmitWays DEF usock_rcv_passthrough
<1>3. SubmitsWell(usock_rcv_event(m))
  BY SubmitWays DEF usock_rcv_event
<1>4. SubmitsWell(usock_rcv_pin(m))
  BY <1>1, SubmitWays DEF usock_rcv_pin
<1>5. SubmitsWell(usock_rcv_cb(m))
  <2>1. \A arg : Paired(Command("+CSCB=", "NULL", 0, arg))
    BY PairedAnyway DEF Fits, Callbacks, Quiet
  <2> QED
    BY <2>1, SubmitWays DEF usock_rcv_cb
<1>6. /\ SubmitsWell(usock_rcv_voicecall(m)) /\ SubmitsWell(usock_rcv_phone(m))
      /\ SubmitsWell(usock_rcv_network(m)) /\ SubmitsWell(usock_rcv_sms(m))
      /\ SubmitsWell(usock_rcv_phonebook(m)) /\ SubmitsWell(Refuse("EINVAL"))
  BY VoicecallSubmits, PhoneSubmits, NetworkSubmits, SmsSubmits, PhonebookSubmits, SubmitWays
<1> QED
  BY <1>2, <1>3, <1>4, <1>5, <1>6 DEF usock_rcv_pcmd
-----------------------------------------------------------------------------
(* What holds whenever the daemon waits.                                   *)

\* The queued commands have their own callbacks.
Queued == IsSequence(queue) /\ \A q \in Members(queue) : Paired(q.cmd)

\* The line kept in mlbuf came for the executing command, whose callback will
\* get it; it is one of the lines given to that command.
Kept ==
  /\ given \in Nat
  /\ \/ ml = <<>>
     \/ /\ \E x : ml = <<x>> /\ x.from = Executing.serial
        /\ queue # <<>> /\ given > 0
        /\ Extended(Executing.cmd) /\ Executing.cmd.cb # "NULL"

\* The replies made so far are made of their own lines.
RepliesOwn == IsSequence(replies) /\ OwnLine

\* The successes that are on their way to the client.
OutTrue == IsSequence(out) /\ \A m \in Members(out) : ToldSuccess(m) => Done(m.id)

ServicesInv == Queued /\ Kept /\ RepliesOwn /\ OutTrue /\ SuccessIsTrue

\* Every line of the modem's own is one that a parser is found for.
KnownLines ==
  \A l \in Foreign : \A flags :
    unsolicited_parse(unsolicited_init(ticalypso_unsolicit), l, flags).ret # "ENOENT"

\* Commands that may be queued.
AllPaired(cmds) == \E k \in Nat : DOMAIN cmds = 1 .. k /\ \A i \in 1 .. k : Paired(cmds[i])

\* Those of a request, and those of a registration.
LEMMA FewPaired ==
  /\ \A r : SubmitsWell(r) => AllPaired(r.cmds)
  /\ \A p : ParsedWell(p) => AllPaired(Simple(p.cmds))
<1>1. AllPaired(<<>>)
  BY DEF AllPaired
<1>2. ASSUME NEW a, Paired(a) PROVE AllPaired(<<a>>)
  BY <1>2 DEF AllPaired
<1>3. ASSUME NEW a, NEW b, Paired(a), Paired(b) PROVE AllPaired(<<a, b>>)
  <2>1. /\ DOMAIN <<a, b>> = 1 .. 2
        /\ \A i \in 1 .. 2 : <<a, b>>[i] \in {a, b}
    OBVIOUS
  <2> QED
    BY <1>3, <2>1 DEF AllPaired
<1>4. ASSUME NEW p, ParsedWell(p) PROVE AllPaired(Simple(p.cmds))
  <2>1. \A text : Paired(Command(text, "null_cmd_cb", 0, 0))
    BY PairedAnyway DEF Anyway
  <2>2. CASE p.cmds = <<>>
    <3>1. DOMAIN Simple(p.cmds) = 1 .. 0
      BY <2>2 DEF Simple
    <3> QED
      BY <3>1 DEF AllPaired
  <2>3. ASSUME NEW a, NEW b, p.cmds = <<a, b>> PROVE AllPaired(Simple(p.cmds))
    <3>1. /\ DOMAIN Simple(p.cmds) = 1 .. 2
          /\ \A i \in 1 .. 2 : Simple(p.cmds)[i] = Command(p.cmds[i], "null_cmd_cb", 0, 0)
      BY <2>3 DEF Simple
    <3> QED
      BY <2>1, <3>1 DEF AllPaired
  <2> QED
    BY <1>4, <2>2, <2>3 DEF ParsedWell
<1> QED
  BY <1>1, <1>2, <1>3, <1>4 DEF SubmitsWell

\* What is appended to the queue.
LEMMA BatchPaired ==
  ASSUME NEW cmds, AllPaired(cmds)
  PROVE  IsSequence(Batch(cmds)) /\ \A q \in Members(Batch(cmds)) : Paired(q.cmd)
<1> DEFINE w == IF cmds = <<>> \/ waking THEN <<>> ELSE <<Numbered(Wakeup, 0)>>
           f == [i \in DOMAIN cmds |-> Numbered(cmds[i], serial + i - 1)]
<1>1. \A c, n : Numbered(c, n).cmd = c
  BY DEF Numbered
<1>2. IsSequence(w) /\ \A q \in Members(w) : Paired(q.cmd)
  <2>1. Paired(Wakeup)
    BY PairedAnyway DEF Wakeup, Anyway
  <2> QED
    BY <1>1, <2>1, SmallSequence
<1>3. IsSequence(f) /\ \A q \in Members(f) : Paired(q.cmd)
  <2>1. PICK k \in Nat : DOMAIN cmds = 1 .. k /\ \A i \in 1 .. k : Paired(cmds[i])
    BY DEF AllPaired
  <2>2. /\ f = [i \in 1 .. k |-> f[i]]
        /\ \A i \in 1 .. k : f[i] = Numbered(cmds[i], serial + i - 1)
    BY <2>1
  <2> HIDE DEF f
  <2>3. IsSequence(f) /\ \A x \in Members(f) : \E i \in 1 .. k : x = f[i]
    BY <2>2, MadeSequence
  <2> QED
    BY <1>1, <2>1, <2>2, <2>3
<1> HIDE DEF w, f
<1>4. Batch(cmds) = w \o f
  BY DEF Batch, w, f
<1> QED
  BY <1>2, <1>3, <1>4, JoinedSequence

\* Submitting keeps the queue's commands paired, and its first one.
LEMMA SubmittingKeeps ==
  ASSUME Queued, NEW cmds, AllPaired(cmds), Submitting(cmds)
  PROVE  /\ Queued'
         /\ queue # <<>> => queue' # <<>> /\ Head(queue') = Head(queue)
<1>1. queue' = queue \o Batch(cmds)
  BY DEF Submitting
<1>2. IsSequence(Batch(cmds)) /\ \A q \in Members(Batch(cmds)) : Paired(q.cmd)
  BY BatchPaired
<1> QED
  BY <1>1, <1>2, JoinedSequence, FirstOfJoined DEF Queued

\* A line, and what was asked, stay while the executing command does.
LEMMA KeptStays ==
  ASSUME Kept, UNCHANGED <<ml, given>>,
         queue # <<>> => queue' # <<>> /\ Head(queue') = Head(queue)
  PROVE  Kept'
BY DEF Kept, Executing, Extended

\* What was done stays done.
LEMMA DoneStays ==
  ASSUME ended \subseteq ended' PROVE \A id : Done(id) => Done(id)'
BY DEF Done

\* The replies and successes of a callback.
LEMMA AnsweredKeeps ==
  ASSUME RepliesOwn, OutTrue, ended \subseteq ended',
         NEW q, NEW r, NEW ret \in Rets, NEW events,
         Answered(q, r, ret, events), SaysEvent(events), r.from = q.serial,
         Truthful(q.cmd, r, ret) => Done(q.cmd.id)'
  PROVE  RepliesOwn' /\ OutTrue'
<1>1. PICK o \in Callback(q.cmd, r, ret, pb) :
        /\ out' = out \o events \o o.out
        /\ replies' = replies \o
             [i \in DOMAIN o.out |-> [by |-> q.serial, from |-> r.from, last |-> o.out[i].last]]
  BY DEF Answered
<1>2. Says(o.out, q.cmd, r, ret)
  BY CallbackSays
<1> DEFINE fine == /\ IsSequence(o.out)
                   /\ \A m \in Members(o.out) :
                        ToldSuccess(m) => m.id = q.cmd.id /\ Truthful(q.cmd, r, ret)
                   /\ \E k \in Nat : DOMAIN o.out = 1 .. k
<1>3. fine
  <2>1. CASE o.out = <<>>
    <3>1. DOMAIN o.out = 1 .. 0
      BY <2>1
    <3> QED
      BY <2>1, <3>1, SmallSequence
  <2>2. ASSUME NEW m, o.out = <<m>>, ToldSuccess(m) => m.id = q.cmd.id /\ Truthful(q.cmd, r, ret)
        PROVE  fine
    <3>1. DOMAIN o.out = 1 .. 1
      BY <2>2
    <3> QED
      BY <2>2, <3>1, SmallSequence
  <2> QED
    BY <1>2, <2>1, <2>2 DEF Says
<1>4. OutTrue'
  <2>1. IsSequence(out \o events) /\ Members(out \o events) = Members(out) \cup Members(events)
    BY EventsSayNoSuccess, JoinedSequence DEF OutTrue
  <2>2. IsSequence(out') /\ Members(out') = Members(out) \cup Members(events) \cup Members(o.out)
    BY <1>1, <1>3, <2>1, JoinedSequence
  <2>3. ASSUME NEW m \in Members(out'), ToldSuccess(m) PROVE Done(m.id)'
    <3>1. CASE m \in Members(out)
      BY <2>3, <3>1, DoneStays DEF OutTrue
    <3>2. CASE m \in Members(events)
      BY <2>3, <3>2, EventsSayNoSuccess
    <3>3. CASE m \in Members(o.out)
      BY <1>3, <2>3, <3>3
    <3> QED
      BY <2>2, <2>3, <3>1, <3>2, <3>3
  <2> QED
    BY <2>2, <2>3 DEF OutTrue
<1>5. RepliesOwn'
  <2> DEFINE f == [i \in DOMAIN o.out |-> [by |-> q.serial, from |-> r.from, last |-> o.out[i].last]]
  <2>1. PICK k \in Nat : DOMAIN o.out = 1 .. k
    BY <1>3
  <2>2. f = [i \in 1 .. k |-> f[i]] /\ \A i \in 1 .. k : f[i].from = f[i].by
    BY <2>1
  <2>3. replies' = replies \o f
    BY <1>1
  <2> HIDE DEF f
  <2>4. IsSequence(f) /\ \A x \in Members(f) : x.from = x.by
    <3>1. IsSequence(f) /\ \A x \in Members(f) : \E i \in 1 .. k : x = f[i]
      BY <2>2, MadeSequence
    <3> QED
      BY <2>2, <3>1
  <2>5. \A x \in Members(replies) : x.from = x.by
    BY DEF RepliesOwn, OwnLine, Members, IsSequence
  <2>6. IsSequence(replies') /\ \A x \in Members(replies') : x.from = x.by
    BY <2>3, <2>4, <2>5, JoinedSequence DEF RepliesOwn
  <2> QED
    BY <2>6 DEF RepliesOwn, OwnLine, Members, IsSequence
<1> QED
  BY <1>4, <1>5
-----------------------------------------------------------------------------
(* The steps.                                                              *)

\* Typing does not reach the daemon.
LEMMA TypeKeeps == ASSUME ServicesInv, Type PROVE ServicesInv'
<1>1. UNCHANGED <<told, queue, ml, given, out, replies, ended>>
  BY DEF Type, engine, modem
<1> QED
  BY <1>1 DEF ServicesInv, Queued, Kept, RepliesOwn, OwnLine, OutTrue, SuccessIsTrue, Done,
              Executing, Extended

\* A message is taken.
LEMMA TakeKeeps == ASSUME ServicesInv, Take PROVE ServicesInv'
<1> DEFINE m == Head(sent)
           r == usock_rcv_pcmd(m)
<1>1. SubmitsWell(r)
  BY RequestSubmits
<1>2. told' = told
  BY DEF Take, client
<1> HIDE DEF m
<1>e. PICK e : e = Executing
  OBVIOUS
<1>s. PICK s : s = Result("OK", e.serial)
  OBVIOUS
<1>3. CASE /\ r.effect = "cancel" /\ queue # <<>>
           /\ ml' = <<>>
           /\ Answered(e, s, Pending, <<>>)
           /\ queue' = <<Numbered(r.cmds[1], serial)>> \o Tail(queue)
           /\ given' = 0
           /\ ended' = ended \cup {[q |-> e, lines |-> given, res |-> "cancelled"]}
  <2>1. Queued'
    <3>1. PICK a : r.cmds = <<a>> /\ Paired(a)
      BY <1>1, <1>3 DEF SubmitsWell
    <3>2. PICK n : n = Numbered(a, serial)
      OBVIOUS
    <3>3. queue' = <<n>> \o Tail(queue) /\ Paired(n.cmd)
      BY <1>3, <3>1, <3>2 DEF Numbered
    <3>4. /\ IsSequence(<<n>>) /\ Members(<<n>>) = {n}
          /\ IsSequence(Tail(queue)) /\ Members(Tail(queue)) \subseteq Members(queue)
      BY <1>3, SmallSequence, RestOfSequence DEF ServicesInv, Queued
    <3>5. IsSequence(queue') /\ Members(queue') = {n} \cup Members(Tail(queue))
      BY <3>3, <3>4, JoinedSequence
    <3> QED
      BY <3>3, <3>4, <3>5 DEF ServicesInv, Queued
  <2>2. Kept'
    BY <1>3 DEF Kept
  <2>3. ended \subseteq ended'
    BY <1>3
  <2>4. Truthful(e.cmd, s, Pending) => Done(e.cmd.id)'
    <3>1. ~ s.own /\ Pending # 0
      BY <1>s DEF Result, Line, Pending
    <3>2. Paired(e.cmd)
      BY <1>e, <1>3, RestOfSequence DEF ServicesInv, Queued, Executing
    <3>3. SUFFICES ASSUME e.cmd.cb = "sms_write_cb" PROVE Done(e.cmd.id)'
      BY <3>1 DEF Truthful
    <3>4. e.cmd.at = "+CMGW="
      BY <3>2, <3>3 DEF Paired, Fits
    <3> DEFINE d == [q |-> e, lines |-> given, res |-> "cancelled"]
    <3>5. d \in ended' /\ d.q = e /\ d.res = "cancelled"
      BY <1>3
    <3> QED
      BY <3>4, <3>5 DEF Done
  <2>5. Pending \in Rets /\ SaysEvent(<<>>) /\ s.from = e.serial
    BY <1>s DEF Rets, SaysEvent, Result, Line
  <2>6. RepliesOwn' /\ OutTrue'
    BY <1>3, <2>3, <2>4, <2>5, AnsweredKeeps DEF ServicesInv
  <2>7. SuccessIsTrue'
    BY <1>2, <2>3, DoneStays DEF ServicesInv, SuccessIsTrue
  <2> QED
    BY <2>1, <2>2, <2>6, <2>7 DEF ServicesInv
<1>4. CASE /\ \E list : \E o \in Retrieve(m.sub, list, m.arg, pb) : out' = out \o o.out
           /\ UNCHANGED <<queue, ml, replies, ended, given>>
  <2>0. PICK list : \E o \in Retrieve(m.sub, list, m.arg, pb) : out' = out \o o.out
    BY <1>4
  <2>1. PICK o \in Retrieve(m.sub, list, m.arg, pb) : out' = out \o o.out
    BY <2>0
  <2>2. IsSequence(o.out) /\ \A x \in Members(o.out) : ~ ToldSuccess(x)
    <3>1. CASE pb[list] > 0
      <4>1. Retrieve(m.sub, list, m.arg, pb) = {Outcome(<<>>, FALSE, pb)}
        BY <3>1 DEF Retrieve, Killed
      <4>2. o.out = <<>>
        BY <4>1 DEF Outcome
      <4> QED
        BY <4>2, SmallSequence
    <3>2. CASE ~ (pb[list] > 0)
      <4>1. PICK x : x = Reply("PHONEBOOK", m.sub, 0, m.arg, TRUE, "records")
        OBVIOUS
      <4>2. Retrieve(m.sub, list, m.arg, pb) = {Outcome(<<x>>, TRUE, pb)}
        BY <3>2, <4>1 DEF Retrieve, Send
      <4>3. o.out = <<x>> /\ ~ ToldSuccess(x)
        BY <4>1, <4>2 DEF Outcome, Reply, ToldSuccess
      <4> QED
        BY <4>3, SmallSequence
    <3> QED
      BY <3>1, <3>2
  <2>3. OutTrue'
    <3>1. IsSequence(out') /\ Members(out') = Members(out) \cup Members(o.out)
      BY <2>1, <2>2, JoinedSequence DEF ServicesInv, OutTrue
    <3> QED
      BY <1>4, <2>2, <3>1, DoneStays DEF ServicesInv, OutTrue
  <2> QED
    BY <1>2, <1>4, <2>3 DEF ServicesInv, Queued, Kept, RepliesOwn, OwnLine, SuccessIsTrue, Done,
                            Executing, Extended
<1>5. CASE /\ Submitting(r.cmds)
           /\ UNCHANGED <<out, replies, ml, ended, given>>
  <2>1. Queued' /\ (queue # <<>> => queue' # <<>> /\ Head(queue') = Head(queue))
    BY <1>1, <1>5, FewPaired, SubmittingKeeps DEF ServicesInv
  <2>2. Kept'
    BY <1>5, <2>1, KeptStays DEF ServicesInv
  <2> QED
    BY <1>2, <1>5, <2>1, <2>2 DEF ServicesInv, RepliesOwn, OwnLine, OutTrue, SuccessIsTrue, Done
<1> QED
  BY <1>e, <1>s, <1>3, <1>4, <1>5 DEF Take, m, engine, NoAnswer

\* The commands that are answered with at most one line, or with none.
LEMMA FewLines ==
  ASSUME NEW c, Paired(c), ~ SilentLines
  PROVE  /\ c.cb = "NULL" => Lines(c) = {0}
         /\ c.cb \in {"sms_send_cb", "sms_write_cb"} => Lines(c) = {1}
         /\ c.cb = "sms_delete_cb" => Lines(c) = {0}
<1>1. CASE c.cb = "NULL"
  <2>1. c.at \in {"+CPMS=", "+CSCA=", "+CSCB="} /\ c.cb # "phonebook_readrg_cb"
    BY <1>1 DEF Paired, Fits
  <2> QED
    BY <1>1, <2>1 DEF Lines
<1>2. CASE c.cb \in {"sms_send_cb", "sms_write_cb"}
  <2>1. c.at \in {"+CMGS=", "+CMGW="} /\ c.cb # "phonebook_readrg_cb"
    BY <1>2 DEF Paired, Fits
  <2> QED
    BY <1>2, <2>1 DEF Lines
<1>3. CASE c.cb = "sms_delete_cb"
  <2>1. c.at = "+CMGD=" /\ c.cb # "phonebook_readrg_cb"
    BY <1>3 DEF Paired, Fits
  <2> QED
    BY <1>3, <2>1 DEF Lines
<1> QED
  BY <1>1, <1>2, <1>3

\* A line comes.
LEMMA InformKeeps == ASSUME ServicesInv, ~ SilentLines, Inform PROVE ServicesInv'
<1>e. PICK e : e = Executing
  OBVIOUS
<1>1. Paired(e.cmd) /\ queue # <<>> /\ Extended(e.cmd)
  BY <1>e, RestOfSequence DEF Inform, ServicesInv, Queued, Executing
<1>2. PICK k \in Lines(e.cmd) : given < k
  BY <1>e DEF Inform
<1>3. UNCHANGED <<queue, ended, told>> /\ given' = given + 1 /\ given \in Nat
  BY DEF Inform, engine, client, ServicesInv, Kept
<1>4. e.cmd.cb # "NULL"
  BY <1>1, <1>2, <1>3, FewLines
<1>5. Kept'
  <2>1. PICK x : ml' = <<x>> /\ x.from = e.serial
    <3>1. PICK full : ml' = <<Line(TRUE, full, given + 1, "line", e.serial)>>
      BY <1>e DEF Inform
    <3>2. PICK x : x = Line(TRUE, full, given + 1, "line", e.serial)
      OBVIOUS
    <3> QED
      BY <3>1, <3>2 DEF Line
  <2>2. given' \in Nat /\ given' > 0
    BY <1>3
  <2> QED
    BY <1>e, <1>1, <1>3, <1>4, <2>1, <2>2 DEF Kept, Executing, Extended
<1>6. RepliesOwn' /\ OutTrue'
  <2>1. CASE ml = <<>>
    BY <1>3, <2>1 DEF Inform, NoAnswer, ServicesInv, RepliesOwn, OwnLine, OutTrue, Done
  <2>2. CASE ml # <<>>
    <3>1. PICK x : ml = <<x>> /\ x.from = e.serial /\ given > 0
      BY <1>e, <2>2 DEF ServicesInv, Kept
    <3>2. Answered(e, x, Pending, <<>>)
      BY <1>e, <1>4, <2>2, <3>1 DEF Inform
    <3>3. Pending \in Rets /\ Pending # 0 /\ SaysEvent(<<>>)
      BY DEF Pending, Rets, SaysEvent
    <3>4. ~ Truthful(e.cmd, x, Pending)
      <4>1. e.cmd.cb \in {"sms_send_cb", "sms_write_cb"} => given < 1
        BY <1>1, <1>2, FewLines
      <4> QED
        BY <1>3, <3>1, <3>3, <4>1 DEF Truthful
    <3> QED
      BY <1>3, <3>1, <3>2, <3>3, <3>4, AnsweredKeeps DEF ServicesInv
  <2> QED
    BY <2>1, <2>2
<1> QED
  BY <1>3, <1>5, <1>6 DEF ServicesInv, Queued, SuccessIsTrue, Done

\* The result codes.
LEMMA ReturnedRets ==
  ASSUME NEW res \in Results
  PROVE  /\ Returned(res, Pending) \in Rets
         /\ Returned(res, Pending) = 0 => res = "OK"
         /\ Returned(res, Pending) = Pending => res = "BUSY"
<1>1. res \in {"OK", "ERROR", "CME11", "CME16", "CMS", "BUSY"}
  BY ServicesAssumption
<1>2. /\ Returned("OK", Pending) = 0 /\ Returned("ERROR", Pending) = 4
      /\ Returned("CME11", Pending) = 11 /\ Returned("CME16", Pending) = 16
      /\ Returned("CMS", Pending) = 321 /\ Returned("BUSY", Pending) = Pending
  BY DEF Returned, ResultCode
<1>3. Pending = -255
  BY DEF Pending
<1> QED
  BY <1>1, <1>2, <1>3 DEF Rets

\* The final result comes.
LEMMA FinishKeeps ==
  ASSUME ServicesInv, NEW res \in Results, Finish(res) PROVE ServicesInv'
<1> DEFINE ret == Returned(res, Pending)
<1>e. PICK e : e = Executing
  OBVIOUS
<1>r. PICK r : r = IF ml = <<>> THEN Result(res, e.serial) ELSE ml[1]
  OBVIOUS
<1>1. /\ queue # <<>> /\ queue' = Tail(queue) /\ given' = 0
      /\ res = "BUSY" => e.cmd.at \in {"D", "A"}
      /\ ended' = ended \cup {[q |-> e, lines |-> given, res |-> res]}
      /\ ml' = IF e.cmd.cb = "NULL" THEN ml ELSE <<>>
      /\ IF e.cmd.cb = "NULL" THEN out' = out \o ErrorEvent(res) /\ UNCHANGED <<pb, up, replies>>
                              ELSE Answered(e, r, ret, ErrorEvent(res))
      /\ told' = told
  BY <1>e, <1>r DEF Finish, Left, client
<1>2. Paired(e.cmd)
  BY <1>e, <1>1, RestOfSequence DEF ServicesInv, Queued, Executing
<1>3. Queued'
  BY <1>1, RestOfSequence DEF ServicesInv, Queued
<1>4. Kept'
  <2>1. ml' = <<>>
    BY <1>e, <1>1 DEF ServicesInv, Kept
  <2> QED
    BY <1>1, <2>1 DEF Kept
<1>5. ended \subseteq ended'
  BY <1>1
<1>6. RepliesOwn' /\ OutTrue'
  <2>1. CASE e.cmd.cb = "NULL"
    <3>1. out' = out \o ErrorEvent(res) /\ replies' = replies
      BY <1>1, <2>1
    <3>2. /\ IsSequence(ErrorEvent(res))
          /\ \A m \in Members(ErrorEvent(res)) : ~ ToldSuccess(m)
      BY ErrorSays, EventsSayNoSuccess
    <3>3. IsSequence(out') /\ Members(out') = Members(out) \cup Members(ErrorEvent(res))
      BY <3>1, <3>2, JoinedSequence DEF ServicesInv, OutTrue
    <3>4. OutTrue'
      BY <1>5, <3>2, <3>3, DoneStays DEF ServicesInv, OutTrue
    <3> QED
      BY <3>1, <3>4 DEF ServicesInv, RepliesOwn, OwnLine
  <2>2. CASE e.cmd.cb # "NULL"
    <3>1. Answered(e, r, ret, ErrorEvent(res))
      BY <1>1, <2>2
    <3>2. r.from = e.serial
      BY <1>e, <1>r DEF ServicesInv, Kept, Result, Line
    <3>3. /\ ret \in Rets /\ SaysEvent(ErrorEvent(res))
          /\ ret = 0 => res = "OK"
          /\ ret = Pending => res = "BUSY"
      BY ReturnedRets, ErrorSays
    <3> HIDE DEF ret
    <3>4. Truthful(e.cmd, r, ret) => Done(e.cmd.id)'
      <4>1. SUFFICES ASSUME Truthful(e.cmd, r, ret) PROVE Done(e.cmd.id)'
        OBVIOUS
      <4>2. e.cmd.at \in {"+CMGS=", "+CMGW=", "+CMGD="}
        BY <1>2, <4>1 DEF Truthful, Paired, Fits
      <4>3. ret # Pending
        BY <1>1, <3>3, <4>2
      <4>4. res = "OK"
        BY <3>3, <4>1, <4>3 DEF Truthful
      <4> DEFINE d == [q |-> e, lines |-> given, res |-> res]
      <4>5. d \in ended' /\ d.q = e /\ d.res = "OK"
        BY <1>1, <4>4
      <4> QED
        BY <4>2, <4>5 DEF Done
    <3> QED
      BY <1>5, <3>1, <3>2, <3>3, <3>4, AnsweredKeeps DEF ServicesInv
  <2> QED
    BY <2>1, <2>2
<1> QED
  BY <1>1, <1>3, <1>4, <1>5, <1>6, DoneStays DEF ServicesInv, SuccessIsTrue

\* A wakeup is given up: no line was kept for it.
LEMMA GiveUpKeeps == ASSUME ServicesInv, GiveUp PROVE ServicesInv'
<1>1. UNCHANGED <<told, ml, given, out, replies, ended>>
  BY DEF GiveUp, client, modem
<1>2. CASE queue # <<>> /\ Executing.cmd.at = " "
  <2>1. queue' = Tail(queue)
    BY <1>2 DEF GiveUp
  <2>2. ml = <<>>
    BY <1>2 DEF ServicesInv, Kept, Extended
  <2>3. Queued'
    BY <1>2, <2>1, RestOfSequence DEF ServicesInv, Queued
  <2> QED
    BY <1>1, <2>2, <2>3 DEF ServicesInv, Kept, RepliesOwn, OwnLine, OutTrue, SuccessIsTrue, Done
<1>3. CASE ~ (queue # <<>> /\ Executing.cmd.at = " ")
  <2>1. queue' = queue
    BY <1>3 DEF GiveUp
  <2> QED
    BY <1>1, <2>1, KeptStays
    DEF ServicesInv, Queued, RepliesOwn, OwnLine, OutTrue, SuccessIsTrue, Done
<1> QED
  BY <1>2, <1>3

\* A line of the modem's own.
LEMMA OwnKeeps ==
  ASSUME ServicesInv, KnownLines, NEW l \in Foreign, Own(l) PROVE ServicesInv'
<1> DEFINE p == unsolicited_parse(unsolicited_init(ticalypso_unsolicit), l, cipher)
<1>1. p.ret # "ENOENT"
  BY DEF KnownLines
<1>2. ParsedWell(p)
  BY ParserSays DEF unsolicited_parse
<1>3. /\ out' = out \o p.events /\ Submitting(Simple(p.cmds))
      /\ UNCHANGED <<ml, replies, told, given, ended>>
  BY <1>1 DEF Own, client
<1> HIDE DEF p
<1>4. Queued' /\ (queue # <<>> => queue' # <<>> /\ Head(queue') = Head(queue))
  BY <1>2, <1>3, FewPaired, SubmittingKeeps DEF ServicesInv
<1>5. Kept'
  BY <1>3, <1>4, KeptStays DEF ServicesInv
<1>6. OutTrue'
  <2>1. IsSequence(p.events) /\ \A m \in Members(p.events) : ~ ToldSuccess(m)
    BY <1>2, EventsSayNoSuccess DEF ParsedWell
  <2>2. IsSequence(out') /\ Members(out') = Members(out) \cup Members(p.events)
    BY <1>3, <2>1, JoinedSequence DEF ServicesInv, OutTrue
  <2> QED
    BY <1>3, <2>1, <2>2, DoneStays DEF ServicesInv, OutTrue
<1> QED
  BY <1>3, <1>4, <1>5, <1>6 DEF ServicesInv, RepliesOwn, OwnLine, SuccessIsTrue, Done

\* The client gets a message.
LEMMA ReceiveKeeps ==
  ASSUME ServicesInv, NEW fits, Receive(fits) PROVE ServicesInv'
<1>1. /\ out # <<>> /\ out' = Tail(out)
      /\ UNCHANGED <<queue, ml, given, replies, ended>>
      /\ told' = IF ToldSuccess(Head(out)) THEN told \cup {Head(out).id} ELSE told
  BY DEF Receive, engine, modem, ToldSuccess
<1>2. OutTrue' /\ Head(out) \in Members(out)
  BY <1>1, RestOfSequence DEF ServicesInv, OutTrue, Done
<1>3. SuccessIsTrue'
  BY <1>1, <1>2 DEF ServicesInv, OutTrue, SuccessIsTrue, Done
<1> QED
  BY <1>1, <1>2, <1>3
  DEF ServicesInv, Queued, Kept, RepliesOwn, OwnLine, Executing, Extended

\* At the start nothing is queued, kept, on its way or told.
LEMMA ServicesInit == ASSUME Init PROVE ServicesInv
<1>1. Queued /\ OutTrue /\ IsSequence(replies) /\ Members(replies) = {}
  BY SmallSequence DEF Init, Queued, OutTrue
<1>2. Kept /\ SuccessIsTrue
  BY DEF Init, Kept, SuccessIsTrue
<1>3. OwnLine
  BY DEF Init, OwnLine
<1> QED
  BY <1>1, <1>2, <1>3 DEF ServicesInv, RepliesOwn

\* Every step keeps the invariant.
LEMMA ServicesStep ==
  ASSUME ~ SilentLines, KnownLines, ServicesInv, [Next]_vars PROVE ServicesInv'
<1>1. ASSUME UNCHANGED vars PROVE ServicesInv'
  BY <1>1 DEF vars, client, engine, modem, ServicesInv, Queued, Kept, RepliesOwn, OwnLine, OutTrue,
              SuccessIsTrue, Done, Executing, Extended
<1> QED
  BY <1>1, TypeKeeps, TakeKeeps, InformKeeps, FinishKeeps, GiveUpKeeps, OwnKeeps, ReceiveKeeps
  DEF Next

\* So it always holds.
LEMMA ServicesInvHolds == ASSUME ~ SilentLines, KnownLines PROVE Spec => []ServicesInv
BY ServicesInit, ServicesStep, PTL DEF Spec

\* A reply is made of a line, or a result, that came for the command it answers
\* (ml_parse, atcmd.c:282-285 and 368-384), while a parser is found for every
\* line of the modem's own, and while the modem does not report its memories
\* (+CPMS:) to a command without callback, which would leave the line in mlbuf.
THEOREM OwnLineHolds == ASSUME ~ SilentLines, KnownLines PROVE Spec => []OwnLine
<1>1. ServicesInv => OwnLine
  BY DEF ServicesInv, RepliesOwn
<1> QED
  BY <1>1, ServicesInvHolds, PTL

\* Under the same conditions the tool reports a message as sent, stored or
\* deleted only when the modem has done it, a cancelled AT+CMGW excepted
\* (sms_cb.c, sms_msghandler of shell.c).
THEOREM SuccessIsTrueHolds == ASSUME ~ SilentLines, KnownLines PROVE Spec => []SuccessIsTrue
<1>1. ServicesInv => SuccessIsTrue
  BY DEF ServicesInv
<1> QED
  BY <1>1, ServicesInvHolds, PTL
-----------------------------------------------------------------------------
(* How often a command is answered.                                        *)

Single(q) == \E m : q = <<m>>

\* The callbacks that are called once, because their command has one line.
OneLiners ==
  {"sms_read_cb", "sms_send_cb", "sms_write_cb", "get_imsi_cb", "phonebook_list_storage_cb",
   "network_oper_cb", "network_opers_cb", "network_pref_num_cb"}

\* A callback that is quiet says nothing; any other makes one reply of a line of
\* its own; of a success without a line those make one that pass on what comes.
\* In a list the reply is the last one if the result is there.
Counts(q, c, r, ret) ==
  /\ q = <<>> \/ Single(q)
  /\ c.cb \in Quiet => q = <<>>
  /\ r.own /\ r.full /\ c.cb \notin Quiet /\ ~ (c.cb = "network_vmail_cb" /\ c.at = "+CSVM=") =>
       /\ ret = 0 => Single(q)
       /\ ret = Pending /\ c.cb \notin OneLiners => Single(q)
  /\ ret = 0 /\ ~ r.own =>
       /\ c.cb \in Passing => Single(q)
       /\ c.cb \notin Passing \cup OneLiners => q = <<>>
  /\ c.cb \in Listing => \A m \in Members(q) : m.last <=> ret = 0

\* The ways to answer.
LEMMA WaysCount ==
  ASSUME NEW p, NEW o
  PROVE  /\ o \in Nothing(p) \cup Killed(p) => o.out = <<>>
         /\ o \in Killed(p) => ~ o.alive
         /\ \A type, sub, id, n, last, text :
              o \in Send(Reply(type, sub, id, n, last, text), p) =>
                Single(o.out) /\ \A m \in Members(o.out) : m.last = last
<1>1. o \in Nothing(p) \cup Killed(p) => o.out = <<>>
  BY DEF Nothing, Killed, Outcome
<1>2. o \in Killed(p) => ~ o.alive
  BY DEF Killed, Outcome
<1>3. ASSUME NEW type, NEW sub, NEW id, NEW n, NEW last, NEW text,
             o \in Send(Reply(type, sub, id, n, last, text), p)
      PROVE  Single(o.out) /\ \A m \in Members(o.out) : m.last = last
  <2>1. PICK m : m = Reply(type, sub, id, n, last, text)
    OBVIOUS
  <2>2. o.out = <<m>> /\ m.last = last
    BY <1>3, <2>1 DEF Send, Outcome, Reply
  <2> QED
    BY <2>2, SmallSequence DEF Single
<1> QED
  BY <1>1, <1>2, <1>3

\* Every callback that leaves the daemon alive answers as often as Counts says.
LEMMA CallbackCounts ==
  ASSUME NEW c, c.cb \in Callbacks, NEW r, NEW ret, ret \in Rets,
         NEW p, NEW o \in Callback(c, r, ret, p), o.alive
  PROVE  Counts(o.out, c, r, ret)
<1> DEFINE good == Counts(o.out, c, r, ret)
<1>0. Pending # 0
  BY DEF Pending
<1>n. o \in Nothing(p) => o.out = <<>>
  BY WaysCount
<1>k. o \notin Killed(p)
  BY WaysCount
<1>s. \A type, sub, id, n, last, text, q :
        o \in Send(Reply(type, sub, id, n, last, text), q) => Single(o.out)
  BY WaysCount
<1>l. \A type, sub, id, n, last, text, q :
        o \in Send(Reply(type, sub, id, n, last, text), q) => \A m \in Members(o.out) : m.last = last
  BY WaysCount
<1>m. Members(<<>>) = {}
  BY SmallSequence
<1>p. ASSUME NEW type, NEW sub, NEW id, NEW last, o \in Parsed(type, sub, id, r, last, p)
      PROVE  /\ IF r.own /\ r.full THEN Single(o.out) ELSE o.out = <<>>
             /\ \A m \in Members(o.out) : m.last = last
  <2>1. CASE r.own /\ r.full
    <3>1. o \in Send(Reply(type, sub, id, r.n, last, "parsed"), p)
      BY <1>p, <2>1 DEF Parsed
    <3>2. Single(o.out) /\ \A m \in Members(o.out) : m.last = last
      BY <3>1, <1>s, <1>l
    <3> QED
      BY <2>1, <3>2
  <2>2. CASE ~ (r.own /\ r.full)
    BY <1>p, <1>n, <1>m, <2>2 DEF Parsed
  <2> QED
    BY <2>1, <2>2
<1>1. CASE c.cb \in Quiet
  <2>1. o \in Nothing(p)
    BY <1>1 DEF Quiet, Callback, null_cmd_cb, pin_cmd_cb
  <2> QED
    BY <1>n, <1>m, <1>1, <2>1 DEF Counts, Quiet, Passing
<1>2. CASE c.cb \in Listing
  <2>1. \E type, sub : o \in Entry(type, sub, c, r, ret, p)
    BY <1>2 DEF Listing, Callback, network_pref_opers_cb, network_ownnumbers_cb, sms_list_cb
  <2>2. PICK type, sub : o \in Entry(type, sub, c, r, ret, p)
    BY <2>1
  <2>3. c.cb \notin Quiet \cup Passing \cup OneLiners
    BY <1>2 DEF Listing, Quiet, Passing, OneLiners
  <2>4. CASE ret \in {0, Pending}
    <3>1. o \in Parsed(type, sub, c.id, r, ret = 0, p)
      BY <2>2, <2>4 DEF Entry
    <3>2. /\ IF r.own /\ r.full THEN Single(o.out) ELSE o.out = <<>>
          /\ \A m \in Members(o.out) : m.last = (ret = 0)
      BY <1>p, <3>1
    <3> QED
      BY <2>3, <3>2 DEF Counts
  <2>5. CASE ret \notin {0, Pending}
    <3>1. o \in Nothing(p)
      BY <2>2, <2>5 DEF Entry
    <3> QED
      BY <1>n, <1>m, <2>3, <2>5, <3>1 DEF Counts
  <2> QED
    BY <2>4, <2>5
<1>3. CASE c.cb = "network_vmail_cb"
  <2>1. o \in network_vmail_cb(c, r, ret, p)
    BY <1>3 DEF Callback
  <2>2. c.cb \notin Quiet \cup Passing \cup OneLiners \cup Listing
    BY <1>3 DEF Quiet, Passing, OneLiners, Listing
  <2>3. CASE c.at = "+CSVM="
    <3>1. o \in Nothing(p)
      BY <2>1, <2>3 DEF network_vmail_cb
    <3> QED
      BY <1>3, <1>n, <2>2, <2>3, <3>1 DEF Counts
  <2>4. CASE c.at # "+CSVM="
    <3>1. o \in Parsed("NETWORK", "VMAIL_GET", c.id, r, TRUE, p)
      BY <1>k, <2>1, <2>4 DEF network_vmail_cb
    <3> QED
      BY <1>p, <2>2, <3>1 DEF Counts
  <2> QED
    BY <2>3, <2>4
<1>4. CASE c.cb \in {"network_sigq_cb", "phonebook_get_support_cb", "usock_cpms_cb", "usock_get_smsc_cb"}
  <2>1. \/ o \in network_sigq_cb(c, r, ret, p) \/ o \in phonebook_get_support_cb(c, r, ret, p)
        \/ o \in usock_cpms_cb(c, r, ret, p) \/ o \in usock_get_smsc_cb(c, r, ret, p)
    BY <1>4 DEF Callback
  <2>2. IF r.own /\ r.full THEN Single(o.out) ELSE o.out = <<>>
    BY <1>p, <2>1 DEF network_sigq_cb, phonebook_get_support_cb, usock_cpms_cb, usock_get_smsc_cb
  <2>3. c.cb \notin Quiet \cup Passing \cup OneLiners \cup Listing
    BY <1>4 DEF Quiet, Passing, OneLiners, Listing
  <2> QED
    BY <2>2, <2>3 DEF Counts
<1>5. CASE c.cb \in {"phonebook_find_cb", "phonebook_readrg_cb"}
  <2>1. \E sub, list : o \in RecordLine(sub, list, r, p)
    BY <1>5 DEF Callback, phonebook_find_cb, phonebook_readrg_cb
  <2>2. PICK sub, list : o \in RecordLine(sub, list, r, p)
    BY <2>1
  <2>3. r.own /\ r.full /\ Single(o.out)
    BY <1>k, <1>s, <2>2 DEF RecordLine
  <2>4. c.cb \notin Quiet \cup Passing \cup OneLiners \cup Listing
    BY <1>5 DEF Quiet, Passing, OneLiners, Listing
  <2> QED
    BY <2>3, <2>4 DEF Counts
<1>6. CASE c.cb \in Passing
  <2>1. \/ o \in usock_cmd_cb(c, r, ret, p) \/ o \in phonebook_write_cb(c, r, ret, p)
        \/ o \in phonebook_delete_cb(c, r, ret, p) \/ o \in phonebook_read_cb(c, r, ret, p)
        \/ o \in sms_delete_cb(c, r, ret, p)
    BY <1>6 DEF Passing, Callback
  <2>2. o \notin phonebook_read_cb(c, r, ret, p) => Single(o.out)
    BY <1>s, <2>1 DEF usock_cmd_cb, phonebook_write_cb, phonebook_delete_cb, sms_delete_cb, Copied
  <2>3. o \in phonebook_read_cb(c, r, ret, p) => Single(o.out)
    <3>1. ASSUME o \in phonebook_read_cb(c, r, ret, p) PROVE Single(o.out)
      <4>1. CASE ~ r.own
        BY <1>s, <3>1, <4>1 DEF phonebook_read_cb
      <4>2. CASE r.own /\ r.full
        BY <1>p, <3>1, <4>2 DEF phonebook_read_cb
      <4>3. CASE r.own /\ ~ r.full
        BY <1>k, <3>1, <4>3 DEF phonebook_read_cb
      <4> QED
        BY <4>1, <4>2, <4>3
    <3> QED
      BY <3>1
  <2>4. c.cb \notin Quiet \cup OneLiners \cup Listing
    BY <1>6 DEF Quiet, Passing, OneLiners, Listing
  <2> QED
    BY <1>6, <2>2, <2>3, <2>4 DEF Counts
<1>7. CASE c.cb \in OneLiners
  <2>1. c.cb \notin Quiet \cup Passing \cup Listing
    BY <1>7 DEF Quiet, Passing, OneLiners, Listing
  <2>2. (o.out = <<>> \/ Single(o.out)) /\ (r.own /\ r.full /\ ret = 0 => Single(o.out))
    <3>1. CASE c.cb \in {"sms_read_cb", "network_pref_num_cb"}
      <4>1. o \in sms_read_cb(c, r, ret, p) \/ o \in network_pref_num_cb(c, r, ret, p)
        BY <3>1 DEF Callback
      <4> QED
        BY <1>n, <1>p, <4>1 DEF sms_read_cb, network_pref_num_cb
    <3>2. CASE c.cb \in {"sms_send_cb", "sms_write_cb"}
      <4>1. o \in sms_send_cb(c, r, ret, p) \/ o \in sms_write_cb(c, r, ret, p)
        BY <3>2 DEF Callback
      <4> QED
        BY <1>s, <1>p, <4>1 DEF sms_send_cb, sms_write_cb
    <3>3. CASE c.cb \in {"get_imsi_cb", "phonebook_list_storage_cb", "network_opers_cb"}
      <4>1. \/ o \in get_imsi_cb(c, r, ret, p) \/ o \in phonebook_list_storage_cb(c, r, ret, p)
            \/ o \in network_opers_cb(c, r, ret, p)
        BY <3>3 DEF Callback
      <4> QED
        BY <1>s, <4>1 DEF get_imsi_cb, phonebook_list_storage_cb, network_opers_cb, Copied
    <3>4. CASE c.cb = "network_oper_cb"
      <4>1. o \in network_oper_cb(c, r, ret, p)
        BY <3>4 DEF Callback
      <4> QED
        BY <1>s, <1>p, <4>1 DEF network_oper_cb
    <3> QED
      BY <1>7, <3>1, <3>2, <3>3, <3>4 DEF OneLiners
  <2> QED
    BY <1>7, <2>1, <2>2 DEF Counts
<1> QED
  <2>1. c.cb \in Quiet \cup Passing \cup Listing \cup OneLiners
          \cup {"network_vmail_cb", "network_sigq_cb", "phonebook_find_cb", "phonebook_readrg_cb",
                "phonebook_get_support_cb", "usock_cpms_cb", "usock_get_smsc_cb"}
    BY DEF Callbacks, Listing, OneLiners
  <2> QED
    BY <1>1, <1>2, <1>3, <1>4, <1>5, <1>6, <1>7, <2>1
-----------------------------------------------------------------------------
(* The replies of one command.                                             *)

\* There are k of them; none is the last of a list; or the last one is.
Answers(n, k) == IsFiniteSet(RepliesOf(n)) /\ Cardinality(RepliesOf(n)) = k
Unended(n) == \A i \in RepliesOf(n) : ~ replies[i].last
Ending(n) ==
  \A i \in RepliesOf(n) : replies[i].last <=> \A j \in RepliesOf(n) : j <= i

\* There is none.
Unasked(n) == \A x \in Members(replies) : x.by # n

\* One is made for command n, marked as the last or not.
Replied(n, last) == \E x : replies' = replies \o <<x>> /\ x.by = n /\ x.last = last

\* None is made, or one.
Replying(n) == replies' = replies \/ \E last : Replied(n, last)

\* A command that got no reply yet.
LEMMA UnaskedAnswers ==
  ASSUME IsSequence(replies), NEW n, Unasked(n)
  PROVE  Answers(n, 0) /\ Unended(n)
<1>1. RepliesOf(n) = {}
  BY DEF Unasked, RepliesOf, Members, IsSequence
<1> QED
  BY <1>1, FS_EmptySet DEF Answers, Unended

\* A reply to one command changes nothing for the others.
LEMMA OthersReplies ==
  ASSUME IsSequence(replies), NEW m, NEW n, m # n \/ replies' = replies, Replying(m)
  PROVE  /\ \A k : Answers(n, k) => Answers(n, k)'
         /\ Unended(n) => Unended(n)'
         /\ Ending(n) => Ending(n)'
         /\ Unasked(n) => Unasked(n)'
<1>1. /\ RepliesOf(n)' = RepliesOf(n)
      /\ \A i \in RepliesOf(n) : replies'[i] = replies[i]
      /\ Unasked(n) => Unasked(n)'
  <2>1. CASE replies' = replies
    BY <2>1 DEF RepliesOf, Unasked
  <2>2. ASSUME NEW x, replies' = replies \o <<x>>, x.by # n
        PROVE  <1>1!1 /\ <1>1!2 /\ <1>1!3
    <3>1. PICK S : replies \in Seq(S)
      BY DEF IsSequence
    <3>z. PICK z : z = Len(replies) + 1
      OBVIOUS
    <3>2. /\ DOMAIN replies' = DOMAIN replies \cup {z}
          /\ \A i \in DOMAIN replies : replies'[i] = replies[i]
          /\ replies'[z] = x
      BY <2>2, <3>1, <3>z
    <3>3. Members(replies') = Members(replies) \cup {x}
      BY <2>2, JoinedSequence, SmallSequence
    <3>4. Unasked(n) => Unasked(n)'
      BY <2>2, <3>3 DEF Unasked
    <3>5. RepliesOf(n) \subseteq DOMAIN replies /\ RepliesOf(n)' = RepliesOf(n)
      BY <2>2, <3>2 DEF RepliesOf
    <3> QED
      BY <3>2, <3>4, <3>5
  <2> QED
    BY <2>1, <2>2 DEF Replying, Replied
<1> QED
  BY <1>1 DEF Answers, Unended, Ending

\* A reply to a command is one more of it.
LEMMA OneMoreReply ==
  ASSUME IsSequence(replies), NEW n, NEW last, Replied(n, last)
  PROVE  /\ \A k \in Nat : Answers(n, k) => Answers(n, k + 1)'
         /\ Unended(n) /\ ~ last => Unended(n)'
         /\ Unended(n) /\ last => Ending(n)'
<1>1. PICK x : replies' = replies \o <<x>> /\ x.by = n /\ x.last = last
  BY DEF Replied
<1>2. PICK S : replies \in Seq(S)
  BY DEF IsSequence
<1>3. PICK z : z = Len(replies) + 1
  OBVIOUS
<1>4. /\ DOMAIN replies = 1 .. Len(replies) /\ Len(replies) \in Nat
      /\ DOMAIN replies' = 1 .. z
      /\ \A i \in 1 .. Len(replies) : replies'[i] = replies[i]
      /\ replies'[z] = x
  BY <1>1, <1>2, <1>3
<1>5. /\ RepliesOf(n)' = RepliesOf(n) \cup {z}
      /\ z \notin RepliesOf(n)
      /\ \A i \in RepliesOf(n) : i \in Int /\ i <= z /\ i # z /\ replies'[i] = replies[i]
  BY <1>1, <1>3, <1>4 DEF RepliesOf
<1>6. ASSUME NEW k \in Nat, Answers(n, k) PROVE Answers(n, k + 1)'
  BY <1>5, <1>6, FS_AddElement DEF Answers
<1>7. Unended(n) /\ ~ last => Unended(n)'
  BY <1>1, <1>4, <1>5 DEF Unended
<1>8. ASSUME Unended(n), last PROVE Ending(n)'
  <2>1. \A i \in RepliesOf(n) : ~ replies'[i].last /\ ~ (z <= i)
    BY <1>3, <1>4, <1>5, <1>8 DEF Unended
  <2>2. replies'[z].last /\ z <= z /\ \A j \in RepliesOf(n) : j <= z
    <3>1. replies'[z] = x /\ x.last = last
      BY <1>1, <1>4
    <3>2. x.last
      BY <1>8, <3>1
    <3> QED
      BY <1>3, <1>4, <1>5, <3>1, <3>2
  <2> QED
    BY <1>5, <2>1, <2>2 DEF Ending
<1> QED
  BY <1>6, <1>7, <1>8

\* The reply that a callback makes, if it makes one.
LEMMA AnsweredCounts ==
  ASSUME NEW q, q.cmd.cb \in Callbacks, NEW r, NEW ret \in Rets, NEW events,
         IsSequence(replies), Answered(q, r, ret, events)
  PROVE  /\ Replying(q.serial)
         /\ q.cmd.cb \in Listing => up'
         /\ up' =>
              \/ /\ replies' = replies
                 /\ Counts(<<>>, q.cmd, r, ret)
              \/ \E m : Counts(<<m>>, q.cmd, r, ret) /\ Replied(q.serial, m.last)
<1>1. PICK o \in Callback(q.cmd, r, ret, pb) :
        /\ up' = o.alive
        /\ replies' = replies \o
             [i \in DOMAIN o.out |-> [by |-> q.serial, from |-> r.from, last |-> o.out[i].last]]
  BY DEF Answered
<1>2. ASSUME q.cmd.cb \in Listing PROVE up'
  <2>1. \E type, sub : o \in Entry(type, sub, q.cmd, r, ret, pb)
    BY <1>2 DEF Listing, Callback, network_pref_opers_cb, network_ownnumbers_cb, sms_list_cb
  <2>2. o.alive
    BY <2>1 DEF Entry, Parsed, Send, Nothing, Outcome
  <2> QED
    BY <1>1, <2>2
<1>3. o.out = <<>> => replies' = replies
  <2>1. SUFFICES ASSUME o.out = <<>> PROVE replies' = replies
    OBVIOUS
  <2>2. replies' = replies \o <<>>
    BY <1>1, <2>1
  <2> QED
    BY <2>2 DEF IsSequence
<1>4. ASSUME NEW m, o.out = <<m>> PROVE Replied(q.serial, m.last)
  <2>1. PICK x : x = [by |-> q.serial, from |-> r.from, last |-> m.last]
    OBVIOUS
  <2>2. /\ DOMAIN o.out = 1 .. 1
        /\ \A i \in 1 .. 1 : o.out[i] = m
    BY <1>4
  <2>3. [i \in DOMAIN o.out |-> [by |-> q.serial, from |-> r.from, last |-> o.out[i].last]] = <<x>>
    BY <2>1, <2>2
  <2>4. x.by = q.serial /\ x.last = m.last
    BY <2>1
  <2> QED
    BY <1>1, <2>3, <2>4 DEF Replied
<1>5. o.out = <<>> \/ \E m : o.out = <<m>>
  <2>1. Says(o.out, q.cmd, r, ret)
    BY CallbackSays
  <2> QED
    BY <2>1 DEF Says
<1>6. up' => Counts(o.out, q.cmd, r, ret)
  BY <1>1, CallbackCounts
<1> QED
  BY <1>2, <1>3, <1>4, <1>5, <1>6 DEF Replying

\* A number is given once; the wakeups have no number of their own.
OnceEach(q) == \A i, j \in 1 .. Len(q) : i # j /\ q[i].serial = q[j].serial => q[i].serial = 0

\* ... and so it is in a queue put together of two that have none in common,
LEMMA OnceJoined ==
  ASSUME NEW p, NEW q, IsSequence(p), IsSequence(q), OnceEach(p), OnceEach(q),
         \A x \in Members(p), y \in Members(q) : x.serial = y.serial => x.serial = 0
  PROVE  OnceEach(p \o q)
<1>1. PICK S, T : p \in Seq(S) /\ q \in Seq(T)
  BY DEF IsSequence
<1>2. /\ Len(p \o q) = Len(p) + Len(q) /\ Len(p) \in Nat /\ Len(q) \in Nat
      /\ \A i \in 1 .. Len(p) : (p \o q)[i] = p[i]
      /\ \A i \in Len(p) + 1 .. Len(p) + Len(q) : (p \o q)[i] = q[i - Len(p)]
  <2>1. p \in Seq(S \cup T) /\ q \in Seq(S \cup T)
    BY <1>1
  <2> QED
    BY <2>1
<1>3. SUFFICES ASSUME NEW i \in 1 .. Len(p) + Len(q), NEW j \in 1 .. Len(p) + Len(q), i # j,
                      (p \o q)[i].serial = (p \o q)[j].serial
               PROVE  (p \o q)[i].serial = 0
  BY <1>2 DEF OnceEach
<1>4. CASE i \in 1 .. Len(p) /\ j \in 1 .. Len(p)
  BY <1>2, <1>3, <1>4 DEF OnceEach
<1>5. CASE i \in 1 .. Len(p) /\ j \notin 1 .. Len(p)
  <2>1. j - Len(p) \in 1 .. Len(q) /\ (p \o q)[j] = q[j - Len(p)] /\ (p \o q)[i] = p[i]
    BY <1>2, <1>5
  <2>2. p[i] \in Members(p) /\ q[j - Len(p)] \in Members(q)
    BY <1>5, <2>1 DEF Members
  <2> QED
    BY <1>3, <2>1, <2>2
<1>6. CASE i \notin 1 .. Len(p) /\ j \in 1 .. Len(p)
  <2>1. i - Len(p) \in 1 .. Len(q) /\ (p \o q)[i] = q[i - Len(p)] /\ (p \o q)[j] = p[j]
    BY <1>2, <1>6
  <2>2. p[j] \in Members(p) /\ q[i - Len(p)] \in Members(q)
    BY <1>6, <2>1 DEF Members
  <2> QED
    BY <1>3, <2>1, <2>2
<1>7. CASE i \notin 1 .. Len(p) /\ j \notin 1 .. Len(p)
  <2>1. /\ i - Len(p) \in 1 .. Len(q) /\ (p \o q)[i] = q[i - Len(p)]
        /\ j - Len(p) \in 1 .. Len(q) /\ (p \o q)[j] = q[j - Len(p)]
        /\ i - Len(p) # j - Len(p)
    BY <1>2, <1>3, <1>7
  <2> QED
    BY <1>3, <2>1 DEF OnceEach
<1> QED
  BY <1>4, <1>5, <1>6, <1>7

\* ... in one without its first command, whose number does not come again,
LEMMA OnceRest ==
  ASSUME NEW q, IsSequence(q), q # <<>>, OnceEach(q)
  PROVE  /\ OnceEach(Tail(q))
         /\ \A x \in Members(Tail(q)) : x.serial = Head(q).serial => x.serial = 0
<1>1. PICK S : q \in Seq(S)
  BY DEF IsSequence
<1>2. /\ Len(q) \in Nat /\ Len(Tail(q)) = Len(q) - 1 /\ Head(q) = q[1] /\ 1 \in 1 .. Len(q)
      /\ \A i \in 1 .. Len(Tail(q)) : /\ Tail(q)[i] = q[i + 1]
                                      /\ i + 1 \in 1 .. Len(q) /\ i + 1 # 1
  BY <1>1
<1>3. \A i, j \in 1 .. Len(Tail(q)) : i # j => i + 1 # j + 1
  BY <1>2
<1> QED
  BY <1>2, <1>3 DEF OnceEach, Members

\* ... and in one of a single command.
LEMMA OnceSmall == OnceEach(<<>>) /\ \A x : OnceEach(<<x>>)
BY DEF OnceEach

\* Commands of which the number is known.
Short(cmds) == \E k \in Nat : DOMAIN cmds = 1 .. k /\ Len(cmds) = k

\* What is appended to the queue has new numbers, each once.
LEMMA BatchNumbers ==
  ASSUME NEW cmds, Short(cmds), serial \in Nat \ {0}
  PROVE  /\ OnceEach(Batch(cmds)) /\ Len(cmds) \in Nat
         /\ \A x \in Members(Batch(cmds)) :
              \/ x.serial = 0
              \/ x.serial \in Nat /\ serial <= x.serial /\ x.serial < serial + Len(cmds)
<1> DEFINE w == IF cmds = <<>> \/ waking THEN <<>> ELSE <<Numbered(Wakeup, 0)>>
           f == [i \in DOMAIN cmds |-> Numbered(cmds[i], serial + i - 1)]
<1>n. \A c, n : Numbered(c, n).serial = n
  BY DEF Numbered
<1>1. PICK k \in Nat : DOMAIN cmds = 1 .. k /\ Len(cmds) = k
  BY DEF Short
<1>2. IsSequence(w) /\ OnceEach(w) /\ \A x \in Members(w) : x.serial = 0
  BY <1>n, SmallSequence, OnceSmall
<1>3. /\ f = [i \in 1 .. k |-> f[i]]
      /\ \A i \in 1 .. k : f[i].serial = serial + i - 1
  BY <1>n, <1>1
<1> HIDE DEF w, f
<1>4. /\ IsSequence(f) /\ Len(f) = k
      /\ \A x \in Members(f) : \E i \in 1 .. k : x = f[i]
  BY <1>3, MadeSequence
<1>5. \A x \in Members(f) : x.serial \in Nat \ {0} /\ serial <= x.serial /\ x.serial < serial + k
  BY <1>3, <1>4
<1>6. OnceEach(f)
  BY <1>3, <1>4 DEF OnceEach
<1>7. Batch(cmds) = w \o f
  BY DEF Batch, w, f
<1>8. OnceEach(w \o f)
  BY <1>2, <1>4, <1>5, <1>6, OnceJoined
<1>9. Members(w \o f) = Members(w) \cup Members(f)
  BY <1>2, <1>4, JoinedSequence
<1> QED
  BY <1>1, <1>2, <1>5, <1>7, <1>8, <1>9
-----------------------------------------------------------------------------
(* What holds of the numbers, and of the replies counted so far.           *)

\* The queued commands have numbers of their own,
QueueNumbers ==
  /\ serial \in Nat \ {0} /\ OnceEach(queue)
  /\ \A x \in Members(queue) : x.serial \in Nat /\ x.serial < serial

\* ... those that ended had, too,
EndNumbers ==
  \A e \in ended :
    /\ e.q.serial \in Nat /\ e.q.serial < serial
    /\ e.q.serial # 0 => \A x \in Members(queue) : x.serial # e.q.serial

\* ... and nothing was replied to a command that is still to come,
ReplyNumbers == \A x \in Members(replies) : x.by \in Nat /\ x.by < serial

\* ... or that waits.
Waiting == queue # <<>> => \A x \in Members(Tail(queue)) : x.serial # 0 => Unasked(x.serial)

\* Once the executing command got a line, the last one is kept.
Held == (given = 0 <=> ml = <<>>) /\ (ml # <<>> => ml[1].own /\ ml[1].full)

\* The executing command was answered once for each line but the kept one.
SoFar(e) == IF e.cmd.cb \in Quiet \/ given = 0 THEN 0 ELSE given - 1
Counted ==
  up /\ queue # <<>> /\ Executing.serial # 0 =>
    /\ Answers(Executing.serial, SoFar(Executing))
    /\ Executing.cmd.cb \in Listing => Unended(Executing.serial)

\* The commands that succeeded.
AllAnswered == up => \A e \in Succeeded : Answers(e.q.serial, Promised(e))
AllEnding   == \A e \in Succeeded : e.q.cmd.cb \in Listing => Ending(e.q.serial)

Counting ==
  /\ QueueNumbers /\ EndNumbers /\ ReplyNumbers /\ Waiting /\ Held /\ Counted
  /\ AllAnswered /\ AllEnding

\* A step that none of this is about.
LEMMA SameCounting ==
  ASSUME Counting, UNCHANGED <<queue, serial, ended, replies, given, ml>>, up' => up
  PROVE  Counting'
BY DEF Counting, QueueNumbers, EndNumbers, ReplyNumbers, Waiting, Held, Counted, SoFar, AllAnswered,
       AllEnding, Answers, Unended, Ending, Unasked, RepliesOf, Succeeded, Executing

\* A command that starts to execute got no reply.
LEMMA FirstCounted ==
  ASSUME IsSequence(replies), NEW m, Replying(m), given' = 0,
         queue' # <<>> /\ Head(queue').serial # 0 =>
           /\ Unasked(Head(queue').serial)
           /\ Head(queue').serial # m \/ replies' = replies
  PROVE  Counted'
<1>1. SUFFICES ASSUME queue' # <<>>, Executing'.serial # 0
               PROVE  /\ Answers(Executing.serial, SoFar(Executing))'
                      /\ Unended(Executing.serial)'
  BY DEF Counted
<1>2. PICK n : n = Head(queue').serial
  OBVIOUS
<1>3. Answers(n, 0) /\ Unended(n)
  BY <1>1, <1>2, UnaskedAnswers DEF Executing
<1>4. Answers(n, 0)' /\ Unended(n)'
  BY <1>1, <1>2, <1>3, OthersReplies DEF Executing
<1>5. Executing.serial' = n /\ SoFar(Executing)' = 0
  BY <1>2 DEF Executing, SoFar
<1> QED
  BY <1>4, <1>5 DEF Answers, Unended, RepliesOf

\* Commands are appended.
LEMMA SubmittingCounts ==
  ASSUME ServicesInv, Counting, NEW cmds, Short(cmds), AllPaired(cmds), Submitting(cmds),
         UNCHANGED <<ended, replies, given, ml>>, up' => up
  PROVE  Counting'
<1>1. PICK b : b = Batch(cmds)
  OBVIOUS
<1>2. queue' = queue \o b /\ serial' = serial + Len(cmds)
  BY <1>1 DEF Submitting
<1>3. serial \in Nat \ {0} /\ OnceEach(queue) /\ IsSequence(queue) /\ IsSequence(replies)
  BY DEF Counting, QueueNumbers, ServicesInv, Queued, RepliesOwn
<1>4. /\ OnceEach(b) /\ IsSequence(b) /\ Len(cmds) \in Nat
      /\ \A x \in Members(b) :
           \/ x.serial = 0
           \/ x.serial \in Nat /\ serial <= x.serial /\ x.serial < serial + Len(cmds)
  BY <1>1, <1>3, BatchNumbers, BatchPaired
<1>5. IsSequence(queue') /\ Members(queue') = Members(queue) \cup Members(b)
  BY <1>2, <1>3, <1>4, JoinedSequence
<1>6. \A x \in Members(queue) : x.serial \in Nat /\ x.serial < serial
  BY DEF Counting, QueueNumbers
<1>7. QueueNumbers'
  <2>1. OnceEach(queue')
    BY <1>2, <1>3, <1>4, <1>6, OnceJoined
  <2> QED
    BY <1>2, <1>3, <1>4, <1>5, <1>6, <2>1 DEF QueueNumbers
<1>8. EndNumbers'
  <2>1. ASSUME NEW e \in ended
        PROVE  /\ e.q.serial \in Nat /\ e.q.serial < serial'
               /\ e.q.serial # 0 => \A x \in Members(queue') : x.serial # e.q.serial
    <3>1. /\ e.q.serial \in Nat /\ e.q.serial < serial
          /\ e.q.serial # 0 => \A x \in Members(queue) : x.serial # e.q.serial
      BY DEF Counting, EndNumbers
    <3> QED
      BY <1>2, <1>3, <1>4, <1>5, <3>1
  <2> QED
    BY <2>1 DEF EndNumbers
<1>9. ReplyNumbers'
  BY <1>2, <1>3, <1>4 DEF Counting, ReplyNumbers
<1>10. \A x \in Members(b) : x.serial # 0 => Unasked(x.serial)
  <2>1. \A y \in Members(replies) : y.by \in Nat /\ y.by < serial
    BY DEF Counting, ReplyNumbers
  <2> QED
    BY <1>3, <1>4, <2>1 DEF Unasked
<1>11. CASE queue = <<>>
  <2>1. queue' = b
    BY <1>2, <1>4, <1>11 DEF IsSequence
  <2>2. given' = 0
    BY <1>11 DEF ServicesInv, Kept, Counting, Held
  <2>3. queue' # <<>> => Head(b) \in Members(b) /\ Members(Tail(b)) \subseteq Members(b)
    BY <1>4, <2>1, RestOfSequence
  <2>4. Waiting'
    BY <1>10, <2>1, <2>3 DEF Waiting, Unasked
  <2>5. Replying(0)
    BY DEF Replying
  <2>6. Counted'
    BY <1>3, <1>10, <2>1, <2>2, <2>3, <2>5, FirstCounted
  <2> QED
    BY <1>7, <1>8, <1>9, <2>4, <2>6
    DEF Counting, Held, AllAnswered, AllEnding, Answers, Ending, RepliesOf, Succeeded
<1>12. CASE queue # <<>>
  <2>1. queue' # <<>> /\ Head(queue') = Head(queue) /\ Tail(queue') = Tail(queue) \o b
    <3>1. PICK S, T : queue \in Seq(S) /\ b \in Seq(T)
      BY <1>3, <1>4 DEF IsSequence
    <3>2. queue \in Seq(S \cup T) /\ b \in Seq(S \cup T)
      BY <3>1
    <3> QED
      BY <1>2, <1>12, <3>2, HeadTailConcat
  <2>2. Members(Tail(queue')) = Members(Tail(queue)) \cup Members(b)
    BY <1>3, <1>4, <1>12, <2>1, RestOfSequence, JoinedSequence
  <2>3. Waiting'
    BY <1>10, <1>12, <2>2 DEF Counting, Waiting, Unasked
  <2>4. Counted'
    BY <1>12, <2>1 DEF Counting, Counted, SoFar, Executing, Answers, Unended, RepliesOf
  <2> QED
    BY <1>7, <1>8, <1>9, <2>3, <2>4
    DEF Counting, Held, AllAnswered, AllEnding, Answers, Ending, RepliesOf, Succeeded
<1> QED
  BY <1>11, <1>12

\* The executing command ends: the next one, or the one that cancels it, comes
\* first.
LEMMA EndingCounts ==
  ASSUME ServicesInv, Counting, up, queue # <<>>, NEW e, e = Executing, Replying(e.serial),
         given' = 0, ml' = <<>>,
         \/ queue' = Tail(queue) /\ serial' = serial
         \/ \E x : /\ queue' = <<x>> \o Tail(queue)
                   /\ x.serial = serial /\ serial' = serial + 1,
         \/ ended' = ended
         \/ \E d : /\ ended' = ended \cup {d} /\ d.q = e
                   /\ d.res = "OK" /\ e.serial # 0 =>
                        /\ up' => Answers(e.serial, Promised(d))'
                        /\ e.cmd.cb \in Listing => Ending(e.serial)'
  PROVE  Counting'
<1>1. PICK n : n = e.serial
  OBVIOUS
<1>2. PICK t : t = Tail(queue)
  OBVIOUS
<1>3. /\ serial \in Nat \ {0} /\ OnceEach(queue) /\ IsSequence(queue) /\ IsSequence(replies)
      /\ Head(queue) = e
  BY DEF Counting, QueueNumbers, ServicesInv, Queued, RepliesOwn, Executing
<1>4. /\ OnceEach(t) /\ IsSequence(t) /\ Members(t) \subseteq Members(queue) /\ e \in Members(queue)
      /\ \A x \in Members(t) : x.serial = n => x.serial = 0
  BY <1>1, <1>2, <1>3, RestOfSequence, OnceRest
<1>5. \A x \in Members(queue) : x.serial \in Nat /\ x.serial < serial
  BY DEF Counting, QueueNumbers
<1>6. n \in Nat /\ n < serial
  BY <1>1, <1>4, <1>5
<1>7. \A x \in Members(t) : x.serial # 0 => Unasked(x.serial)
  BY <1>2 DEF Counting, Waiting
<1>8. /\ serial' \in Nat \ {0} /\ serial <= serial'
      /\ OnceEach(queue') /\ IsSequence(queue')
      /\ \A x \in Members(queue') :
           \/ x \in Members(t)
           \/ x.serial = serial /\ serial < serial'
      /\ queue' # <<>> =>
           /\ Members(Tail(queue')) \subseteq Members(t)
           /\ Head(queue') \in Members(t) \/ Head(queue').serial = serial
  <2>1. CASE queue' = t /\ serial' = serial
    BY <1>3, <1>4, <2>1, RestOfSequence
  <2>2. ASSUME NEW x, queue' = <<x>> \o t, x.serial = serial, serial' = serial + 1
        PROVE  <1>8
    <3>1. /\ OnceEach(<<x>>) /\ IsSequence(<<x>>) /\ Members(<<x>>) = {x} /\ <<x>> # <<>>
      BY OnceSmall, SmallSequence
    <3>2. IsSequence(queue') /\ Members(queue') = {x} \cup Members(t)
      BY <1>4, <2>2, <3>1, JoinedSequence
    <3>3. \A y \in Members(t) : y.serial # x.serial
      BY <1>3, <1>4, <1>5, <2>2
    <3>4. OnceEach(queue')
      BY <1>4, <2>2, <3>1, <3>3, OnceJoined
    <3>5. Head(queue') = x /\ Tail(queue') = t
      <4>1. PICK T : t \in Seq(T)
        BY <1>4 DEF IsSequence
      <4>2. t \in Seq(T \cup {x})
        BY <4>1
      <4> QED
        BY <2>2, <4>2
    <3>6. serial' \in Nat \ {0} /\ serial <= serial' /\ serial < serial'
      BY <1>3, <2>2
    <3>7. \A y \in Members(queue') : y \in Members(t) \/ (y.serial = serial /\ serial < serial')
      BY <2>2, <3>2, <3>6
    <3>8. Members(Tail(queue')) \subseteq Members(t) /\ Head(queue').serial = serial
      BY <2>2, <3>5
    <3> QED
      BY <3>2, <3>4, <3>6, <3>7, <3>8
  <2> QED
    BY <1>2, <2>1, <2>2
<1>9. QueueNumbers'
  BY <1>4, <1>5, <1>8, <1>3 DEF QueueNumbers
<1>10. EndNumbers'
  <2>1. ASSUME NEW d \in ended'
        PROVE  /\ d.q.serial \in Nat /\ d.q.serial < serial'
               /\ d.q.serial # 0 => \A x \in Members(queue') : x.serial # d.q.serial
    <3>1. d \in ended \/ d.q.serial = n
      BY <1>1, <2>1
    <3>2. d.q.serial \in Nat /\ d.q.serial < serial
      BY <1>6, <3>1 DEF Counting, EndNumbers
    <3>3. d.q.serial # 0 => \A x \in Members(t) : x.serial # d.q.serial
      BY <1>4, <3>1 DEF Counting, EndNumbers
    <3> QED
      BY <1>3, <1>8, <3>2, <3>3
  <2> QED
    BY <2>1 DEF EndNumbers
<1>11. ReplyNumbers'
  <2>1. ASSUME NEW y \in Members(replies') PROVE y.by \in Nat /\ y.by < serial'
    <3>1. y \in Members(replies) \/ y.by = n
      <4>1. CASE replies' = replies
        BY <2>1, <4>1
      <4>2. ASSUME NEW x, replies' = replies \o <<x>>, x.by = n PROVE y \in Members(replies) \/ y.by = n
        <5>1. Members(replies') = Members(replies) \cup {x}
          BY <1>3, <4>2, JoinedSequence, SmallSequence
        <5> QED
          BY <2>1, <4>2, <5>1
      <4> QED
        BY <1>1, <4>1, <4>2 DEF Replying, Replied
    <3>2. y.by \in Nat /\ y.by < serial
      BY <1>6, <3>1 DEF Counting, ReplyNumbers
    <3> QED
      BY <1>3, <1>8, <3>2
  <2> QED
    BY <2>1 DEF ReplyNumbers
<1>12. Waiting'
  <2>1. ASSUME NEW x \in Members(t), x.serial # 0 PROVE Unasked(x.serial)'
    <3>1. PICK s : s = x.serial
      OBVIOUS
    <3>2. s # n /\ Unasked(s)
      BY <1>4, <1>7, <2>1, <3>1
    <3>3. Unasked(s)'
      BY <1>1, <1>3, <3>2, OthersReplies
    <3> QED
      BY <3>1, <3>3 DEF Unasked
  <2> QED
    BY <1>8, <2>1 DEF Waiting, Unasked
<1>13. Counted'
  <2>1. ASSUME queue' # <<>>, Head(queue').serial # 0
        PROVE  Unasked(Head(queue').serial) /\ Head(queue').serial # n
    <3>1. CASE Head(queue') \in Members(t)
      BY <1>4, <1>7, <2>1, <3>1
    <3>2. CASE Head(queue').serial = serial
      <4>1. \A y \in Members(replies) : y.by \in Nat /\ y.by < serial
        BY DEF Counting, ReplyNumbers
      <4> QED
        BY <1>3, <1>6, <3>2, <4>1 DEF Unasked
    <3> QED
      BY <1>8, <2>1, <3>1, <3>2
  <2> QED
    BY <1>1, <1>3, <2>1, FirstCounted
<1>14. Held'
  BY DEF Held
<1>15. \A d \in ended : d.q.serial # 0 => d.q.serial # n
  BY <1>1, <1>4 DEF Counting, EndNumbers
<1>16. AllAnswered'
  <2>1. ASSUME up', NEW d \in ended', d.res = "OK", d.q.serial # 0
        PROVE  Answers(d.q.serial, Promised(d))'
    <3>1. CASE d \in ended
      <4>1. Answers(d.q.serial, Promised(d))
        BY <2>1, <3>1 DEF Counting, AllAnswered, Succeeded
      <4> QED
        BY <1>1, <1>3, <1>15, <2>1, <3>1, <4>1, OthersReplies
    <3>2. CASE d \notin ended
      BY <2>1, <3>2
    <3> QED
      BY <3>1, <3>2
  <2> QED
    BY <2>1 DEF AllAnswered, Succeeded
<1>17. AllEnding'
  <2>1. ASSUME NEW d \in ended', d.res = "OK", d.q.serial # 0, d.q.cmd.cb \in Listing
        PROVE  Ending(d.q.serial)'
    <3>1. CASE d \in ended
      <4>1. Ending(d.q.serial)
        BY <2>1, <3>1 DEF Counting, AllEnding, Succeeded
      <4> QED
        BY <1>1, <1>3, <1>15, <2>1, <3>1, <4>1, OthersReplies
    <3>2. CASE d \notin ended
      BY <2>1, <3>2
    <3> QED
      BY <3>1, <3>2
  <2> QED
    BY <2>1 DEF AllEnding, Succeeded
<1> QED
  BY <1>9, <1>10, <1>11, <1>12, <1>13, <1>14, <1>16, <1>17 DEF Counting
-----------------------------------------------------------------------------
(* The steps again.                                                        *)

\* A request has a known number of commands, and a registration.
LEMMA FewShort ==
  /\ \A r : SubmitsWell(r) => Short(r.cmds)
  /\ \A p : ParsedWell(p) => Short(Simple(p.cmds))
<1>1. Short(<<>>) /\ (\A a : Short(<<a>>)) /\ (\A a, b : Short(<<a, b>>))
  <2>1. DOMAIN <<>> = 1 .. 0 /\ Len(<<>>) = 0
    OBVIOUS
  <2>2. \A a : DOMAIN <<a>> = 1 .. 1 /\ Len(<<a>>) = 1
    OBVIOUS
  <2>3. \A a, b : DOMAIN <<a, b>> = 1 .. 2 /\ Len(<<a, b>>) = 2
    OBVIOUS
  <2> QED
    BY <2>1, <2>2, <2>3 DEF Short
<1>2. ASSUME NEW p, ParsedWell(p) PROVE Short(Simple(p.cmds))
  <2>1. CASE p.cmds = <<>>
    <3>1. Simple(p.cmds) = <<>>
      BY <2>1 DEF Simple
    <3> QED
      BY <1>1, <3>1
  <2>2. ASSUME NEW a, NEW b, p.cmds = <<a, b>> PROVE Short(Simple(p.cmds))
    <3>1. PICK f : f = Simple(p.cmds)
      OBVIOUS
    <3>2. f = [i \in 1 .. 2 |-> f[i]]
      BY <2>2, <3>1 DEF Simple
    <3>3. Len(f) = 2 /\ DOMAIN f = 1 .. 2
      BY <3>2, MadeSequence
    <3> QED
      BY <3>1, <3>3 DEF Short
  <2> QED
    BY <1>2, <2>1, <2>2 DEF ParsedWell
<1> QED
  BY <1>1, <1>2 DEF SubmitsWell

\* Typing.
LEMMA TypeCounts == ASSUME ServicesInv, Counting, Type PROVE Counting'
<1>1. UNCHANGED <<queue, serial, ended, replies, given, ml, up>>
  BY DEF Type, engine, modem
<1> QED
  BY <1>1, SameCounting

\* The client gets a message.
LEMMA ReceiveCounts == ASSUME ServicesInv, Counting, NEW fits, Receive(fits) PROVE Counting'
<1>1. UNCHANGED <<queue, serial, ended, replies, given, ml, up>>
  BY DEF Receive, engine, modem
<1> QED
  BY <1>1, SameCounting

\* A message is taken.
LEMMA TakeCounts == ASSUME ServicesInv, Counting, Take PROVE Counting'
<1> DEFINE m == Head(sent)
           r == usock_rcv_pcmd(m)
<1>1. SubmitsWell(r)
  BY RequestSubmits
<1> HIDE DEF m
<1>e. PICK e : e = Executing
  OBVIOUS
<1>s. PICK s : s = Result("OK", e.serial)
  OBVIOUS
<1>u. up
  BY DEF Take
<1>2. CASE /\ queue # <<>> /\ ml' = <<>>
           /\ Answered(e, s, Pending, <<>>)
           /\ queue' = <<Numbered(r.cmds[1], serial)>> \o Tail(queue)
           /\ serial' = serial + 1
           /\ given' = 0
           /\ ended' = ended \cup {[q |-> e, lines |-> given, res |-> "cancelled"]}
  <2>1. Replying(e.serial)
    <3>1. e.cmd.cb \in Callbacks
      BY <1>e, <1>2, RestOfSequence DEF ServicesInv, Queued, Executing, Paired, Fits
    <3> QED
      BY <1>2, <3>1, AnsweredCounts DEF ServicesInv, RepliesOwn, Rets
  <2>2. \E x : queue' = <<x>> \o Tail(queue) /\ x.serial = serial /\ serial' = serial + 1
    <3>1. PICK x : x = Numbered(r.cmds[1], serial)
      OBVIOUS
    <3>2. x.serial = serial
      BY <3>1 DEF Numbered
    <3> QED
      BY <1>2, <3>1, <3>2
  <2>3. \E d : ended' = ended \cup {d} /\ d.q = e /\ d.res # "OK"
    <3>1. PICK d : d = [q |-> e, lines |-> given, res |-> "cancelled"]
      OBVIOUS
    <3>2. d.q = e /\ d.res # "OK"
      BY <3>1
    <3> QED
      BY <1>2, <3>1, <3>2
  <2> QED
    BY <1>e, <1>u, <1>2, <2>1, <2>2, <2>3, EndingCounts
<1>3. CASE UNCHANGED <<queue, serial, ended, replies, given, ml>>
  BY <1>u, <1>3, SameCounting
<1>4. CASE Submitting(r.cmds) /\ UNCHANGED <<replies, ml, ended, given, up>>
  BY <1>1, <1>4, FewShort, FewPaired, SubmittingCounts
<1> QED
  BY <1>e, <1>s, <1>2, <1>3, <1>4 DEF Take, m, engine, NoAnswer

\* A wakeup is given up: it got no line.
LEMMA GiveUpCounts == ASSUME ServicesInv, Counting, GiveUp PROVE Counting'
<1>1. UNCHANGED <<serial, ml, given, replies, ended, up>> /\ up
  BY DEF GiveUp, modem
<1>2. CASE queue # <<>> /\ Executing.cmd.at = " "
  <2>1. queue' = Tail(queue)
    BY <1>2 DEF GiveUp
  <2>2. ml = <<>> /\ given = 0
    BY <1>2 DEF ServicesInv, Kept, Extended, Counting, Held
  <2>3. PICK e : e = Executing
    OBVIOUS
  <2>4. Replying(e.serial)
    BY <1>1 DEF Replying
  <2> QED
    BY <1>1, <1>2, <2>1, <2>2, <2>3, <2>4, EndingCounts
<1>3. CASE ~ (queue # <<>> /\ Executing.cmd.at = " ")
  <2>1. queue' = queue
    BY <1>3 DEF GiveUp
  <2> QED
    BY <1>1, <2>1, SameCounting
<1> QED
  BY <1>2, <1>3

\* A line of the modem's own.
LEMMA OwnCounts ==
  ASSUME ServicesInv, Counting, KnownLines, NEW l \in Foreign, Own(l) PROVE Counting'
<1> DEFINE p == unsolicited_parse(unsolicited_init(ticalypso_unsolicit), l, cipher)
<1>1. p.ret # "ENOENT"
  BY DEF KnownLines
<1>2. ParsedWell(p)
  BY ParserSays DEF unsolicited_parse
<1>3. /\ Submitting(Simple(p.cmds)) /\ up
      /\ UNCHANGED <<ml, replies, given, ended>>
  BY <1>1 DEF Own
<1> HIDE DEF p
<1> QED
  BY <1>2, <1>3, FewShort, FewPaired, SubmittingCounts

\* The commands whose callback is called once, and one without a line.
LEMMA OneLine ==
  ASSUME NEW c, Paired(c), ~ SilentLines
  PROVE  /\ c.cb \in OneLiners => Lines(c) = {1}
         /\ c.cb = "network_vmail_cb" /\ c.at = "+CSVM=" => Lines(c) = {0}
<1>1. CASE c.cb \in OneLiners
  <2>1. /\ c.at \in {"+CMGR=", "+CMGS=", "+CMGW=", "+CIMI", "+CPBS=?", "+COPS?", "+COPS=?", "+CPOL=?"}
        /\ c.cb # "phonebook_readrg_cb" /\ c.cb # "network_vmail_cb"
    BY <1>1 DEF OneLiners, Paired, Fits
  <2> QED
    BY <2>1 DEF Lines
<1>2. CASE c.cb = "network_vmail_cb"
  <2>1. c.cb # "phonebook_readrg_cb" /\ c.cb \notin OneLiners
    BY <1>2 DEF OneLiners
  <2> QED
    BY <2>1 DEF Lines
<1> QED
  BY <1>1, <1>2

\* A line comes: the callback replies to the one before.
LEMMA InformCounts ==
  ASSUME ServicesInv, Counting, ~ SilentLines, ~ Garbled, Inform PROVE Counting'
<1>e. PICK e : e = Executing
  OBVIOUS
<1>n. PICK n : n = e.serial
  OBVIOUS
<1>1. Paired(e.cmd) /\ e.cmd.cb \in Callbacks /\ queue # <<>> /\ up
  BY <1>e, RestOfSequence DEF Inform, ServicesInv, Queued, Executing, Paired, Fits
<1>2. PICK k \in Lines(e.cmd) : given < k
  BY <1>e DEF Inform
<1>3. UNCHANGED <<queue, ended, serial>> /\ given' = given + 1 /\ given \in Nat
  BY DEF Inform, engine, ServicesInv, Kept
<1>4. e.cmd.cb # "NULL"
  BY <1>1, <1>2, <1>3, FewLines
<1>5. Pending \in Rets /\ Pending # 0
  BY DEF Pending, Rets
<1>6. /\ IsSequence(queue) /\ IsSequence(replies) /\ OnceEach(queue)
      /\ e \in Members(queue) /\ e = Head(queue)
  BY <1>e, <1>1, RestOfSequence DEF ServicesInv, Queued, RepliesOwn, Counting, QueueNumbers, Executing
<1>7. SoFar(e)' = (IF e.cmd.cb \in Quiet THEN 0 ELSE given)
  BY <1>3 DEF SoFar
<1>8. n # 0 => Answers(n, SoFar(e)) /\ (e.cmd.cb \in Listing => Unended(n))
  BY <1>e, <1>n, <1>1 DEF Counting, Counted
<1>9. /\ Replying(n)
      /\ n # 0 /\ up' => Answers(n, SoFar(e))' /\ (e.cmd.cb \in Listing => Unended(n)')
  <2>1. CASE given = 0
    <3>1. ml = <<>> /\ replies' = replies
      BY <2>1 DEF Inform, NoAnswer, Counting, Held
    <3>2. Replying(n)
      BY <3>1 DEF Replying
    <3>3. SoFar(e) = 0 /\ SoFar(e)' = 0
      BY <1>7, <2>1 DEF SoFar
    <3>4. n # 0 => Answers(n, 0)' /\ (e.cmd.cb \in Listing => Unended(n)')
      BY <1>6, <1>8, <3>1, <3>2, <3>3, OthersReplies
    <3> QED
      BY <3>2, <3>3, <3>4 DEF Answers
  <2>2. CASE given # 0
    <3>1. PICK x : x = ml[1]
      OBVIOUS
    <3>2. Answered(e, x, Pending, <<>>) /\ x.own /\ x.full
      BY <1>e, <1>4, <2>2, <3>1 DEF Inform, Counting, Held
    <3>3. /\ Replying(n)
          /\ up' => \/ replies' = replies /\ Counts(<<>>, e.cmd, x, Pending)
                    \/ \E m : Counts(<<m>>, e.cmd, x, Pending) /\ Replied(n, m.last)
      BY <1>n, <1>1, <1>5, <1>6, <3>2, AnsweredCounts
    <3>4. CASE e.cmd.cb \in Quiet
      <4>1. e.cmd.cb \notin Listing /\ SoFar(e) = 0 /\ SoFar(e)' = 0
        BY <1>7, <3>4 DEF Quiet, Listing, SoFar
      <4>2. up' => replies' = replies
        BY <3>3, <3>4 DEF Counts
      <4>3. n # 0 /\ up' => Answers(n, 0)'
        BY <1>6, <1>8, <3>3, <4>1, <4>2, OthersReplies
      <4> QED
        BY <3>3, <4>1, <4>3 DEF Answers
    <3>5. CASE e.cmd.cb \notin Quiet
      <4>1. /\ e.cmd.cb \notin OneLiners
            /\ ~ (e.cmd.cb = "network_vmail_cb" /\ e.cmd.at = "+CSVM=")
        BY <1>1, <1>2, <1>3, <2>2, OneLine
      <4>2. up' => \E last : Replied(n, last) /\ (e.cmd.cb \in Listing => ~ last)
        <5>1. \A q : Counts(q, e.cmd, x, Pending) => Single(q)
          BY <3>2, <3>5, <4>1 DEF Counts
        <5>2. ~ Single(<<>>)
          BY DEF Single
        <5>3. \A m : Counts(<<m>>, e.cmd, x, Pending) /\ e.cmd.cb \in Listing => ~ m.last
          BY <1>5, SmallSequence DEF Counts
        <5>4. SUFFICES ASSUME up' PROVE \E last : Replied(n, last) /\ (e.cmd.cb \in Listing => ~ last)
          OBVIOUS
        <5>5. PICK m : Counts(<<m>>, e.cmd, x, Pending) /\ Replied(n, m.last)
          BY <3>3, <5>1, <5>2, <5>4
        <5>6. e.cmd.cb \in Listing => ~ m.last
          BY <5>3, <5>5
        <5> QED
          BY <5>5, <5>6
      <4>g. PICK g : g = given
        OBVIOUS
      <4>3. SoFar(e) = g - 1 /\ SoFar(e)' = g /\ g - 1 \in Nat /\ g - 1 + 1 = g
        BY <1>3, <1>7, <2>2, <3>5, <4>g DEF SoFar
      <4>4. n # 0 /\ up' => Answers(n, g)' /\ (e.cmd.cb \in Listing => Unended(n)')
        BY <1>6, <1>8, <4>2, <4>3, OneMoreReply
      <4> QED
        BY <3>3, <4>3, <4>4 DEF Answers
    <3> QED
      BY <3>4, <3>5
  <2> QED
    BY <2>1, <2>2
<1>10. QueueNumbers' /\ EndNumbers'
  BY <1>3 DEF Counting, QueueNumbers, EndNumbers
<1>11. ReplyNumbers'
  <2>1. n \in Nat /\ n < serial
    BY <1>n, <1>6 DEF Counting, QueueNumbers
  <2>2. CASE replies' = replies
    BY <1>3, <2>2 DEF Counting, ReplyNumbers
  <2>3. ASSUME NEW x, replies' = replies \o <<x>>, x.by = n PROVE ReplyNumbers'
    <3>1. Members(replies') = Members(replies) \cup {x}
      BY <1>6, <2>3, JoinedSequence, SmallSequence
    <3> QED
      BY <1>3, <2>1, <2>3, <3>1 DEF Counting, ReplyNumbers
  <2> QED
    BY <1>9, <2>2, <2>3 DEF Replying, Replied
<1>12. Waiting'
  <2>1. ASSUME NEW s, s # 0, s # n, Unasked(s) PROVE Unasked(s)'
    BY <1>6, <1>9, <2>1, OthersReplies
  <2>2. \A x \in Members(Tail(queue)) : x.serial # 0 => x.serial # n /\ Unasked(x.serial)
    BY <1>n, <1>1, <1>6, OnceRest DEF Counting, Waiting
  <2> QED
    BY <1>3, <2>1, <2>2 DEF Waiting, Unasked
<1>13. Held'
  <2>1. PICK x : ml' = <<x>> /\ x.own /\ x.full
    <3>1. ml' = <<Line(TRUE, TRUE, given + 1, "line", e.serial)>>
      BY <1>e DEF Inform
    <3>2. PICK x : x = Line(TRUE, TRUE, given + 1, "line", e.serial)
      OBVIOUS
    <3> QED
      BY <3>1, <3>2 DEF Line
  <2>2. given' # 0
    BY <1>3
  <2> QED
    BY <2>1, <2>2 DEF Held
<1>14. Counted'
  <2>1. Executing' = e
    BY <1>e, <1>3 DEF Executing
  <2> QED
    BY <1>n, <1>9, <2>1 DEF Counted, Answers, Unended, RepliesOf, SoFar
<1>15. ASSUME NEW d \in ended, d.q.serial # 0 PROVE d.q.serial # n
  BY <1>n, <1>6, <1>15 DEF Counting, EndNumbers
<1>16. AllAnswered' /\ AllEnding'
  <2>1. ASSUME NEW d \in ended, d.q.serial # 0
        PROVE  /\ Answers(d.q.serial, Promised(d)) => Answers(d.q.serial, Promised(d))'
               /\ Ending(d.q.serial) => Ending(d.q.serial)'
    BY <1>6, <1>9, <1>15, <2>1, OthersReplies
  <2>2. \A d \in Succeeded : d \in ended /\ d.q.serial # 0
    BY DEF Succeeded
  <2>3. \A d \in Succeeded :
          /\ Answers(d.q.serial, Promised(d))'
          /\ d.q.cmd.cb \in Listing => Ending(d.q.serial)'
    BY <1>1, <2>1, <2>2 DEF Counting, AllAnswered, AllEnding
  <2>4. Succeeded' = Succeeded
    BY <1>3 DEF Succeeded
  <2> QED
    BY <2>3, <2>4 DEF AllAnswered, AllEnding
<1> QED
  BY <1>10, <1>11, <1>12, <1>13, <1>14, <1>16 DEF Counting

\* The command succeeds: its callback replies to the line that is kept, or
\* passes the result on.
LEMMA SuccessCounts ==
  ASSUME ServicesInv, Counting, ~ SilentLines, up, queue # <<>>, NEW e, e = Executing,
         e.serial # 0, e.cmd.cb # "NULL", given \in Lines(e.cmd),
         NEW r, r = IF ml = <<>> THEN Result("OK", e.serial) ELSE ml[1],
         NEW events, Answered(e, r, 0, events),
         NEW d, d.q = e, d.lines = given
  PROVE  /\ up' => Answers(e.serial, Promised(d))'
         /\ e.cmd.cb \in Listing => Ending(e.serial)'
<1>n. PICK n : n = e.serial
  OBVIOUS
<1>g. PICK g : g = given
  OBVIOUS
<1>1. Paired(e.cmd) /\ e.cmd.cb \in Callbacks /\ IsSequence(replies) /\ g \in Nat
  BY <1>g, RestOfSequence DEF ServicesInv, Queued, RepliesOwn, Kept, Executing, Paired, Fits
<1>2. Answers(n, SoFar(e)) /\ (e.cmd.cb \in Listing => Unended(n))
  BY <1>n DEF Counting, Counted
<1>3. /\ Replying(n)
      /\ e.cmd.cb \in Listing => up'
      /\ up' => \/ replies' = replies /\ Counts(<<>>, e.cmd, r, 0)
                \/ \E m : Counts(<<m>>, e.cmd, r, 0) /\ Replied(n, m.last)
  <2>1. e.cmd.cb \in Callbacks /\ IsSequence(replies) /\ 0 \in Rets /\ Answered(e, r, 0, events)
    BY <1>1 DEF Rets
  <2>2. /\ Replying(e.serial)
        /\ e.cmd.cb \in Listing => up'
        /\ up' => \/ replies' = replies /\ Counts(<<>>, e.cmd, r, 0)
                  \/ \E m : Counts(<<m>>, e.cmd, r, 0) /\ Replied(e.serial, m.last)
    BY <2>1, AnsweredCounts
  <2> QED
    BY <1>n, <2>2
<1>4. ~ Single(<<>>) /\ (\A m : <<m>> # <<>>)
  BY DEF Single
<1>5. SUFFICES ASSUME up'
               PROVE  Answers(n, Promised(d))' /\ (e.cmd.cb \in Listing => Ending(n)')
  BY <1>n, <1>3 DEF Answers, Ending, RepliesOf
<1>6. CASE \/ e.cmd.cb \in Quiet
           \/ g = 0 /\ e.cmd.cb \notin Passing
  <2>1. replies' = replies
    <3>1. CASE e.cmd.cb \in Quiet
      BY <1>3, <1>4, <1>5, <3>1 DEF Counts
    <3>2. CASE e.cmd.cb \notin Quiet
      <4>1. ~ r.own
        BY <1>g, <1>6, <3>2 DEF Counting, Held, Result, Line
      <4>2. e.cmd.cb \notin OneLiners
        BY <1>g, <1>1, <1>6, <3>2, OneLine
      <4> QED
        BY <1>3, <1>4, <1>5, <1>6, <3>2, <4>1, <4>2 DEF Counts
    <3> QED
      BY <3>1, <3>2
  <2>2. Promised(d) = 0 /\ SoFar(e) = 0
    <3>1. SoFar(e) = 0
      BY <1>g, <1>6 DEF SoFar
    <3>2. ~ (e.cmd.cb \in Quiet /\ e.cmd.cb \in Passing)
      BY DEF Quiet, Passing
    <3>3. Promised(d) = 0
      BY <1>g, <1>6, <3>2 DEF Promised
    <3> QED
      BY <3>1, <3>3
  <2>3. Answers(n, 0) /\ Ending(n)
    <3>1. RepliesOf(n) = {}
      BY <1>2, <2>2, FS_EmptySet DEF Answers
    <3> QED
      BY <1>2, <2>2, <3>1 DEF Ending
  <2>4. Answers(n, 0)' /\ Ending(n)'
    BY <1>1, <1>3, <2>1, <2>3, OthersReplies
  <2> QED
    BY <2>2, <2>4
<1>7. CASE g = 0 /\ e.cmd.cb \in Passing
  <2>1. e.cmd.cb \notin Quiet \cup Listing
    BY <1>7 DEF Passing, Quiet, Listing
  <2>2. ~ r.own
    BY <1>g, <1>7 DEF Counting, Held, Result, Line
  <2>3. \E last : Replied(n, last)
    <3>1. ~ Counts(<<>>, e.cmd, r, 0)
      BY <1>4, <1>7, <2>2 DEF Counts
    <3> QED
      BY <1>3, <1>5, <3>1
  <2>4. Promised(d) = 1 /\ SoFar(e) = 0
    BY <1>g, <1>7, <2>1 DEF Promised, SoFar
  <2>5. Answers(n, 0 + 1)'
    BY <1>1, <1>2, <2>3, <2>4, OneMoreReply
  <2> QED
    BY <2>1, <2>4, <2>5
<1>8. CASE g # 0 /\ e.cmd.cb \notin Quiet
  <2>1. r.own /\ r.full
    BY <1>g, <1>8 DEF Counting, Held
  <2>2. ~ (e.cmd.cb = "network_vmail_cb" /\ e.cmd.at = "+CSVM=")
    BY <1>g, <1>1, <1>8, OneLine
  <2>3. ~ Counts(<<>>, e.cmd, r, 0)
    BY <1>4, <1>8, <2>1, <2>2 DEF Counts
  <2>4. PICK m : Counts(<<m>>, e.cmd, r, 0) /\ Replied(n, m.last)
    BY <1>3, <1>5, <2>3
  <2>5. Promised(d) = g /\ SoFar(e) = g - 1 /\ g - 1 \in Nat /\ g - 1 + 1 = g
    BY <1>g, <1>1, <1>8 DEF Promised, SoFar
  <2>6. Answers(n, g)'
    BY <1>1, <1>2, <2>4, <2>5, OneMoreReply
  <2>7. e.cmd.cb \in Listing => m.last
    BY <2>4, SmallSequence DEF Counts
  <2>8. e.cmd.cb \in Listing => Ending(n)'
    BY <1>1, <1>2, <2>4, <2>7, OneMoreReply
  <2> QED
    BY <2>5, <2>6, <2>8
<1> QED
  BY <1>6, <1>7, <1>8

\* The final result comes.
LEMMA FinishCounts ==
  ASSUME ServicesInv, Counting, ~ SilentLines, NEW res \in Results, Finish(res) PROVE Counting'
<1> DEFINE ret == Returned(res, Pending)
<1>e. PICK e : e = Executing
  OBVIOUS
<1>r. PICK r : r = IF ml = <<>> THEN Result(res, e.serial) ELSE ml[1]
  OBVIOUS
<1>d. PICK d : d = [q |-> e, lines |-> given, res |-> res]
  OBVIOUS
<1>1. /\ up /\ queue # <<>> /\ queue' = Tail(queue) /\ given' = 0 /\ serial' = serial
      /\ res = "OK" => given \in Lines(e.cmd)
      /\ ended' = ended \cup {d} /\ d.q = e /\ d.lines = given /\ d.res = res
      /\ ml' = IF e.cmd.cb = "NULL" THEN ml ELSE <<>>
      /\ e.cmd.cb = "NULL" => UNCHANGED <<up, replies>>
      /\ e.cmd.cb # "NULL" => Answered(e, r, ret, ErrorEvent(res))
  BY <1>e, <1>r, <1>d DEF Finish, Left
<1>2. ret \in Rets /\ (res = "OK" => ret = 0)
  BY ReturnedRets DEF Returned, ResultCode
<1> HIDE DEF ret
<1>3. e.cmd.cb \in Callbacks /\ IsSequence(replies)
  BY <1>e, <1>1, RestOfSequence DEF ServicesInv, Queued, RepliesOwn, Executing, Paired, Fits
<1>4. ml' = <<>>
  BY <1>e, <1>1 DEF ServicesInv, Kept
<1>5. Replying(e.serial)
  <2>1. CASE e.cmd.cb = "NULL"
    BY <1>1, <2>1 DEF Replying
  <2>2. CASE e.cmd.cb # "NULL"
    BY <1>1, <1>2, <1>3, <2>2, AnsweredCounts
  <2> QED
    BY <2>1, <2>2
<1>6. ASSUME res = "OK", e.serial # 0
      PROVE  /\ up' => Answers(e.serial, Promised(d))'
             /\ e.cmd.cb \in Listing => Ending(e.serial)'
  <2>1. CASE e.cmd.cb = "NULL"
    <3>1. PICK n : n = e.serial
      OBVIOUS
    <3>2. SoFar(e) = 0 /\ Promised(d) = 0 /\ e.cmd.cb \notin Listing
      <4>1. e.cmd.cb \in Quiet /\ e.cmd.cb \notin Listing \cup Passing
        BY <2>1 DEF Quiet, Listing, Passing
      <4>2. Promised(d) = 0
        BY <1>1, <4>1 DEF Promised
      <4> QED
        BY <4>1, <4>2 DEF SoFar
    <3>3. Answers(n, 0)
      BY <1>e, <1>1, <1>6, <3>1, <3>2 DEF Counting, Counted
    <3>4. Answers(n, 0)'
      BY <1>1, <1>3, <1>5, <2>1, <3>1, <3>3, OthersReplies
    <3> QED
      BY <3>1, <3>2, <3>4 DEF Answers, RepliesOf
  <2>2. CASE e.cmd.cb # "NULL"
    <3>1. Answered(e, r, 0, ErrorEvent(res)) /\ given \in Lines(e.cmd)
      BY <1>1, <1>2, <1>6, <2>2
    <3> QED
      BY <1>e, <1>r, <1>1, <1>6, <2>2, <3>1, SuccessCounts
  <2> QED
    BY <2>1, <2>2
<1>7. \E x : /\ ended' = ended \cup {x} /\ x.q = e
             /\ x.res = "OK" /\ e.serial # 0 =>
                  /\ up' => Answers(e.serial, Promised(x))'
                  /\ e.cmd.cb \in Listing => Ending(e.serial)'
  BY <1>1, <1>6
<1> QED
  BY <1>e, <1>1, <1>4, <1>5, <1>7, EndingCounts

\* At the start nothing has a number.
LEMMA CountingInit == ASSUME Init PROVE Counting
<1>1. QueueNumbers /\ ReplyNumbers
  BY SmallSequence, OnceSmall DEF Init, QueueNumbers, ReplyNumbers
<1> QED
  BY <1>1 DEF Init, Counting, EndNumbers, Waiting, Held, Counted, AllAnswered, AllEnding, Succeeded

\* Every step keeps the count.
LEMMA CountingStep ==
  ASSUME ~ SilentLines, ~ Garbled, KnownLines, ServicesInv, Counting, [Next]_vars PROVE Counting'
<1>1. ASSUME UNCHANGED vars PROVE Counting'
  BY <1>1, SameCounting DEF vars, engine, modem
<1> QED
  BY <1>1, TypeCounts, TakeCounts, InformCounts, FinishCounts, GiveUpCounts, OwnCounts, ReceiveCounts
  DEF Next

\* So it always holds.
LEMMA CountingHolds ==
  ASSUME ~ SilentLines, ~ Garbled, KnownLines PROVE Spec => [](ServicesInv /\ Counting)
BY ServicesInit, ServicesStep, CountingInit, CountingStep, PTL DEF Spec

\* A command that succeeds is answered as often as it has lines, while also all
\* the fields of a line are there: the line kept in mlbuf is given to the
\* callback once, by the next line or by the result (atcmd.c:368-384 and 214-231).
THEOREM WellAnsweredHolds ==
  ASSUME ~ SilentLines, ~ Garbled, KnownLines PROVE Spec => []WellAnswered
<1>1. Counting => WellAnswered
  BY DEF Counting, AllAnswered, Answers, WellAnswered
<1> QED
  BY <1>1, CountingHolds, PTL

\* A list that succeeds and is not empty has its end marked (is_last) in its
\* last reply and nowhere else (Entry: sms_cb.c and usock.c).
THEOREM ListEndsHolds ==
  ASSUME ~ SilentLines, ~ Garbled, KnownLines PROVE Spec => []ListEnds
<1>1. Counting => ListEnds
  BY DEF Counting, AllEnding, Ending, ListEnds
<1> QED
  BY <1>1, CountingHolds, PTL
=============================================================================
