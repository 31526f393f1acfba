------------------------------ MODULE Requests ------------------------------
(***************************************************************************)
(* What gsmd does with a request: usock_rcv_pcmd (usock.c) and the         *)
(* handlers it calls, one for each type of message (usock.c, sms_cb.c).    *)
(*                                                                         *)
(* A message is a record: type and sub are the msg_type and msg_subtype of *)
(* its header, id its id; short says that the payload is shorter than the  *)
(* structure the handler expects; arg is what the handler looks at in it.  *)
(* A handler is an operator from a message to what it does:                *)
(*   err    what it returns, "0" for success                               *)
(*   cmds   the commands it submits: the text by name, the callback, the   *)
(*          header id the callback answers with, and the argument          *)
(*   effect what else it does                                              *)
(***************************************************************************)
EXTENDS Naturals, Sequences

Command(at, cb, id, arg) == [at |-> at, cb |-> cb, id |-> id, arg |-> arg]

Refuse(err)     == [err |-> err, cmds |-> <<>>, effect |-> "none"]
Submit(cmds)    == [err |-> "0", cmds |-> cmds, effect |-> "none"]
Do(effect)      == [err |-> "0", cmds |-> <<>>, effect |-> effect]

\* atcmd_fill and atcmd_submit of one command.
One(at, cb, id, arg) == Submit(<<Command(at, cb, id, arg)>>)
-----------------------------------------------------------------------------
usock_rcv_passthrough(m) == One("any", "usock_cmd_cb", m.id, m.arg)

usock_rcv_event(m) ==
  IF m.short \/ m.sub # "SUBSCRIPTIONS" THEN Refuse("EINVAL") ELSE Do("subscribe")

\* The hang-up is not submitted but cancels what executes (cancel_atcmd).
\* Only one digit of DTMF is supported.
usock_rcv_voicecall(m) ==
  CASE m.sub = "DIAL"   -> IF m.short THEN Refuse("EINVAL") ELSE One("D", "usock_cmd_cb", m.id, m.arg)
    [] m.sub = "HANGUP" -> [One("H", "usock_cmd_cb", m.id, m.arg) EXCEPT !.effect = "cancel"]
    [] m.sub = "ANSWER" -> One("A", "usock_cmd_cb", m.id, m.arg)
    [] m.sub = "DTMF"   -> IF m.short \/ m.arg # 1 THEN Refuse("EINVAL")
                                                   ELSE One("+VTS=", "usock_cmd_cb", m.id, m.arg)
    [] OTHER            -> Refuse("EINVAL")

usock_rcv_pin(m) ==
  IF m.short \/ m.sub # "INPUT" THEN Refuse("EINVAL") ELSE One("+CPIN=", "pin_cmd_cb", 0, m.arg)

\* The radio counts as off as soon as the command is submitted, and as on when
\* its command is done (phone_powerup_cb).
usock_rcv_phone(m) ==
  CASE m.sub = "POWERUP"   -> One("+CFUN=1", "phone_powerup_cb", 0, m.arg)
    [] m.sub = "POWERDOWN" -> [One("+CFUN=0", "null_cmd_cb", 0, m.arg) EXCEPT !.effect = "off"]
    [] OTHER               -> Refuse("EINVAL")

\* The commands of a network request; two need the names in the long format
\* first.  The payload is not checked for its length.
NetworkCommands ==
  [REGISTER   |-> <<<<"+COPS=1", "null_cmd_cb">>>>,
   DEREGISTER |-> <<<<"+COPS=2", "null_cmd_cb">>>>,
   VMAIL_GET  |-> <<<<"+CSVM?", "network_vmail_cb">>>>,
   VMAIL_SET  |-> <<<<"+CSVM=", "network_vmail_cb">>>>,
   SIGQ_GET   |-> <<<<"+CSQ", "network_sigq_cb">>>>,
   OPER_GET   |-> <<<<"+COPS=3", "null_cmd_cb">>, <<"+COPS?", "network_oper_cb">>>>,
   OPER_LIST  |-> <<<<"+COPS=?", "network_opers_cb">>>>,
   PREF_LIST  |-> <<<<"+CPOL=,0", "null_cmd_cb">>, <<"+CPOL?", "network_pref_opers_cb">>>>,
   PREF_DEL   |-> <<<<"+CPOL=", "null_cmd_cb">>>>,
   PREF_ADD   |-> <<<<"+CPOL=", "null_cmd_cb">>>>,
   PREF_SPACE |-> <<<<"+CPOL=?", "network_pref_num_cb">>>>,
   GET_NUMBER |-> <<<<"+CNUM", "network_ownnumbers_cb">>>>]

\* The ids of the requests are not kept: every reply has id 0.
usock_rcv_network(m) ==
  IF m.sub \notin DOMAIN NetworkCommands THEN Refuse("EINVAL")
  ELSE Submit([i \in DOMAIN NetworkCommands[m.sub] |->
                 Command(NetworkCommands[m.sub][i][1], NetworkCommands[m.sub][i][2], 0, m.arg)])

\* The phonebook.  The two RETRIEVE requests answer without the modem.
PhonebookCommands ==
  [LIST_STORAGE |-> <<"+CPBS=?", "phonebook_list_storage_cb">>,
   SET_STORAGE  |-> <<"+CPBS=", "usock_cmd_cb">>,
   FIND         |-> <<"+CPBF=", "phonebook_find_cb">>,
   READ         |-> <<"+CPBR=", "phonebook_read_cb">>,
   READRG       |-> <<"+CPBR=", "phonebook_readrg_cb">>,
   WRITE        |-> <<"+CPBW=", "phonebook_write_cb">>,
   DELETE       |-> <<"+CPBW=", "phonebook_delete_cb">>,
   GET_SUPPORT  |-> <<"+CPBR=?", "phonebook_get_support_cb">>,
   GET_IMSI     |-> <<"+CIMI", "get_imsi_cb">>]

usock_rcv_phonebook(m) ==
  CASE m.short /\ m.sub \notin {"LIST_STORAGE", "GET_SUPPORT", "GET_IMSI"} -> Refuse("EINVAL")
    [] m.sub = "RETRIEVE_FIND"   -> Do("retrieve_find")
    [] m.sub = "RETRIEVE_READRG" -> Do("retrieve_readrg")
    [] m.sub \in DOMAIN PhonebookCommands ->
         One(PhonebookCommands[m.sub][1], PhonebookCommands[m.sub][2],
             IF m.sub = "GET_IMSI" THEN 0 ELSE m.id, m.arg)
    [] OTHER -> Refuse("EINVAL")

\* Short messages; their handlers are those of sms_cb.c.  A command without
\* callback is answered by nobody.
SmsCommands ==
  [LIST               |-> <<"+CMGL=", "sms_list_cb">>,
   READ               |-> <<"+CMGR=", "sms_read_cb">>,
   SEND               |-> <<"+CMGS=", "sms_send_cb">>,
   WRITE              |-> <<"+CMGW=", "sms_write_cb">>,
   DELETE             |-> <<"+CMGD=", "sms_delete_cb">>,
   GET_MSG_STORAGE    |-> <<"+CPMS?", "usock_cpms_cb">>,
   SET_MSG_STORAGE    |-> <<"+CPMS=", "NULL">>,
   GET_SERVICE_CENTRE |-> <<"+CSCA?", "usock_get_smsc_cb">>,
   SET_SERVICE_CENTRE |-> <<"+CSCA=", "NULL">>]

usock_rcv_sms(m) ==
  CASE m.sub \notin DOMAIN SmsCommands -> Refuse("ENOSYS")
    [] m.short /\ m.sub \notin {"GET_MSG_STORAGE", "GET_SERVICE_CENTRE"} -> Refuse("EINVAL")
    [] m.sub \in {"LIST", "WRITE"} /\ m.arg > 4 -> Refuse("EINVAL")
    [] OTHER ->
         One(SmsCommands[m.sub][1], SmsCommands[m.sub][2],
             IF m.sub \in {"GET_MSG_STORAGE", "GET_SERVICE_CENTRE"} THEN 0 ELSE m.id, m.arg)

usock_rcv_cb(m) ==
  IF m.sub \in {"SUBSCRIBE", "UNSUBSCRIBE"} THEN One("+CSCB=", "NULL", 0, m.arg) ELSE Refuse("ENOSYS")

\* usock_rcv_pcmd with pcmd_type_handlers.
usock_rcv_pcmd(m) ==
  CASE m.type = "PASSTHROUGH" -> usock_rcv_passthrough(m)
    [] m.type = "EVENT"       -> usock_rcv_event(m)
    [] m.type = "VOICECALL"   -> usock_rcv_voicecall(m)
    [] m.type = "PIN"         -> usock_rcv_pin(m)
    [] m.type = "PHONE"       -> usock_rcv_phone(m)
    [] m.type = "NETWORK"     -> usock_rcv_network(m)
    [] m.type = "SMS"         -> usock_rcv_sms(m)
    [] m.type = "CB"          -> usock_rcv_cb(m)
    [] m.type = "PHONEBOOK"   -> usock_rcv_phonebook(m)
    [] OTHER                  -> Refuse("EINVAL")
=============================================================================
