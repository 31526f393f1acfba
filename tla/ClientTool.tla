----------------------------- MODULE ClientTool -----------------------------
(***************************************************************************)
(* The client: the request functions of libgsmd, and libgsmd-tool, which   *)
(* calls them for the words typed at its shell and for events.             *)
(*                                                                         *)
(* A request function is the sequence of the messages it sends, empty if   *)
(* it refuses.  A message is as in Requests.  (A send that fails counts as *)
(* a success: -1 is compared with an unsigned length.)                     *)
(***************************************************************************)
EXTENDS Integers, Sequences

\* The fields of a message but its id, which lgsm_send takes from next_msg_id.
lgsm_gmh_fill(type, sub, arg) == [type |-> type, sub |-> sub, short |-> FALSE, arg |-> arg]

lgsm_send(gmh, next_msg_id) == [id |-> next_msg_id, type |-> gmh.type, sub |-> gmh.sub,
                                short |-> gmh.short, arg |-> gmh.arg]

Request(type, sub, arg) == <<lgsm_gmh_fill(type, sub, arg)>>

lgsm_send_simple(type, sub) == Request(type, sub, 0)
-----------------------------------------------------------------------------
\* libgsmd_voicecall.c and libgsmd_phone.c.  gsmd has no handler for VOL_SET.
lgsm_voice_out_init(number) == Request("VOICECALL", "DIAL", number)
lgsm_voice_dtmf(digit)      == Request("VOICECALL", "DTMF", 1)
lgsm_voice_in_accept        == lgsm_send_simple("VOICECALL", "ANSWER")
lgsm_voice_hangup           == lgsm_send_simple("VOICECALL", "HANGUP")
lgsm_voice_volume_set       == lgsm_send_simple("VOICECALL", "VOL_SET")
lgsm_phone_power(power)     == lgsm_send_simple("PHONE", IF power THEN "POWERUP" ELSE "POWERDOWN")

\* libgsmd_network.c.
lgsm_oper_get             == lgsm_send_simple("NETWORK", "OPER_GET")
lgsm_opers_get            == lgsm_send_simple("NETWORK", "OPER_LIST")
lgsm_netreg_register(o)   == Request("NETWORK", "REGISTER", o)
lgsm_netreg_deregister    == lgsm_send_simple("NETWORK", "DEREGISTER")
lgsm_signal_quality       == lgsm_send_simple("NETWORK", "SIGQ_GET")
lgsm_prefoper_list        == lgsm_send_simple("NETWORK", "PREF_LIST")
lgsm_prefoper_delete(i)   == Request("NETWORK", "PREF_DEL", i)
lgsm_prefoper_add(o)      == Request("NETWORK", "PREF_ADD", o)
lgsm_prefoper_get_space   == lgsm_send_simple("NETWORK", "PREF_SPACE")
lgsm_get_subscriber_num   == lgsm_send_simple("NETWORK", "GET_NUMBER")

\* libgsmd_phonebook.c.
lgsm_pb_list_storage       == lgsm_send_simple("PHONEBOOK", "LIST_STORAGE")
lgsm_pb_set_storage(s)     == Request("PHONEBOOK", "SET_STORAGE", s)
lgsm_pb_find_entry(text)   == Request("PHONEBOOK", "FIND", text)
lgsm_pb_read_entry(i)      == Request("PHONEBOOK", "READ", i)
lgsm_pb_read_entries(i)    == Request("PHONEBOOK", "READRG", i)
lgsm_pb_del_entry(i)       == Request("PHONEBOOK", "DELETE", i)
lgsm_pb_write_entry(i)     == Request("PHONEBOOK", "WRITE", i)
lgsm_pb_get_support        == lgsm_send_simple("PHONEBOOK", "GET_SUPPORT")
lgsm_pb_retrieve_readrg(n) == Request("PHONEBOOK", "RETRIEVE_READRG", n)
lgsm_pb_retrieve_find(n)   == Request("PHONEBOOK", "RETRIEVE_FIND", n)
lgsm_get_imsi              == lgsm_send_simple("PHONEBOOK", "GET_IMSI")

\* libgsmd_sms.c.  Numbers that are not digits are refused (lgsm_number2addr).
lgsm_sms_list(stat)           == Request("SMS", "LIST", stat)
lgsm_sms_read(i)              == Request("SMS", "READ", i)
lgsm_sms_delete(i)            == Request("SMS", "DELETE", i)
lgsm_sms_send(digits)         == IF digits THEN Request("SMS", "SEND", 0) ELSE <<>>
lgsm_sms_write(digits, stat)  == IF digits THEN Request("SMS", "WRITE", stat) ELSE <<>>
lgsm_sms_get_storage          == lgsm_send_simple("SMS", "GET_MSG_STORAGE")
lgsm_sms_set_storage(mem)     == Request("SMS", "SET_MSG_STORAGE", mem)
lgsm_sms_get_smsc             == lgsm_send_simple("SMS", "GET_SERVICE_CENTRE")
lgsm_sms_set_smsc(digits)     == IF digits THEN Request("SMS", "SET_SERVICE_CENTRE", 0) ELSE <<>>
lgsm_cb_subscribe             == lgsm_send_simple("CB", "SUBSCRIBE")
lgsm_cb_unsubscribe           == lgsm_send_simple("CB", "UNSUBSCRIBE")

\* libgsmd_pin.c.  Only the two PUK types of the SIM need a new PIN.
PinTypes == 0 .. 15
lgsm_pin(type, fits, newpin) ==
  IF ~ fits \/ type \notin PinTypes \/ (type \in {2, 7} /\ ~ newpin) THEN <<>>
  ELSE Request("PIN", "INPUT", type)
-----------------------------------------------------------------------------
(***************************************************************************)
(* The shell.  A word is what was typed: the command w, whether its        *)
(* argument is acceptable (ok), and a number n in it.  nFIND and nREADRG   *)
(* are the records announced and not yet retrieved.                        *)
(***************************************************************************)
Word(w, ok, n) == [w |-> w, ok |-> ok, n |-> n]

CallWords(x) ==
  CASE x.w = "H" -> lgsm_voice_hangup
    [] x.w = "D" -> IF x.ok THEN lgsm_voice_out_init(x.n) ELSE <<>>
    [] x.w = "A" -> lgsm_voice_in_accept
    [] x.w = "O" -> lgsm_phone_power(TRUE)
    [] x.w = "o" -> lgsm_phone_power(FALSE)
    [] x.w = "r" -> lgsm_netreg_register(0)
    [] x.w = "R" -> IF x.ok THEN lgsm_netreg_register(x.n) ELSE <<>>
    [] x.w = "U" -> lgsm_netreg_deregister
    [] x.w = "P" -> lgsm_oper_get
    [] x.w = "L" -> lgsm_opers_get
    [] x.w = "Q" -> lgsm_signal_quality
    [] x.w = "T" -> IF x.ok THEN lgsm_voice_dtmf(x.n) ELSE <<>>
    [] OTHER     -> <<>>

\* Retrieving is only asked for when something was announced.
PhonebookWords(x, shell) ==
  CASE x.w = "pd"  -> lgsm_pb_del_entry(x.n)
    [] x.w = "prr" -> lgsm_pb_read_entries(x.n)
    [] x.w = "pr"  -> lgsm_pb_read_entry(x.n)
    [] x.w = "pf"  -> lgsm_pb_find_entry(x.n)
    [] x.w = "pw"  -> lgsm_pb_write_entry(x.n)
    [] x.w = "pm"  -> lgsm_pb_list_storage
    [] x.w = "pp"  -> lgsm_pb_set_storage(x.n)
    [] x.w = "ps"  -> lgsm_pb_get_support
    [] x.w = "pRr" -> IF shell.nREADRG # 0 THEN lgsm_pb_retrieve_readrg(shell.nREADRG) ELSE <<>>
    [] x.w = "pRf" -> IF shell.nFIND # 0 THEN lgsm_pb_retrieve_find(shell.nFIND) ELSE <<>>
    [] OTHER       -> <<>>

SmsWords(x) ==
  CASE x.w = "sd" -> lgsm_sms_delete(x.n)
    [] x.w = "sl" -> lgsm_sms_list(x.n)
    [] x.w = "sr" -> lgsm_sms_read(x.n)
    [] x.w = "ss" -> lgsm_sms_send(x.ok)
    [] x.w = "sw" -> lgsm_sms_write(x.ok, x.n)
    [] x.w = "sm" -> lgsm_sms_get_storage
    [] x.w = "sM" -> IF x.ok THEN lgsm_sms_set_storage(x.n) ELSE <<>>
    [] x.w = "sc" -> lgsm_sms_get_smsc
    [] x.w = "sC" -> lgsm_sms_set_smsc(x.ok)
    [] x.w = "n"  -> lgsm_get_subscriber_num
    [] x.w = "im" -> lgsm_get_imsi
    [] OTHER      -> <<>>

\* shell_main: what a word sends (no word is in two of the groups).
shell_main(x, shell) == CallWords(x) \o PhonebookWords(x, shell) \o SmsWords(x)
-----------------------------------------------------------------------------
\* The handlers of messages: what they do to nFIND and nREADRG.
pb_msghandler(m, shell) ==
  CASE m.sub = "FIND"            -> [shell EXCEPT !.nFIND = m.n]
    [] m.sub = "READRG"          -> [shell EXCEPT !.nREADRG = m.n]
    [] m.sub = "RETRIEVE_READRG" -> [shell EXCEPT !.nREADRG = 0]
    [] m.sub = "RETRIEVE_FIND"   -> [shell EXCEPT !.nFIND = 0]
    [] OTHER                     -> shell

\* What the user is told about a message sent, stored or deleted.
sms_msghandler(m) ==
  CASE m.sub \in {"SEND", "WRITE"} -> IF m.n >= 0 THEN "success" ELSE "error"
    [] m.sub = "DELETE"            -> IF m.n = 0 THEN "success" ELSE "error"
    [] m.sub \in {"LIST", "READ", "GET_MSG_STORAGE", "GET_SERVICE_CENTRE"} -> "data"
    [] OTHER                       -> "EINVAL"

\* The other replies to network requests are not understood.
net_msghandler(m) ==
  IF m.sub \in {"SIGQ_GET", "OPER_GET", "OPER_LIST", "GET_NUMBER"} THEN "data" ELSE "EINVAL"

\* evt_demux_msghandler keeps the state of the registration for the program.
evt_demux_msghandler(e, netreg) == IF e.sub = "NETREG" THEN e.n ELSE netreg

\* pin_handler: a preset PIN is sent for a SIM PIN (type 1), again and again
\* if asked again; anything else is asked of the user, who may type anything.
pin_handler(e, preset, fits) ==
  IF e.n = 1 /\ preset THEN lgsm_pin(1, TRUE, FALSE) ELSE lgsm_pin(e.n, fits, TRUE)
=============================================================================
