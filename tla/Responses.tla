----------------------------- MODULE Responses -----------------------------
(***************************************************************************)
(* What gsmd makes of the modem's answers: the callbacks that the handlers *)
(* of Requests give to their commands (usock.c, sms_cb.c).                 *)
(*                                                                         *)
(* A callback gets the command c, a response r and the result code ret.    *)
(* It is called for every information line but the last with ret still     *)
(* -255, and at the end with the last line, or with the text of the final  *)
(* result if there was none.  A response is                                *)
(*   own   the text begins as the line this callback looks for             *)
(*   full  and all the fields the callback looks for are there             *)
(*   n     the number in it: entries of a list, an index, a value          *)
(*   text  what a callback that copies the text copies                     *)
(*                                                                         *)
(* The result is the SET of what may happen: more than one outcome stands  *)
(* for undefined behaviour.  An outcome is what is sent to the client,     *)
(* whether the daemon is killed, and the phonebook afterwards.             *)
(***************************************************************************)
EXTENDS Integers, Sequences

Pending == -255    \* the ret of a command without a final result

\* The phonebook: the records that pb_find_list and pb_readrg_list hold.
Phonebook == [find : Nat, readrg : Nat]

Reply(type, sub, id, n, last, text) ==
  [type |-> type, sub |-> sub, id |-> id, n |-> n, last |-> last, text |-> text]

Outcome(out, alive, pb) == [out |-> out, alive |-> alive, pb |-> pb]

Send(reply, pb) == {Outcome(<<reply>>, TRUE, pb)}
Nothing(pb)     == {Outcome(<<>>, TRUE, pb)}
Killed(pb)      == {Outcome(<<>>, FALSE, pb)}

\* A reply with a copy of the response, whatever it says.
Copied(type, sub, id, r, pb) == Send(Reply(type, sub, id, 0, TRUE, r.text), pb)

\* A reply with what was understood of the response, nothing otherwise.
Parsed(type, sub, id, r, last, pb) ==
  IF r.own /\ r.full THEN Send(Reply(type, sub, id, r.n, last, "parsed"), pb) ELSE Nothing(pb)
-----------------------------------------------------------------------------
\* usock.c.  Every final result goes to the client, an error like a success.
usock_cmd_cb(c, r, ret, pb) == Copied("PASSTHROUGH", "RESP", c.id, r, pb)

null_cmd_cb(c, r, ret, pb) == Nothing(pb)
pin_cmd_cb(c, r, ret, pb)  == Nothing(pb)

\* The effect of phone_powerup_cb on dev_state.on.
phone_powerup_cb(ret, on) == on \/ ret = 0

\* The answer to a query is stored through a pointer nobody has set.
network_vmail_cb(c, r, ret, pb) ==
  IF c.at = "+CSVM=" THEN Nothing(pb)
  ELSE Killed(pb) \cup Parsed("NETWORK", "VMAIL_GET", c.id, r, TRUE, pb)

network_sigq_cb(c, r, ret, pb) == Parsed("NETWORK", "SIGQ_GET", 0, r, TRUE, pb)

\* A response that is no "+COPS: <mode>,<format>" gives an empty name, also
\* when it is an error; one with an open quote gives nothing.
network_oper_cb(c, r, ret, pb) ==
  IF r.own THEN Parsed("NETWORK", "OPER_GET", 0, r, TRUE, pb)
           ELSE Send(Reply("NETWORK", "OPER_GET", 0, 0, TRUE, "empty"), pb)

\* The entries up to the first that is malformed (here: none of them), and a
\* last one that only ends the list.
network_opers_parse(r) == IF r.own /\ r.full THEN r.n ELSE 0
network_opers_cb(c, r, ret, pb) ==
  Send(Reply("NETWORK", "OPER_LIST", 0, network_opers_parse(r), TRUE, "list"), pb)

\* One entry to a line.  The last one is the one that comes with the result OK.
Entry_final(type, sub, c, r, ret, pb) ==
  IF ret = 0 THEN Parsed(type, sub, c.id, r, TRUE, pb) ELSE Nothing(pb)
Entry_each(type, sub, c, r, ret, pb) ==
  IF ret \in {0, Pending} THEN Parsed(type, sub, c.id, r, TRUE, pb) ELSE Nothing(pb)
Entry(type, sub, c, r, ret, pb) ==
  IF ret \in {0, Pending} THEN Parsed(type, sub, c.id, r, ret = 0, pb) ELSE Nothing(pb)

network_pref_opers_cb(c, r, ret, pb) == Entry("NETWORK", "PREF_LIST", c, r, ret, pb)
network_ownnumbers_cb(c, r, ret, pb) == Entry("NETWORK", "GET_NUMBER", c, r, ret, pb)

network_pref_num_cb(c, r, ret, pb) ==
  IF ret = 0 THEN Parsed("NETWORK", "PREF_SPACE", c.id, r, TRUE, pb) ELSE Nothing(pb)

\* Every line is a call of its own: the record is appended to a list and one
\* record is announced.  Nothing empties the list before the next request (the
\* context that is freed, __pb_ctx, is never set).  A response that is not a
\* record is read through the null pointers strchr returned.
RecordLine(sub, list, r, pb) ==
  IF ~ (r.own /\ r.full) THEN Killed(pb)
  ELSE Send(Reply("PHONEBOOK", sub, 0, 1, TRUE, "count"), [pb EXCEPT ![list] = @ + 1])

phonebook_find_cb(c, r, ret, pb)   == RecordLine("FIND", "find", r, pb)
phonebook_readrg_cb(c, r, ret, pb) == RecordLine("READRG", "readrg", r, pb)

\* Anything but a "+CPBR" line is an empty record, which has the index 0.
phonebook_read_cb(c, r, ret, pb) ==
  CASE ~ r.own -> Send(Reply("PHONEBOOK", "READ", 0, 0, TRUE, "empty"), pb)
    [] r.own /\ r.full -> Parsed("PHONEBOOK", "READ", 0, r, TRUE, pb)
    [] OTHER -> Killed(pb)

phonebook_write_cb(c, r, ret, pb)  == Copied("PHONEBOOK", "WRITE", 0, r, pb)
phonebook_delete_cb(c, r, ret, pb) == Copied("PHONEBOOK", "DELETE", 0, r, pb)
get_imsi_cb(c, r, ret, pb)         == Copied("PHONEBOOK", "GET_IMSI", 0, r, pb)

phonebook_get_support_cb(c, r, ret, pb) == Parsed("PHONEBOOK", "GET_SUPPORT", 0, r, TRUE, pb)

phonebook_list_storage_cb(c, r, ret, pb) ==
  Send(Reply("PHONEBOOK", "LIST_STORAGE", 0, IF r.own THEN r.n ELSE 0, TRUE, "list"), pb)
-----------------------------------------------------------------------------
\* sms_cb.c.
sms_list_cb(c, r, ret, pb) == Entry("SMS", "LIST", c, r, ret, pb)

sms_read_cb(c, r, ret, pb) ==
  IF ret = 0 THEN Parsed("SMS", "READ", c.id, r, TRUE, pb) ELSE Nothing(pb)

\* The number sent is the reference of the message, or minus the error code.
sms_send_cb_sign(c, r, ret, pb) ==
  IF ret \in {0, Pending} THEN Parsed("SMS", "SEND", c.id, r, TRUE, pb)
  ELSE Send(Reply("SMS", "SEND", c.id, ret, TRUE, "parsed"), pb)
sms_send_cb(c, r, ret, pb) ==
  IF ret \in {0, Pending} THEN Parsed("SMS", "SEND", c.id, r, TRUE, pb)
  ELSE Send(Reply("SMS", "SEND", c.id, - ret, TRUE, "parsed"), pb)

sms_write_cb(c, r, ret, pb) ==
  IF ret = 0 THEN Parsed("SMS", "WRITE", c.id, r, TRUE, pb)
  ELSE Send(Reply("SMS", "WRITE", c.id, - ret, TRUE, "parsed"), pb)

sms_delete_cb(c, r, ret, pb) == Send(Reply("SMS", "DELETE", c.id, ret, TRUE, "result"), pb)

usock_cpms_cb(c, r, ret, pb)     == Parsed("SMS", "GET_MSG_STORAGE", c.id, r, TRUE, pb)
usock_get_smsc_cb(c, r, ret, pb) == Parsed("SMS", "GET_SERVICE_CENTRE", c.id, r, TRUE, pb)
-----------------------------------------------------------------------------
\* The call through cmd->cb.
Callback(c, r, ret, pb) ==
  CASE c.cb = "usock_cmd_cb"              -> usock_cmd_cb(c, r, ret, pb)
    [] c.cb = "pin_cmd_cb"                -> pin_cmd_cb(c, r, ret, pb)
    [] c.cb = "network_vmail_cb"          -> network_vmail_cb(c, r, ret, pb)
    [] c.cb = "network_sigq_cb"           -> network_sigq_cb(c, r, ret, pb)
    [] c.cb = "network_oper_cb"           -> network_oper_cb(c, r, ret, pb)
    [] c.cb = "network_opers_cb"          -> network_opers_cb(c, r, ret, pb)
    [] c.cb = "network_pref_opers_cb"     -> network_pref_opers_cb(c, r, ret, pb)
    [] c.cb = "network_pref_num_cb"       -> network_pref_num_cb(c, r, ret, pb)
    [] c.cb = "network_ownnumbers_cb"     -> network_ownnumbers_cb(c, r, ret, pb)
    [] c.cb = "phonebook_find_cb"         -> phonebook_find_cb(c, r, ret, pb)
    [] c.cb = "phonebook_read_cb"         -> phonebook_read_cb(c, r, ret, pb)
    [] c.cb = "phonebook_readrg_cb"       -> phonebook_readrg_cb(c, r, ret, pb)
    [] c.cb = "phonebook_write_cb"        -> phonebook_write_cb(c, r, ret, pb)
    [] c.cb = "phonebook_delete_cb"       -> phonebook_delete_cb(c, r, ret, pb)
    [] c.cb = "phonebook_get_support_cb"  -> phonebook_get_support_cb(c, r, ret, pb)
    [] c.cb = "phonebook_list_storage_cb" -> phonebook_list_storage_cb(c, r, ret, pb)
    [] c.cb = "get_imsi_cb"               -> get_imsi_cb(c, r, ret, pb)
    [] c.cb = "sms_list_cb"               -> sms_list_cb(c, r, ret, pb)
    [] c.cb = "sms_read_cb"               -> sms_read_cb(c, r, ret, pb)
    [] c.cb = "sms_send_cb"               -> sms_send_cb(c, r, ret, pb)
    [] c.cb = "sms_write_cb"              -> sms_write_cb(c, r, ret, pb)
    [] c.cb = "sms_delete_cb"             -> sms_delete_cb(c, r, ret, pb)
    [] c.cb = "usock_cpms_cb"             -> usock_cpms_cb(c, r, ret, pb)
    [] c.cb = "usock_get_smsc_cb"         -> usock_get_smsc_cb(c, r, ret, pb)
    [] OTHER                              -> null_cmd_cb(c, r, ret, pb)

\* RETRIEVE_FIND and RETRIEVE_READRG: as many records as the client asks for
\* are allocated, those of the list are copied.  Each is then given to free(),
\* which aborts: the address is not one malloc returned but one inside a chunk
\* of talloc.
Retrieve(sub, list, num, pb) ==
  IF pb[list] > 0 THEN Killed(pb)
  ELSE Send(Reply("PHONEBOOK", sub, 0, num, TRUE, "records"), pb)
=============================================================================
