---------------------------- MODULE Unsolicited ----------------------------
(***************************************************************************)
(* Lines the modem sends on its own: the parsers of unsolicited.c,         *)
(* sms_cb.c and vendor_ti.c, the table they are found in, and the events   *)
(* made of error codes.                                                    *)
(*                                                                         *)
(* A line is a record: its prefix, the number of its comma-separated       *)
(* fields, the number n in the first field, and what the line after it     *)
(* holds ("none" if that has not come yet).  A parser gives                *)
(*   ret     its return code, "0" for success                              *)
(*   events  the events built, each for the clients that subscribed to it  *)
(*   cmds    the texts of the commands submitted (gsmd_simplecmd)          *)
(*   cipher  the ciphering flags of dev_state                              *)
(*   alive   FALSE if the parser kills the daemon                          *)
(***************************************************************************)
EXTENDS Integers, Sequences

Event(sub, n, text) == [type |-> "EVENT", sub |-> sub, id |-> 0, n |-> n, last |-> TRUE, text |-> text]

Parse(ret, events, cipher) ==
  [ret |-> ret, events |-> events, cmds |-> <<>>, cipher |-> cipher, alive |-> TRUE]

Built(sub, n, text, cipher) == Parse("0", <<Event(sub, n, text)>>, cipher)
Malformed(cipher)           == Parse("EINVAL", <<>>, cipher)
Ignored(cipher)             == Parse("0", <<>>, cipher)
-----------------------------------------------------------------------------
\* unsolicited.c.
ring_parse(l, cipher) == Built("IN_CALL", 0, "unspec", cipher)

\* n is the kind of the call here: GPRS calls give no event.
cring_parse(l, cipher) ==
  IF l.n = "GPRS" THEN Ignored(cipher) ELSE Built("IN_CALL", 0, l.n, cipher)

\* Registered at home (1) or roaming (5): sms_cb_network_init.
creg_parse(l, cipher) ==
  IF l.fields = 2 THEN Malformed(cipher)
  ELSE [Built("NETREG", l.n, "state", cipher) EXCEPT
          !.cmds = IF l.n \in {1, 5} THEN <<"+CSMS=0", "+CNMI=2,1,2,1,0">> ELSE <<>>]

\* The number is taken from the beginning of the line, so that it begins with
\* the prefix.
ccwa_parse(l, cipher) ==
  IF l.fields < 2 THEN Malformed(cipher) ELSE Built("CALL_WAIT", 0, "prefix and number", cipher)

\* Supplementary services, advice of charge, GPRS events: accepted and ignored.
cusd_parse(l, cipher)  == Ignored(cipher)
cccm_parse(l, cipher)  == Ignored(cipher)
cgev_parse(l, cipher)  == Ignored(cipher)
cgreg_parse(l, cipher) == Ignored(cipher)

clip_parse(l, cipher) == IF l.fields < 2 THEN Malformed(cipher) ELSE Built("IN_CLIP", 0, "number", cipher)
colp_parse(l, cipher) == IF l.fields < 2 THEN Malformed(cipher) ELSE Built("OUT_COLP", 0, "number", cipher)

\* Quarters of an hour.
ctzv_parse(l, cipher) ==
  IF l.n < -48 \/ l.n > 48 THEN Malformed(cipher) ELSE Built("TIMEZONE", l.n, "zone", cipher)

\* Names go to the operator cache (OperatorCache), never to a client.
copn_parse(l, cipher) == Ignored(cipher)
-----------------------------------------------------------------------------
\* sms_cb.c.  A message stored by the modem is told by its place; one that
\* comes inline is in the next line, which the parser asks for.
Stored(l, sub, cipher) ==
  IF l.fields < 2 THEN Malformed(cipher) ELSE Built(sub, l.n, "stored", cipher)

Inlined(l, sub, cipher) ==
  CASE l.second = "none" -> Parse("EAGAIN", <<>>, cipher)
    [] l.second = "good" -> Built(sub, 0, "inlined", cipher)
    [] OTHER             -> Malformed(cipher)

cmti_parse(l, cipher) == Stored(l, "IN_SMS", cipher)
cmt_parse(l, cipher)  == IF l.fields < 2 THEN Malformed(cipher) ELSE Inlined(l, "IN_SMS", cipher)
cbmi_parse(l, cipher) == Stored(l, "IN_CBM", cipher)
cbm_parse(l, cipher)  == Inlined(l, "IN_CBM", cipher)
cdsi_parse(l, cipher) == Stored(l, "IN_DS", cipher)
cds_parse(l, cipher)  == Inlined(l, "IN_DS", cipher)
-----------------------------------------------------------------------------
\* vendor_ti.c.  A line with one field is freed with free(), although it was
\* allocated by talloc.
csq_parse(l, cipher) ==
  IF l.fields < 2 THEN [Parse("EIO", <<>>, cipher) EXCEPT !.alive = FALSE]
  ELSE Built("SIGNAL", l.n, "quality", cipher)

\* The number of the first field is read from the beginning of the line, where
\* the prefix gives 0: the flag is cleared whatever the modem reports.
FirstNumber(l) == 0
cpri_parse(l, cipher) ==
  IF l.fields >= 2 THEN Built("CIPHER", 0, "state", cipher)
  ELSE Ignored(CASE FirstNumber(l) = 0 -> cipher \ {"active"}
                 [] FirstNumber(l) = 1 -> cipher \cup {"active"}
                 [] FirstNumber(l) = 2 -> cipher \cup {"disabled"}
                 [] OTHER              -> cipher)

cpi_parse(l, cipher) ==
  IF l.fields < 4 THEN Parse("EIO", <<>>, cipher) ELSE Built("OUT_STATUS", l.n, "progress", cipher)

ti_ctzv_parse(l, cipher) == Ignored(cipher)
-----------------------------------------------------------------------------
(***************************************************************************)
(* The table.  Arrays are put before what is there already, and the first  *)
(* entry whose prefix the line begins with is taken.                       *)
(***************************************************************************)
gsm0707_unsolicit ==
  <<"RING", "+CRING", "+CREG", "+CCWA", "+CUSD", "+CCCM", "+CGEV", "+CGREG",
    "+CLIP", "+COLP", "+CTZV", "+COPN">>

gsm0705_unsolicit == <<"+CMTI", "+CMT", "+CBMI", "+CBM", "+CDSI", "+CDS">>

ticalypso_unsolicit == <<"%CSQ", "%CPRI", "%CPI", "%CTZV">>

unsolicited_register_array(table, array) == array \o table

\* unsolicited_init; vendor is the array of the vendor plugin.
unsolicited_init(vendor) ==
  unsolicited_register_array(unsolicited_register_array(<<>>, gsm0707_unsolicit), vendor)

\* The prefixes that begin with another one (strncmp with the shorter length).
BeginsWith(line, prefix) ==
  line = prefix \/ <<line, prefix>> \in {<<"+CMTI", "+CMT">>, <<"+CBMI", "+CBM">>, <<"+CDSI", "+CDS">>}

Matches(table, line) == {i \in DOMAIN table : BeginsWith(line, table[i])}
Found(table, line) ==
  LET hits == Matches(table, line)
  IN  IF hits = {} THEN "none" ELSE table[CHOOSE i \in hits : \A j \in hits : i <= j]

\* The call through i->parse.
Parser(prefix, l, cipher) ==
  CASE prefix = "RING"   -> ring_parse(l, cipher)
    [] prefix = "+CRING" -> cring_parse(l, cipher)
    [] prefix = "+CREG"  -> creg_parse(l, cipher)
    [] prefix = "+CCWA"  -> ccwa_parse(l, cipher)
    [] prefix = "+CUSD"  -> cusd_parse(l, cipher)
    [] prefix = "+CCCM"  -> cccm_parse(l, cipher)
    [] prefix = "+CGEV"  -> cgev_parse(l, cipher)
    [] prefix = "+CGREG" -> cgreg_parse(l, cipher)
    [] prefix = "+CLIP"  -> clip_parse(l, cipher)
    [] prefix = "+COLP"  -> colp_parse(l, cipher)
    [] prefix = "+CTZV"  -> ctzv_parse(l, cipher)
    [] prefix = "+COPN"  -> copn_parse(l, cipher)
    [] prefix = "+CMTI"  -> cmti_parse(l, cipher)
    [] prefix = "+CMT"   -> cmt_parse(l, cipher)
    [] prefix = "+CBMI"  -> cbmi_parse(l, cipher)
    [] prefix = "+CBM"   -> cbm_parse(l, cipher)
    [] prefix = "+CDSI"  -> cdsi_parse(l, cipher)
    [] prefix = "+CDS"   -> cds_parse(l, cipher)
    [] prefix = "%CSQ"   -> csq_parse(l, cipher)
    [] prefix = "%CPRI"  -> cpri_parse(l, cipher)
    [] prefix = "%CPI"   -> cpi_parse(l, cipher)
    [] prefix = "%CTZV"  -> ti_ctzv_parse(l, cipher)
    [] OTHER             -> Parse("ENOENT", <<>>, cipher)

unsolicited_parse(table, l, cipher) == Parser(Found(table, l.prefix), l, cipher)
-----------------------------------------------------------------------------
(***************************************************************************)
(* Error codes.  Those of a missing PIN become a PIN event with the type   *)
(* of the PIN; four more of the same list give nothing.                    *)
(***************************************************************************)
PinOf == [cme \in {5, 6, 7, 11, 12, 17, 18, 40, 41, 42, 43, 44, 45, 46, 47} |->
            CASE cme = 5 -> 3 [] cme = 6 -> 4 [] cme = 7 -> 5
              [] cme = 11 -> 1 [] cme = 12 -> 2 [] cme = 17 -> 6 [] cme = 18 -> 7
              [] OTHER -> cme - 32]

errors_creating_events == DOMAIN PinOf \cup {0, 1, 2, 10}

generate_event_from_cme(cme) ==
  IF cme \notin errors_creating_events THEN <<Event("IN_ERROR", cme, "cme")>>
  ELSE IF cme \in DOMAIN PinOf THEN <<Event("PIN", PinOf[cme], "pin")>> ELSE <<>>

generate_event_from_cms(cms) == <<Event("IN_ERROR", cms, "cms")>>
=============================================================================
