------------------------------ MODULE SmsPdu --------------------------------
(***************************************************************************)
(* Short messages on their way: the text and the number a client gives     *)
(* (libgsmd/libgsmd_sms.c), the bytes gsmd gives the modem and what it     *)
(* makes of the bytes the modem gives (gsmd/sms_pdu.c).  The modem keeps a *)
(* message as it got it, or brings one of the network.  A character of C   *)
(* is unsigned, as on the ARM.                                             *)
(***************************************************************************)
EXTENDS Integers, SequencesExt

CONSTANTS
  Texts,     \* texts a client types: sequences of septets
  Numbers,   \* numbers: records [plus, digits]
  PackSize,  \* sizeof(dest->data): 141 in C
  ADDR_MAXLEN, DATA_MAXLEN, \* 32 and 164 in C
  CBM_SIZE,  \* 88 in C
  Pdus,      \* messages of the network: sequences of bytes
  Broadcasts \* texts of cell broadcasts

ASSUME PduAssumption ==
  /\ Texts \subseteq Seq(0 .. 127) /\ Broadcasts \subseteq Seq(1 .. 127)
  /\ \A n \in Numbers : n.plus \in BOOLEAN /\ n.digits \in Seq(0 .. 9)
  /\ Pdus \subseteq Seq(0 .. 255)

VARIABLES
  typed,   \* what the client was given
  sms,     \* lgsm_sms: what it sends, or "refused"
  memory,  \* what the modem keeps
  message, \* gsmd_sms_list, gsmd_cbm: what gsmd made of the bytes
  seen     \* the text that is shown

pduVars == <<typed, sms, memory, message, seen>>

Nothing == [shown |-> FALSE, text |-> <<>>]

ALPHABET_DEFAULT == 0
ALPHABET_8BIT    == 4
ALPHABET_UCS2    == 64
SUBMIT           == 1
-----------------------------------------------------------------------------
(***************************************************************************)
(* The client: septets in octets.                                          *)
(***************************************************************************)
\* Every eighth character lies wholly in the octet before.  When the text ends
\* with a seventh, the index has passed its end.
packing_7bit_character(text) ==
  LET starts == SelectSeq([i \in DOMAIN text |-> i], LAMBDA i : (i - 1) % 8 # 7)
      next(i) == IF i = Len(text) THEN 0 ELSE text[i + 1]
      octets  == [j \in DOMAIN starts |->
                    LET shift == (starts[j] - 1) % 8
                    IN  (text[starts[j]] \div 2^shift + next(starts[j]) * 2^(7 - shift)) % 256]
      cut     == Len(octets) > PackSize + 1
  IN  [data   |-> IF cut THEN SubSeq(octets, 1, PackSize + 1) ELSE octets,
       length |-> IF cut THEN starts[PackSize + 2] - 1
                  ELSE IF Len(text) % 8 = 7 THEN Len(text) + 1 ELSE Len(text)]

\* Octets at and after bit 7 * i; nothing of the second is taken at shifts 0, 1.
Septet(data, i) ==
  LET k == (7 * i) % 8
      b == (7 * i) \div 8 + 1
  IN  (data[b] \div 2^k + (IF k < 2 THEN 0 ELSE data[b + 1] * 2^(8 - k))) % 128

unpacking_7bit_character(payload) ==
  LET first == IF payload.has_header THEN (payload.data[1] * 8 + 14) \div 7 ELSE 0
  IN  [i \in 1 .. (IF payload.length > first THEN payload.length - first ELSE 0) |->
         Septet(payload.data, first + i - 1)]

\* Up to a zero, of 93 at most.
cbm_unpacking_7bit_character(data) ==
  LET end == {i \in 0 .. 92 : Septet(data, i) = 0}
  IN  [i \in 1 .. (IF end = {} THEN 93 ELSE Min(end)) |-> Septet(data, i - 1)]

\* lgsm_number2addr: the plus becomes the type.
International == 145
Unknown == 129
lgsm_number2addr(number) ==
  [type |-> IF number.plus THEN International ELSE Unknown, number |-> number.digits]

Given == [text |-> <<>>, number |-> [plus |-> FALSE, digits |-> <<>>], by |-> "none"]

lgsm_sms_send(number, text) ==
  /\ typed.by = "none"
  /\ typed' = [text |-> text, number |-> number, by |-> "client"]
  /\ sms' = IF Len(number.digits) + (IF number.plus THEN 1 ELSE 0) > ADDR_MAXLEN
            THEN [refused |-> TRUE]
            ELSE packing_7bit_character(text) @@ [refused |-> FALSE, alpha |-> ALPHABET_DEFAULT,
                                                   addr |-> lgsm_number2addr(number)]
  /\ UNCHANGED <<memory, message, seen>>
-----------------------------------------------------------------------------
(***************************************************************************)
(* gsmd: octets of a message.                                              *)
(***************************************************************************)
sms_number_bytelen(len) == (len + 1) \div 2
sms_data_bytelen(scheme, len) ==
  CASE scheme = ALPHABET_DEFAULT -> (len * 7 + 7) \div 8
    [] scheme = ALPHABET_8BIT -> len
    [] scheme = ALPHABET_UCS2 -> len * 2
    [] OTHER -> 0

\* Two digits an octet, the first one below; an odd one ends with 0xf.
Swapped(digits) ==
  [i \in 1 .. sms_number_bytelen(Len(digits)) |->
     digits[2 * i - 1] + 16 * (IF 2 * i > Len(digits) THEN 15 ELSE digits[2 * i])]

sms_pdu_make_smssubmit_octets(src) ==
  <<0, SUBMIT, 0, Len(src.addr.number), src.addr.type>> \o Swapped(src.addr.number)
    \o <<0, src.alpha, Len(src.data)>> \o src.data
sms_pdu_make_smssubmit(src) ==
  <<0, SUBMIT, 0, Len(src.addr.number), src.addr.type>> \o Swapped(src.addr.number)
    \o <<0, src.alpha, src.length % 256>>
    \o [i \in 1 .. sms_data_bytelen(src.alpha, src.length % 256) |->
          IF i \in DOMAIN src.data THEN src.data[i] ELSE 0]

\* AT+CMGW: the modem keeps it.
Write ==
  /\ memory = <<>> /\ typed.by = "client" /\ ~ sms.refused
  /\ memory' = sms_pdu_make_smssubmit(sms)
  /\ UNCHANGED <<typed, sms, message, seen>>

\* The network brings a message.
Bring(pdu) ==
  /\ memory = <<>> /\ typed.by = "none"
  /\ typed' = [Given EXCEPT !.by = "network"]
  /\ memory' = pdu
  /\ UNCHANGED <<sms, message, seen>>

\* Of an address: letters in septets, or digits in nibbles.
sms_address2ascii(src) ==
  LET L == src[1]
      alphanumeric == (src[2] \div 16) % 8 = 5
      letters == {i \in 0 .. L : (i * 7 + 3) \div 4 < L}
  IN  [type |-> src[2],
       number |-> IF alphanumeric
                  THEN [i \in 1 .. Cardinality(letters) |-> Septet(SubSeq(src, 3, Len(src)), i - 1)]
                  ELSE [i \in 1 .. L |-> (src[2 + (i + 1) \div 2] \div (IF i % 2 = 1 THEN 1 ELSE 16)) % 16]]

\* sms_pdu_decode_dcs: what the coding scheme says by its groups.
Plain == [alphabet |-> 0, msg_class |-> 4, mwi_group |-> "NONE", mwi_kind |-> 3, mwi_active |-> FALSE]
Class(dcs) == dcs % 4
sms_pdu_decode_dcs(dcs) ==
  LET group == dcs \div 16
      bits  == (dcs \div 4) % 4
      read  == CASE group <= 3  -> [Plain EXCEPT !.alphabet = bits,
                                      !.msg_class = IF group % 2 = 1 THEN Class(dcs) ELSE 4]
                 [] group = 15  -> [Plain EXCEPT !.alphabet = bits % 2, !.msg_class = Class(dcs),
                                      !.mwi_group = "NONE_1111"]
                 [] group \in 12 .. 14 ->
                      [Plain EXCEPT !.alphabet = IF group = 14 THEN 2 ELSE 0,
                         !.mwi_group = IF group = 12 THEN "DISCARD" ELSE "STORE",
                         !.mwi_active = bits \div 2 = 1, !.mwi_kind = Class(dcs)]
                 [] OTHER -> Plain
  IN  [read EXCEPT !.alphabet = IF @ > 2 THEN 0 ELSE @]

\* The other reading of the same octet, the one the length goes by.
Known(dcs) == dcs \div 16 \in (0 .. 3) \cup (12 .. 15)
CodingScheme(dcs) ==
  CASE dcs \div 16 = 13 -> ALPHABET_DEFAULT
    [] dcs \div 16 = 14 -> ALPHABET_UCS2
    [] dcs \div 16 = 15 -> IF (dcs \div 4) % 2 = 1 THEN ALPHABET_8BIT ELSE ALPHABET_DEFAULT
    [] OTHER -> 4 * ((dcs \div 4) % 4)

\* The octets of the text, from the octet of its length on.
Payload(s, scheme) ==
  LET n == sms_data_bytelen(scheme, s[1])
      fits == Len(s) >= 1 + n /\ n <= DATA_MAXLEN
  IN  [fits |-> fits, length |-> s[1], coding_scheme |-> scheme,
       data |-> IF fits THEN SubSeq(s, 2, 1 + n) ELSE <<>>]

Refused == [kind |-> "refused"]
Read(kind, flags, address, payload, more) ==
  IF payload.fits THEN [kind |-> kind, has_header |-> (flags \div 64) % 2 = 1,
                        addr |-> sms_address2ascii(address), payload |-> payload] @@ more
  ELSE Refused

\* SMS-DELIVER: flags, address, protocol, coding, seven octets of time, text.
Deliver(s) ==
  LET from == 4 + sms_number_bytelen(s[2])
      pid  == s[from]
      dcs  == s[from + 1]
      read == sms_pdu_decode_dcs(dcs)
  IN  IF Len(s) < 3 \/ Len(s) < 13 + sms_number_bytelen(s[2]) \/ s[2] > ADDR_MAXLEN \/ ~ Known(dcs)
      THEN Refused
      ELSE Read("deliver", s[1], SubSeq(s, 2, Len(s)), Payload(SubSeq(s, from + 9, Len(s)), CodingScheme(dcs)),
                [dcs |-> read, raw |-> dcs,
                 is_voicemail |-> pid = 95 \/ (read.mwi_kind = 0 /\ read.mwi_group \in {"DISCARD", "STORE"})])

\* SMS-SUBMIT: flags, reference, address, protocol, coding, one octet of validity
\* if there is one of any kind, text.
Submitted(s) ==
  LET from == 5 + sms_number_bytelen(s[3])
      vpf  == (s[1] \div 8) % 4
      dcs  == s[from + 1]
  IN  IF Len(s) < 4 \/ Len(s) < 8 + sms_number_bytelen(s[3]) \/ s[3] > ADDR_MAXLEN \/ ~ Known(dcs)
      THEN Refused
      ELSE Read("submit", s[1], SubSeq(s, 3, Len(s)),
                Payload(SubSeq(s, from + (IF vpf = 0 THEN 2 ELSE 3), Len(s)), CodingScheme(dcs)), <<>>)

\* SMS-STATUS-REPORT: no text; the status is taken from the last octet.
Status(s) ==
  IF Len(s) < 3 \/ Len(s) < 13 + sms_number_bytelen(s[3]) \/ s[3] > ADDR_MAXLEN THEN Refused
  ELSE Read("status", s[1], SubSeq(s, 3, Len(s)),
            [fits |-> TRUE, length |-> 0, coding_scheme |-> Last(s), data |-> <<>>], [index |-> s[2]])

sms_pdu_to_msg(src, pdulen) ==
  IF Len(src) < 1 \/ Len(src) < 1 + src[1] + pdulen \/ pdulen < 1 THEN Refused
  ELSE LET s == SubSeq(src, 2 + src[1], Len(src))
       IN  CASE s[1] % 4 = 0 -> Deliver(s)
             [] s[1] % 4 = 1 -> Submitted(s)
             [] s[1] % 4 = 2 -> Status(s)
             [] OTHER -> Refused

\* The line before the octets says how many they are without the address of the
\* centre.
Decode ==
  /\ memory # <<>> /\ typed.by # "broadcast" /\ message.kind = "none"
  /\ message' = sms_pdu_to_msg(memory, Len(memory) - 1 - memory[1])
  /\ UNCHANGED <<typed, sms, memory, seen>>
-----------------------------------------------------------------------------
(***************************************************************************)
(* Cell broadcasts.                                                        *)
(***************************************************************************)
\* The network packs the text and fills the page with zeros.
Broadcast(text, head) ==
  /\ memory = <<>> /\ typed.by = "none"
  /\ typed' = [Given EXCEPT !.by = "broadcast", !.text = text]
  /\ LET data == packing_7bit_character(text).data
     IN  memory' = head \o [i \in 1 .. CBM_SIZE - 6 |-> IF i \in DOMAIN data THEN data[i] ELSE 0]
  /\ UNCHANGED <<sms, message, seen>>

cbs_pdu_to_msg ==
  /\ typed.by = "broadcast" /\ message.kind = "none"
  /\ message' = IF Len(memory) # CBM_SIZE THEN Refused
                ELSE [kind |-> "cbm", scope |-> memory[1] \div 64,
                      msg_code |-> (memory[1] * 16 + memory[2] \div 16) % 1024,
                      update_num |-> memory[2] % 16, msg_id |-> memory[3] * 256 + memory[4],
                      coding_scheme |-> 4 * ((memory[5] \div 16) % 4), language |-> memory[5] % 16,
                      pages |-> memory[6] % 16, page |-> memory[6] \div 16,
                      data |-> SubSeq(memory, 7, Len(memory))]
  /\ UNCHANGED <<typed, sms, memory, seen>>

\* The clients show messages in the default alphabet only.
Show ==
  /\ seen = Nothing
  /\ \/ /\ message.kind \in {"deliver", "submit"} /\ message.payload.coding_scheme = ALPHABET_DEFAULT
        /\ seen' = [shown |-> TRUE, text |-> unpacking_7bit_character(message.payload @@ [has_header |-> message.has_header])]
     \/ /\ message.kind = "cbm" /\ message.coding_scheme = ALPHABET_DEFAULT
        /\ seen' = [shown |-> TRUE, text |-> cbm_unpacking_7bit_character(message.data)]
  /\ UNCHANGED <<typed, sms, memory, message>>
-----------------------------------------------------------------------------
PduInit ==
  /\ typed = Given /\ sms = [refused |-> TRUE] /\ memory = <<>>
  /\ message = [kind |-> "none"] /\ seen = Nothing

Head6 == {<<64, 17, 0, 50, 1, 17>>, <<255, 240, 1, 0, 15, 18>>}
PduNext ==
  \/ \E number \in Numbers, text \in Texts : lgsm_sms_send(number, text)
  \/ \E pdu \in Pdus : Bring(pdu)
  \/ \E text \in Broadcasts, head \in Head6 : Broadcast(text, head)
  \/ Write \/ Decode \/ cbs_pdu_to_msg \/ Show
-----------------------------------------------------------------------------
(***************************************************************************)
(* Properties.                                                             *)
(***************************************************************************)
\* A message that is written to the memory and read again, or broadcast, shows the
\* text it was written with and has its number; a text with a length of 7 modulo 8
\* gets a character more (libgsmd_sms.c:261-267), an empty one is refused
\* (sms_pdu.c:173).
TextArrives ==
  /\ typed.by \in {"client", "broadcast"} /\ seen.shown /\ Len(typed.text) % 8 # 7 =>
       seen.text = typed.text
  /\ typed.by = "client" /\ typed.text # <<>> /\ message.kind # "none" =>
       message.kind = "submit" /\ message.addr = lgsm_number2addr(typed.number)

\* The coding scheme is read twice: for the alphabet and for the length of the text
\* (sms_pdu.c:131-149, sms_pdu.c:345-400); both agree, except for UCS2 and for the
\* messages that are to be discarded.
ReadingsAgree ==
  message.kind = "deliver" /\ message.dcs.alphabet # 2 /\ message.dcs.mwi_group # "DISCARD"
    /\ (message.raw \div 16 > 3 \/ (message.raw \div 4) % 4 # 3) =>
      message.payload.coding_scheme = 4 * message.dcs.alphabet

\* Texts in the default alphabet are kept on their way out, in the memory and on
\* their way back, and the octets of any message are read by the alphabet it has.
TextKept == TextArrives /\ ReadingsAgree

\* A message in UCS2, which is 2 in bits 3 and 2 of the coding scheme ("bit 3 & bit 2",
\* usock.h:134), keeps its text (sms_pdu.c:135).
WideTextKept ==
  message.kind = "deliver" /\ message.dcs.alphabet = 2 /\ message.payload.length > 0 =>
    message.payload.data # <<>>
=============================================================================
