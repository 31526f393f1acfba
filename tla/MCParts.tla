------------------------------ MODULE MCParts -------------------------------
(* Parts of the two programs that are models of their own, one per behaviour. *)
EXTENDS Llparse, Startup, SmsPdu, ClientEvents, Dm2Devices, Dm1, Glamo

VARIABLE unit \* which part moves

gsmVars   == <<llparseVars, startupVars, pduVars, eventVars>>
partsVars == <<gsmVars, deviceVars, dm1Vars, glamoVars, unit>>

MCInit ==
  /\ unit \in {"lines", "startup", "pdu", "events", "gps", "motion",
              "testlets", "sensors", "graphics"}
  /\ LlparseInit /\ StartupInit /\ PduInit /\ EventsInit /\ DevicesInit /\ Dm1Init /\ GlamoInit
  /\ unit # "sensors" => \A n \in 1 .. 2 : chips[n].state = "there"
  /\ unit # "gps" => clock = 0

MCNext ==
  \/ /\ unit = "lines" /\ LlparseNext
     /\ UNCHANGED <<startupVars, pduVars, eventVars, deviceVars, dm1Vars, glamoVars, unit>>
  \/ /\ unit = "startup" /\ StartupNext
     /\ UNCHANGED <<llparseVars, pduVars, eventVars, deviceVars, dm1Vars, glamoVars, unit>>
  \/ /\ unit = "pdu" /\ PduNext
     /\ UNCHANGED <<llparseVars, startupVars, eventVars, deviceVars, dm1Vars, glamoVars, unit>>
  \/ /\ unit = "events" /\ EventsNext
     /\ UNCHANGED <<llparseVars, startupVars, pduVars, deviceVars, dm1Vars, glamoVars, unit>>
  \/ /\ (unit = "gps" /\ GpsNext) \/ (unit = "motion" /\ MotionNext)
     /\ UNCHANGED <<gsmVars, dm1Vars, glamoVars, unit>>
  \/ /\ (unit = "testlets" /\ TestletNext /\ UNCHANGED sensorVars)
           \/ (unit = "sensors" /\ SensorNext /\ UNCHANGED testletVars)
     /\ UNCHANGED <<gsmVars, deviceVars, glamoVars, unit>>
  \/ /\ unit = "graphics" /\ GlamoNext
     /\ UNCHANGED <<gsmVars, deviceVars, dm1Vars, unit>>

MCSpec == MCInit /\ [][MCNext]_partsVars
-----------------------------------------------------------------------------
\* Lines below, at and above the limit of a buffer of two bytes, one that looks
\* like a prompt at first, and a prompt.
Line(t) == [kind |-> "line", text |-> t]
Prompt  == [kind |-> "prompt", text |-> <<>>]
MCMessages == {Line(<<"x">>), Line(<<">", "y">>), Line(<<"x", "y", "x">>),
               Line(<<"x", "x", "y", "y", "x">>), Prompt}

\* Command lines: usual ones, waiting for the modem or not, with names of plugins,
\* and two that are refused.
MCOptions ==
  LET usual == [device |-> TRUE, help |-> FALSE, bps |-> 115200, machine |-> "", vendor |-> "",
                wait |-> -1, daemon |-> FALSE]
  IN  {usual, [usual EXCEPT !.wait = 0], [usual EXCEPT !.wait = 1, !.daemon = TRUE],
       [usual EXCEPT !.machine = "tihtc", !.vendor = "bcm"],
       [usual EXCEPT !.device = FALSE], [usual EXCEPT !.bps = 1200]}
MCHardware  == {"HTC Magician", ""}
MCCpiTexts  == {<<>>, <<"(", "0", "-", "3", ")">>, <<"(", "0", "-", "1", ")">>, <<"(", "0", ",", "2", ")">>}
MCCpmbTexts == {<<>>, <<"1", ",", "1">>,
                <<"1", ",", "1", ",", "\"", "9", "\"", ",", "1", ",", "\"", "V", "\"">>}
MCOperators == {[mcc |-> 262, mnc |-> n] : n \in {1, 2}}
MCOpNames   == {<<"o">>, <<"l", "o", "n", "g", "n">>}
MCLists ==
  UNION {[1 .. n -> {[type |-> "EMPTY"], [type |-> "NUMERIC", numeric |-> 3],
                     [type |-> "NUMERIC", numeric |-> 12], [type |-> "STRING", string |-> <<>>],
                     [type |-> "STRING", string |-> <<",", "1">>],
                     [type |-> "RANGE", item |-> <<<<1, 12>>>>]}] : n \in 1 .. 3}

\* All short texts of two septets that differ in every bit but one, and texts around
\* two blocks of eight; messages with every coding scheme, cut at every octet.
MCTexts == UNION {[1 .. n -> {1, 127}] : n \in 0 .. 4}
             \cup {[i \in 1 .. n |-> (i * k) % 128] : n \in 5 .. 17, k \in {1, 37, 85}}
MCNumbers == {[plus |-> p, digits |-> d] : p \in BOOLEAN, d \in {<<1>>, <<1, 2>>, <<9, 8, 7>>}}
MCDeliver(pid, dcs, type) ==
  <<1, 0, 4, 3, type, 33, 243, pid, dcs, 0, 0, 0, 0, 0, 0, 0, 2, 65, 66, 0, 0>>
MCPdus ==
  {MCDeliver(0, dcs, 145) : dcs \in 0 .. 255} \cup {MCDeliver(95, 0, 208)}
    \cup {<<0, 6, 7, 2, 145, 33, 0, 0, 0, 0, 0, 0, 0, 0, 0, 0, 0, 0, 0, 0, 48>>}
    \cup {SubSeq(MCDeliver(0, 0, 145), 1, n) : n \in 3 .. 20}
    \cup {SubSeq(<<0, 17, 0, 2, 145, 33, 0, 0, 170, 2, 65, 66>>, 1, n) : n \in 3 .. 12}
MCBroadcasts == {[i \in 1 .. n |-> ((i * 37) % 127) + 1] : n \in {0, 1, 7, 8, 40, 93}}

MCEvents == {[type |-> "NETREG", arg |-> 1], [type |-> "NETREG", arg |-> 5],
             [type |-> "OUT_STATUS", arg |-> "ALERT"], [type |-> "CMS_ERROR", arg |-> 4]}
MCTypedLines == {<<>>, <<"AT">>, <<"AT+CPBW", "Doe">>}

\* Reports of weak and strong satellites, one out of range, one at the limits.
MCReports ==
  LET Sat(p, n) == [prn |-> p, sn |-> n]
  IN  {<<Sat(1, 40)>>, <<Sat(1, 20), Sat(2, 38)>>, <<Sat(3, 25), Sat(1, 5)>>,
       <<Sat(9, 10), Sat(2, 40)>>, <<Sat(2, 39), Sat(4, 40)>>}
MCAxial == {<<"in", "in", "in">>, <<"out", "in", "in">>, <<"zero", "in", "in">>}

\* GPS lines around the limit of a strong satellite, as the other numbers are too.
MCHeard ==
  LET Sat(n) == [prn |-> 50, el |-> 60, az |-> 45, cn |-> n]
  IN  {[kind |-> "GSV", sats |-> <<Sat(30), Sat(44)>>], [kind |-> "GSV", sats |-> <<Sat(0), Sat(45)>>],
       [kind |-> "RMC", sats |-> <<>>], [kind |-> "other", sats |-> <<>>]}
MCVoltages == {-1, 0, 7}
MCImages == {[format |-> "I420", width |-> 4, height |-> 2], [format |-> "YUY2", width |-> 2, height |-> 3]}
=============================================================================
