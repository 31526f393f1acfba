-------------------------------- MODULE Dm1 ---------------------------------
(***************************************************************************)
(* The DM1 tests: the testlets that main runs by name, one a process       *)
(* (gta02-dm1/user_space), and the test of the motion sensors in the boot  *)
(* loader (gta02-dm1/dm1-uboot/dm1_test/cmd_sensor.c), which drives their  *)
(* bus bit by bit.  The devices are external, and any call may fail.       *)
(***************************************************************************)
EXTENDS Integers, SequencesExt

CONSTANTS
  Heard,         \* what the GPS receiver says: [kind, sats]
  GPS_TEST_TIME, \* lines the GPS testlet looks at, 180 in C
  TouchSamples,  \* samples the touch panel testlet takes, 20 in C
  Voltages,      \* what a read of the battery may return; -1 if it fails
  VoltageReads,  \* how often it is read, 10 in C
  gta02_revision,
  MaxTestlets    \* bound: testlets that are run

ASSUME Dm1Assumption ==
  /\ Heard \subseteq [kind : {"GSV", "RMC", "other"}, sats : Seq([prn : Nat, el : Nat, az : Nat, cn : Nat])]
  /\ {GPS_TEST_TIME, TouchSamples, MaxTestlets} \subseteq Nat /\ Voltages \subseteq Int

VARIABLES
  testlet,   \* the one that runs, where it is, and what it counts
  console,   \* the active terminal and its mode
  lit,       \* the lights that are on, the vibrator too
  serial,    \* the line of the GPS receiver: "lines" or "bytes"
  pass,      \* GPS: a strong satellite
  verdict,   \* what was printed last
  trouble,   \* history: a call failed that the testlet does not look at, or stops at
  noted,     \* history: what the testlet has read
  ran,       \* history: how many have run
  chips,     \* the motion sensors: [state, regs]
  script,    \* what is left of the sensor test: tests, each a sequence of transfers
  intended   \* history: what was written to the registers of each sensor

testletVars == <<testlet, console, lit, serial, pass, verdict, trouble, noted, ran>>
sensorVars  == <<chips, script, intended>>
dm1Vars     == <<testletVars, sensorVars>>

Home == [vt |-> 1, mode |-> "text"]
NoTestlet == [name |-> "none", at |-> "", n |-> 0]
At(name, at) == testlet.name = name /\ testlet.at = at
To(at) == testlet' = [testlet EXCEPT !.at = at]
Over(said) == testlet' = NoTestlet /\ verdict' = said

\* The lights of a testlet, in the order it tries them.
Lights == [LED |-> <<"aux:red", "power:blue", "power:orange">>, VIBRATOR |-> <<"vibrator">>]
Needed == [KEY911 |-> 1, KEYPOWER |-> 1, TOUCHPANEL |-> TouchSamples]
-----------------------------------------------------------------------------
\* main (dm1): testlets without a body of their own are over at once, as is what has no
\* name of a testlet.
main_dm1(name) ==
  /\ testlet = NoTestlet /\ ran < MaxTestlets /\ ran' = ran + 1
  /\ testlet' = [name |-> name, at |-> "start", n |-> 0]
  /\ noted' = <<>> /\ pass' = FALSE /\ verdict' = ""
  /\ UNCHANGED <<console, lit, serial, trouble>>

\* led_test, vibrator_test: what the writes return is overwritten, but of the
\* last one.
Switched(light, on, ok) == IF ~ ok THEN lit ELSE IF on THEN lit \cup {light} ELSE lit \ {light}

LightOn ==
  /\ testlet.name \in DOMAIN Lights /\ testlet.at = "start"
  /\ \E ok \in BOOLEAN : /\ lit' = Switched(Lights[testlet.name][testlet.n + 1], TRUE, ok)
                         /\ trouble' = (trouble \/ ~ ok)
  /\ To("on")
  /\ UNCHANGED <<console, serial, pass, verdict, noted, ran>>

LightOff ==
  /\ testlet.name \in DOMAIN Lights /\ testlet.at = "on"
  /\ \E ok \in BOOLEAN :
       /\ lit' = Switched(Lights[testlet.name][testlet.n + 1], FALSE, ok)
       /\ trouble' = (trouble \/ ~ ok)
       /\ IF testlet.n + 1 < Len(Lights[testlet.name])
          THEN testlet' = [testlet EXCEPT !.at = "start", !.n = @ + 1] /\ UNCHANGED verdict
          ELSE Over(IF ok THEN "" ELSE "error")
  /\ UNCHANGED <<console, serial, pass, noted, ran>>

\* lcd_test: console_save may fail before the terminal is switched or after it, and
\* then lcd_test is over.
console_save ==
  /\ At("LCD", "start")
  /\ \/ /\ console' = [vt |-> 2, mode |-> "graphics"] /\ To("fb")
        /\ UNCHANGED <<verdict, trouble>>
     \/ Over("failed to save current console") /\ UNCHANGED <<console, trouble>>
     \/ /\ Over("failed to save current console") /\ trouble' = TRUE
        /\ console' = [console EXCEPT !.vt = 2]
  /\ UNCHANGED <<lit, serial, pass, noted, ran>>

console_restore_not == UNCHANGED console
console_restore == console' = Home

fb_open ==
  /\ At("LCD", "fb")
  /\ \/ To("colours") /\ UNCHANGED <<console, verdict>>
     \/ Over("failed to open fb") /\ console_restore
  /\ UNCHANGED <<lit, serial, pass, trouble, noted, ran>>

\* Red, green and blue; the terminal may refuse to be switched back.
lcd_end ==
  /\ At("LCD", "colours") /\ Over("")
  /\ \/ console_restore /\ UNCHANGED trouble
     \/ console' = [console EXCEPT !.mode = "text"] /\ trouble' = TRUE
  /\ UNCHANGED <<lit, serial, pass, noted, ran>>

\* key_press, touchpanel_test: wait for events; one that cannot be read ends the
\* process.
Input ==
  /\ testlet.name \in DOMAIN Needed
  /\ \/ /\ noted' = Append(noted, "input")
        /\ IF testlet.n + 1 = Needed[testlet.name] THEN Over("all read")
           ELSE testlet' = [testlet EXCEPT !.n = @ + 1] /\ UNCHANGED verdict
     \/ Over("error") /\ UNCHANGED noted
  /\ UNCHANGED <<console, lit, serial, pass, trouble, ran>>

\* battery_test: the mean of some reads, unless one fails.
battery_test ==
  /\ At("BATTERY", "start")
  /\ IF testlet.n < VoltageReads
     THEN \E v \in Voltages :
            IF v = -1 THEN Over("Fail") /\ UNCHANGED noted
            ELSE /\ noted' = Append(noted, v)
                 /\ testlet' = [testlet EXCEPT !.n = @ + 1] /\ UNCHANGED verdict
     ELSE /\ LET total == FoldLeft(+, 0, noted)
             IN  Over(IF total = 0 \/ total \div VoltageReads = 65536 THEN "Fail" ELSE "mV")
          /\ UNCHANGED noted
  /\ UNCHANGED <<console, lit, serial, pass, trouble, ran>>

\* Testlets that only write or print, and those without a body.
Quick ==
  /\ testlet # NoTestlet /\ testlet.name \notin {"LCD", "GPS", "BATTERY"} \cup DOMAIN Lights \cup DOMAIN Needed
  /\ Over("") /\ UNCHANGED <<console, lit, serial, pass, trouble, noted, ran>>
-----------------------------------------------------------------------------
(***************************************************************************)
(* The GPS testlet (gps.c).                                                *)
(***************************************************************************)
\* GPGSV: the fields behind the head, four a satellite; the first satellite that is
\* strong enough ends it.
Strong_enough == 45
Fields(sats) == FlattenSeq([i \in DOMAIN sats |-> <<sats[i].prn, sats[i].el, sats[i].az, sats[i].cn>>])
Field(s, v) ==
  IF s.found THEN s
  ELSE IF s.k + 1 >= 4 THEN [found |-> v >= Strong_enough, k |-> 0] ELSE [s EXCEPT !.k = @ + 1]
GPGSV_dm1(sats) == FoldLeft(Field, [found |-> FALSE, k |-> 0], Fields(sats)).found

\* ttydevice_setting: does nothing if the device refuses one of the settings.
ttydevice_setting(line, on, ok) == IF ~ ok THEN line ELSE IF on THEN "bytes" ELSE "lines"

poweron_process ==
  /\ At("GPS", "start")
  /\ (To("power") /\ UNCHANGED verdict) \/ Over("Power on failed")
  /\ UNCHANGED <<console, lit, serial, pass, trouble, noted, ran>>

\* The line is set for bytes and back for the first read, and for bytes again.
ColdStart ==
  /\ At("GPS", "power") /\ To("cold")
  /\ \E ok \in [1 .. 3 -> BOOLEAN] :
       /\ serial' = FoldLeft(LAMBDA line, i : ttydevice_setting(line, i # 2, ok[i]), serial, <<1, 2, 3>>)
       /\ trouble' = (trouble \/ \E i \in 1 .. 3 : ~ ok[i])
  /\ UNCHANGED <<console, lit, pass, verdict, noted, ran>>

\* A receiver that is silent when it has been stopped ends the test at once, and
\* its line stays as it is.
Stopped ==
  /\ At("GPS", "cold")
  /\ \/ \E ok \in BOOLEAN : /\ serial' = ttydevice_setting(serial, FALSE, ok)
                             /\ trouble' = (trouble \/ ~ ok) /\ To("verify") /\ UNCHANGED verdict
     \/ Over("Cold start testing failed 00") /\ trouble' = TRUE /\ UNCHANGED serial
  /\ UNCHANGED <<console, lit, pass, noted, ran>>

gps_nmea_verify ==
  /\ At("GPS", "verify")
  /\ \E s \in Heard : IF s.kind # "other" THEN To("check") /\ UNCHANGED verdict
                      ELSE Over("Cold start testing failed 01")
  /\ UNCHANGED <<console, lit, serial, pass, trouble, noted, ran>>

gps_nmea_check ==
  /\ At("GPS", "check")
  /\ IF pass \/ testlet.n = GPS_TEST_TIME
     THEN Over(IF pass THEN "Signal testing OK" ELSE "") /\ UNCHANGED <<pass, noted>>
     ELSE \E s \in Heard :
            /\ pass' = (s.kind = "GSV" /\ GPGSV_dm1(s.sats))
            /\ noted' = Append(noted, s)
            /\ testlet' = [testlet EXCEPT !.n = @ + 1] /\ UNCHANGED verdict
  /\ UNCHANGED <<console, lit, serial, trouble, ran>>
-----------------------------------------------------------------------------
(***************************************************************************)
(* The motion sensors (cmd_sensor.c).  A transfer clocks bits out, the     *)
(* highest first, and in; the sensor that is selected takes them.          *)
(***************************************************************************)
lis_spi_snd(word, bitlen) == [i \in 1 .. bitlen |-> (word \div (2 ^ (bitlen - i))) % 2]
lis_spi_rev(bits) == FoldLeft(LAMBDA t, b : (2 * t + b) % (2 ^ 16), 0, bits)

\* What a sensor makes of the bits: a read or a write, the register, the data.
Frame(bits) ==
  [read |-> bits[1] = 1, reg |-> lis_spi_rev(SubSeq(bits, 3, 8)), data |-> lis_spi_rev(SubSeq(bits, 9, Len(bits)))]

lis_reg_write(c, lisno, reg, data) ==
  LET f == Frame(lis_spi_snd(((reg % 64) * 256) + (data % 256), 16))
  IN  IF c[lisno].state = "there" /\ ~ f.read THEN [c EXCEPT ![lisno].regs[f.reg] = f.data] ELSE c

lis_reg_read(c, lisno, reg) ==
  LET f == Frame(lis_spi_snd(128 + (reg % 64), 8))
  IN  CASE c[lisno].state = "there"  -> lis_spi_rev(lis_spi_snd(c[lisno].regs[f.reg], 8))
        [] c[lisno].state = "open"   -> lis_spi_rev([i \in 1 .. 8 |-> 1])
        [] c[lisno].state = "silent" -> lis_spi_rev([i \in 1 .. 8 |-> 0])

WHOAMI == 15  CTRL_1 == 32  CTRL_2 == 33  CTRL_3 == 34  STATUS == 39
FF_WU == <<[CFG |-> 48, THS |-> 50, DURATION |-> 51], [CFG |-> 52, THS |-> 54, DURATION |-> 55]>>
SensorRegs == {WHOAMI, CTRL_1, CTRL_2, CTRL_3, STATUS} \cup {48, 50, 51, 52, 54, 55}

Set(n, reg, data) == [op |-> "write", n |-> n, reg |-> reg, data |-> data]
Await(n)  == [op |-> "ready", n |-> n]
Asleep(n) == Set(n, CTRL_1, 0)

lis_self_test(n) ==
  <<Set(n, CTRL_2, 0), Set(n, CTRL_3, 0), Set(n, CTRL_1, 71), Await(n), [op |-> "who", n |-> n],
    Set(n, CTRL_1, 87), Await(n), Await(n), Asleep(n)>> \* one round for five

\* The interrupt outputs of the two revisions of the board; others have none.
Outputs(int) ==
  IF gta02_revision = 6 THEN <<128, IF int = 1 THEN 129 ELSE 144>>
  ELSE IF gta02_revision = 5 THEN <<192, IF int = 1 THEN 193 ELSE 208>> ELSE <<>>
lis_interrupt_test(n, int) ==
  LET Output(k) == IF Outputs(int) = <<>> THEN <<>> ELSE <<Set(n, CTRL_3, Outputs(int)[k])>>
      f == FF_WU[int]
  IN  <<Set(n, CTRL_1, 71)>> \o Output(1)
        \o <<Set(n, f.THS, 20), Set(n, f.DURATION, 0), Set(n, f.CFG, 149)>> \o Output(2)
        \o Output(1) \o <<Set(n, f.THS, 84)>> \o Output(2) \o <<Asleep(n)>>

lis_init ==
  FlattenSeq([n \in 1 .. 2 |-> <<lis_self_test(n), lis_interrupt_test(n, 1), lis_interrupt_test(n, 2)>>])

\* What a self test does when nobody says who it is.
Failed(n) == <<Asleep(n)>>

\* A step of the test; after a wait the values are read.  One that waits for a
\* silent sensor waits for ever.
Transfer ==
  /\ script # <<>>
  /\ LET test == Head(script)
         t == Head(test)
         Go(rest) == script' = IF rest = <<>> THEN Tail(script) ELSE <<rest>> \o Tail(script)
     IN  CASE t.op = "write" ->
                /\ chips' = lis_reg_write(chips, t.n, t.reg, t.data)
                /\ intended' = [intended EXCEPT ![t.n][t.reg] = t.data]
                /\ Go(Tail(test))
           [] t.op = "ready" ->
                /\ (lis_reg_read(chips, t.n, STATUS) \div 8) % 2 = 1
                /\ chips' = IF chips[t.n].state = "there" THEN [chips EXCEPT ![t.n].regs[STATUS] = 0] ELSE chips
                /\ Go(Tail(test)) /\ UNCHANGED intended
           [] t.op = "who" ->
                /\ Go(IF lis_reg_read(chips, t.n, WHOAMI) = 255 THEN Failed(t.n) ELSE Tail(test))
                /\ UNCHANGED <<chips, intended>>

\* A sensor that is awake measures, and may lose its connection.
SensorMoves ==
  /\ script # <<>>
  /\ \E n \in 1 .. 2 :
       \/ /\ chips[n].state = "there" /\ chips[n].regs[CTRL_1] # 0 /\ chips[n].regs[STATUS] = 0
          /\ chips' = [chips EXCEPT ![n].regs[STATUS] = 8]
       \/ chips[n].state = "there" /\ chips' = [chips EXCEPT ![n].state = "open"]
  /\ UNCHANGED <<script, intended>>
-----------------------------------------------------------------------------
TestletNames == {"LED", "VIBRATOR", "LCD", "KEY911", "TOUCHPANEL", "BATTERY", "GPS", "BLUETOOTH", ""}

Dm1Init ==
  /\ testlet = NoTestlet /\ console = Home /\ lit = {} /\ serial = "lines" /\ pass = FALSE
  /\ verdict = "" /\ trouble = FALSE /\ noted = <<>> /\ ran = 0
  /\ \E states \in [1 .. 2 -> {"there", "open", "silent"}] :
       chips = [n \in 1 .. 2 |-> [state |-> states[n],
                                  regs |-> [r \in SensorRegs |-> IF r = WHOAMI THEN 59 ELSE 0]]]
  /\ script = lis_init /\ intended = [n \in 1 .. 2 |-> chips[n].regs]

TestletNext ==
  \/ \E name \in TestletNames : main_dm1(name)
  \/ LightOn \/ LightOff \/ console_save \/ fb_open \/ lcd_end \/ Input \/ battery_test \/ Quick
  \/ poweron_process \/ ColdStart \/ Stopped \/ gps_nmea_verify \/ gps_nmea_check

SensorNext == Transfer \/ SensorMoves
-----------------------------------------------------------------------------
(***************************************************************************)
(* Properties.                                                             *)
(***************************************************************************)
\* A testlet leaves the phone as it found it, also when one of its devices cannot be
\* opened ("failed to open fb", lcd.c:216), unless a call fails that it does not
\* look at.
PhoneAsFound == testlet = NoTestlet /\ ~ trouble => console = Home /\ lit = {} /\ serial = "lines"

\* The GPS has a signal if it named a strong satellite, and only then; a voltage is
\* printed if the battery gave one; as many inputs came as were asked for.
VerdictsTrue ==
  /\ At("GPS", "check") => (pass <=> \E i \in DOMAIN noted :
       noted[i].kind = "GSV" /\ \E j \in DOMAIN noted[i].sats : noted[i].sats[j].cn >= Strong_enough)
  /\ verdict = "mV" => \E i \in DOMAIN noted : noted[i] > 0

\* Each sensor got what was meant for it, and sleeps when the test is over, failed or
\* not ("Disable Sensor", cmd_sensor.c:283).
SensorsAsMeant ==
  \A n \in 1 .. 2 :
    /\ chips[n].state = "there" =>
         \A r \in SensorRegs \ {WHOAMI, STATUS} : chips[n].regs[r] = intended[n][r]
    /\ script = <<>> => intended[n][CTRL_1] = 0

Dm1True == PhoneAsFound /\ VerdictsTrue /\ SensorsAsMeant
=============================================================================
