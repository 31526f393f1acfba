----------------------------- MODULE Dm2Devices -----------------------------
(***************************************************************************)
(* What DM2 measures (gta02-dm2/src): the GPS tests on the sentences of    *)
(* the receiver (tests-gps.c, tests-sn.c, gps.c, nmea.c), the commands     *)
(* that reset it (dm2.c), the motion sensors (tests-motion.c) and the      *)
(* battery (tests-pmu.c).  The devices are external: the receiver may say  *)
(* anything, at any time.                                                  *)
(***************************************************************************)
EXTENDS Integers, SequencesExt

CONSTANTS
  Day,        \* seconds of a day
  LongWord,   \* 2^32 in C: wraps an unsigned difference of times
  TableSize,  \* 32 in C: the entries of table_prn_sn
  Reports,    \* GSV sentences: sequences of satellites [prn, sn]
  Axial,      \* samples of a motion sensor: of each axis "zero", "in" or "out"
  CN_THRESHOLD,
  SAMPLES_NEEDED, BAD_SAMPLES_ALLOWED, Updates, \* of the motion test
  MaxFiles,   \* files a process may have open
  Reads,      \* 10 in C: how often get_voltage reads
  TestTime,   \* GPS_TEST_TIME, GPS_SNTEST_TIME
  MaxSeconds, MaxTests, MaxSentences, MaxSamples \* bounds

ASSUME DevicesAssumption ==
  /\ Day \in Nat \ {0} /\ LongWord > Day /\ TableSize \in Nat /\ TableSize > 2
  /\ Reports \subseteq Seq([prn : Nat, sn : Nat])
  /\ MaxSeconds \in Nat /\ MaxTests \in Nat /\ MaxSentences \in Nat /\ MaxSamples \in Nat

VARIABLES
  device,     \* the test that runs: "none", "gps", "cn", "motion", "dead"
  clock,      \* seconds since midnight
  msStart, fix_sec,
  table_prn_sn,
  zda,        \* the month of the date, 0 if it is not valid
  shown,      \* what the view shows
  stored,     \* what the test has stored as its log
  motion,     \* the motion test: per sensor, and what is left
  events,     \* what each sensor has to be read
  opened,     \* files left open
  order,      \* the bytes the receiver got with the last reset
  seconds, tests, sentences, samples, \* history: how many
  past        \* history: of this run, what a reader of all sentences knows

gpsState    == <<device, clock, msStart, fix_sec, table_prn_sn, zda, shown, stored, order>>
motionState == <<motion, events, samples>>
deviceVars  == <<gpsState, motionState, opened, seconds, tests, sentences, past>>

Sensors == {"top", "bot"}
Axes    == 1 .. 3
NoMotion == [coords |-> [s \in Sensors |-> [a \in Axes |-> "zero"]], seen |-> [s \in Sensors |-> 0],
             fail |-> [s \in Sensors |-> 0], left |-> Updates]
Forgotten(kind) == [of |-> kind, since |-> 0, cold |-> -1, midnight |-> FALSE, lost |-> FALSE,
              watched |-> kind \in {"gps", "cn"},
              latest |-> [p \in 0 .. TableSize - 1 |-> -1],
              bad |-> [s \in Sensors |-> <<>>], zero |-> FALSE]
-----------------------------------------------------------------------------
(***************************************************************************)
(* Commands to the receiver.                                               *)
(***************************************************************************)
\* The two bytes that end a frame: sums of the bytes and of the sums, from the
\* class on.
Sums(frame) ==
  FoldLeft(LAMBDA c, b : <<(c[1] + b) % 256, (c[1] + b + c[2]) % 256>>, <<0, 0>>,
           SubSeq(frame, 3, Len(frame)))

gllin_ubx(cls, id, ubx) ==
  LET frame == <<181, 98, cls, id, Len(ubx) % 256, Len(ubx) \div 256>> \o ubx
  IN  frame \o Sums(frame)

\* 'c': forget everything and stop, then start.
gps_reset == gllin_ubx(6, 4, <<255, 7, 8, 0>>) \o gllin_ubx(6, 4, <<255, 7, 9, 0>>)

\* set_uart_bautrate, gps_reset: the device may be missing, and then the reset
\* does nothing, or a write fails on the way through the bytes.
Reset == order' \in {gps_reset, SubSeq(gps_reset, 1, 5), <<>>}
-----------------------------------------------------------------------------
(***************************************************************************)
(* Sentences.                                                              *)
(***************************************************************************)
runtime == (clock - msStart) % LongWord

\* GPGSV: a satellite whose numbers are out of range stays in the way of the
\* ones behind it; the entry of the last number is behind the table.
Good(sat) == sat.prn >= 1 /\ sat.prn <= TableSize /\ sat.sn < 3120
Read_up_to(sats) == {i \in DOMAIN sats : \A j \in 1 .. i : Good(sats[j])}
GPGSV(table, sats) ==
  [p \in DOMAIN table |->
     LET said == {i \in Read_up_to(sats) : sats[i].prn = p}
     IN  IF said = {} THEN table[p] ELSE sats[Max(said)].sn]

\* nmea_epoch_end: while there is no fix its time is what has passed.
months == <<"Jan", "Feb", "Mar">>
nmea_epoch_end(quality) ==
  LET sec == IF quality = 0 THEN runtime ELSE fix_sec
      month == IF zda = 0 THEN "" ELSE IF zda < Len(months) THEN months[zda + 1] ELSE "beyond"
  IN  /\ fix_sec' = sec
      /\ shown' = [fix |-> quality, sec |-> sec, month |-> month]

\* The entries in order, the mean of the last three; C rounds towards zero.
cmpint(a, b) == a < b
Sorted(table) == SortSeq([i \in 1 .. TableSize |-> table[i - 1]], cmpint)
Quotient(a, b) == IF a >= 0 THEN a \div b ELSE - ((- a) \div b)
AvgCN(table) ==
  LET s == Sorted(table)
  IN  Quotient(s[TableSize - 2] + s[TableSize - 1] + s[TableSize], 3)

Strong(table) == {p \in DOMAIN table : table[p] >= CN_THRESHOLD}
-----------------------------------------------------------------------------
(***************************************************************************)
(* The GPS tests.                                                          *)
(***************************************************************************)
runtime_init_once == IF tests = 0 THEN clock ELSE msStart
runtime_init == clock
Cleared == [p \in 0 .. TableSize - 1 |-> -1]

\* do_gps_test and do_gps_sn_test up to their loops.  Where the first closes a
\* file it has not opened, or one of them a file it could not open, the
\* program goes on or dies.
do_gps_test(kind) ==
  /\ device = "none" /\ tests < MaxTests /\ kind \in {"gps", "cn"}
  /\ tests' = tests + 1
  /\ \/ /\ device' = kind
        /\ Reset
        /\ msStart' = runtime_init
        /\ table_prn_sn' = Cleared
        /\ zda' = IF kind = "gps" THEN 0 ELSE zda
        /\ shown' = "GPS Go"
        /\ past' = Forgotten(kind)
        /\ UNCHANGED stored
     \/ /\ shown' = "Fail"
        /\ device' \in {"none", "dead"}
        /\ stored' = [by |-> "error"]
        /\ UNCHANGED <<order, msStart, table_prn_sn, zda, past>>
  /\ UNCHANGED <<clock, fix_sec, motionState, opened, seconds, sentences>>

Sentence == device \in {"gps", "cn"} /\ sentences < MaxSentences /\ sentences' = sentences + 1

\* A fix ends the GPS test.
GPGGA(quality) ==
  /\ Sentence
  /\ IF device = "cn" THEN UNCHANGED <<device, fix_sec, shown, stored, past>>
     ELSE /\ nmea_epoch_end(quality)
          /\ past' = IF quality = 0 THEN [past EXCEPT !.cold = past.since]
                        ELSE [past EXCEPT !.watched = FALSE]
          /\ device' = IF quality = 0 THEN "gps" ELSE "none"
          /\ stored' = IF quality = 0 THEN stored
                       ELSE [by |-> "gps", sec |-> fix_sec, avg |-> AvgCN(table_prn_sn)]
  /\ UNCHANGED <<clock, msStart, table_prn_sn, zda, order, motionState, opened, seconds, tests>>

nmea_to_ZDA(month) ==
  /\ Sentence
  /\ zda' = IF device = "gps" THEN month ELSE zda
  /\ UNCHANGED <<device, clock, msStart, fix_sec, table_prn_sn, shown, stored, order,
                 motionState, opened, seconds, tests, past>>

\* The CN test passes when exactly one entry is strong (nmea_process2).
GSV(sats) ==
  /\ Sentence
  /\ table_prn_sn' = GPGSV(table_prn_sn, sats)
  /\ LET strong == Strong(table_prn_sn')
         passes == device = "cn" /\ Cardinality(strong) = 1
     IN  /\ shown' = IF device = "cn" THEN [strong |-> strong] ELSE shown
         /\ device' = IF passes THEN "none" ELSE device
         /\ stored' = IF passes THEN [by |-> "cn", strong |-> strong] ELSE stored
         /\ past' = [past EXCEPT !.watched = ~ passes,
                      !.latest = [p \in DOMAIN @ |->
                        LET said == {i \in DOMAIN sats : sats[i].prn = p}
                        IN  IF said = {} THEN @[p] ELSE sats[Max(said)].sn],
                      !.lost = @ \/ \E i \in DOMAIN sats : ~ Good(sats[i]) \/ sats[i].prn = TableSize]
  /\ UNCHANGED <<clock, msStart, fix_sec, zda, order, motionState, opened, seconds, tests>>

\* fgets fails: the GPS test gives up, the CN test tries again.
NoSentence ==
  /\ device = "gps"
  /\ device' = "none" /\ shown' = "read error on gps" /\ stored' = [by |-> "error"]
  /\ UNCHANGED <<clock, msStart, fix_sec, table_prn_sn, zda, order, motionState, opened,
                 seconds, tests, sentences, past>>

\* The watchdog of the test kills the program, also one that has given up; what
\* comes then is in Dm2.
Timeout ==
  /\ device # "dead" /\ past.watched /\ past.since >= TestTime
  /\ device' = "dead"
  /\ UNCHANGED <<clock, msStart, fix_sec, table_prn_sn, zda, shown, stored, order, motionState,
                 opened, seconds, tests, sentences, past>>

Tick ==
  /\ device \in {"none", "gps", "cn"} /\ seconds < MaxSeconds
  /\ seconds' = seconds + 1
  /\ clock' = (clock + 1) % Day
  /\ past' = [past EXCEPT !.since = @ + 1, !.midnight = @ \/ clock' = 0]
  /\ UNCHANGED <<device, msStart, fix_sec, table_prn_sn, zda, shown, stored, order, motionState,
                 opened, tests, sentences>>
-----------------------------------------------------------------------------
(***************************************************************************)
(* The motion sensors.  A sample is three events and one that ends it, but *)
(* the kernel reports no relative value of zero; the vertical axis is in   *)
(* tolerance near 1000 and "zero" there is not.                            *)
(***************************************************************************)
Bad(sample) == sample[1] = "out" \/ sample[2] = "out" \/ sample[3] # "in"

\* do_sensor_test up to its loop.
do_sensor_test ==
  /\ device = "none" /\ tests < MaxTests
  /\ tests' = tests + 1
  /\ \/ /\ opened + 2 <= MaxFiles
        /\ device' = "motion" /\ motion' = NoMotion
        /\ opened' = opened + 2
        /\ past' = Forgotten("motion")
        /\ UNCHANGED shown
     \/ /\ shown' = "Top Sensor Fail"
        /\ UNCHANGED <<device, motion, opened, past>>
     \/ /\ opened < MaxFiles
        /\ shown' = "Bottom Sensor Fail"
        /\ opened' = opened + 1
        /\ UNCHANGED <<device, motion, past>>
  /\ UNCHANGED <<clock, msStart, fix_sec, table_prn_sn, zda, stored, order, events, samples,
                 seconds, sentences>>

Sample(s, sample) ==
  /\ device = "motion" /\ samples < MaxSamples
  /\ samples' = samples + 1
  /\ LET said == SelectSeq(<<1, 2, 3>>, LAMBDA a : sample[a] # "zero")
     IN  events' = [events EXCEPT ![s] =
           @ \o [i \in DOMAIN said |-> <<said[i], sample[said[i]]>>] \o <<<<0, "end">>>>]
  /\ past' = [past EXCEPT !.bad[s] = Append(@, Bad(sample)),
                          !.zero = @ \/ \E a \in Axes : sample[a] = "zero"]
  /\ UNCHANGED <<gpsState, motion, opened, seconds, tests, sentences>>

\* An event of one sensor; the check is made when the vertical axis comes.
Checked_top(m, s) == m.coords["top"]
Checked(m, s) == m.coords[s]
Got(m, s, e) ==
  IF e[1] = 0 THEN m
  ELSE LET with == [m EXCEPT !.coords[s][e[1]] = e[2]]
       IN  IF e[1] # 3 THEN with
           ELSE [with EXCEPT !.seen[s] = @ + 1,
                             !.fail[s] = IF Bad(Checked(with, s)) THEN @ + 1 ELSE @]

Passes(m, s) == m.seen[s] >= SAMPLES_NEEDED /\ m.fail[s] < BAD_SAMPLES_ALLOWED

\* The body of the loop; it waits for the top sensor, then for the bottom one,
\* and without either begins again.
Update ==
  /\ device = "motion" /\ events["top"] # <<>>
  /\ LET top == Got(motion, "top", Head(events["top"]))
         bot == IF events["bot"] = <<>> THEN top
                ELSE [Got(top, "bot", Head(events["bot"])) EXCEPT !.left = @ - 1]
     IN  /\ motion' = IF bot.left = 0 THEN NoMotion ELSE bot
         /\ events' = [s \in Sensors |-> IF bot.left = 0 \/ events[s] = <<>> THEN <<>>
                                         ELSE Tail(events[s])]
         /\ device' = IF bot.left = 0 THEN "none" ELSE device
         /\ opened' = IF bot.left = 0 THEN opened - 2 ELSE opened
         /\ shown' = IF bot.left = 0 THEN [s \in Sensors |-> Passes(bot, s)] ELSE shown
         /\ past' = IF bot.left = 0 THEN Forgotten("none") ELSE past
  /\ UNCHANGED <<clock, msStart, fix_sec, table_prn_sn, zda, stored, order, samples, seconds,
                 tests, sentences>>

\* get_voltage opens the file for every reading and closes the last one.
get_voltage ==
  /\ device = "none" /\ tests < MaxTests
  /\ tests' = tests + 1
  /\ \/ /\ opened + Reads <= MaxFiles
        /\ shown' = "mV" /\ opened' = opened + Reads - 1
     \/ /\ opened + Reads > MaxFiles
        /\ shown' = "Fail" /\ opened' = MaxFiles
     \/ /\ shown' = "Fail"
        /\ UNCHANGED opened
  /\ UNCHANGED <<device, clock, msStart, fix_sec, table_prn_sn, zda, stored, order, motionState,
                 seconds, sentences, past>>
-----------------------------------------------------------------------------
DevicesInit ==
  /\ device = "none"
  /\ clock \in {0, Day - 1}
  /\ msStart = 0 /\ fix_sec = 0 /\ table_prn_sn = [p \in 0 .. TableSize - 1 |-> 0] /\ zda = 0
  /\ shown = "" /\ stored = [by |-> "none"] /\ order = <<>>
  /\ motion = NoMotion /\ events = [s \in Sensors |-> <<>>] /\ samples = 0
  /\ opened = 0 /\ seconds = 0 /\ tests = 0 /\ sentences = 0 /\ past = Forgotten("none")

GpsNext ==
  \/ \E kind \in {"gps", "cn"} : do_gps_test(kind)
  \/ \E quality \in {0, 1} : GPGGA(quality)
  \/ \E month \in {1, 3} : nmea_to_ZDA(month)
  \/ \E sats \in Reports : GSV(sats)
  \/ NoSentence \/ Timeout \/ Tick

MotionNext ==
  \/ do_sensor_test \/ Update \/ get_voltage
  \/ \E s \in Sensors, sample \in Axial : Sample(s, sample)
-----------------------------------------------------------------------------
(***************************************************************************)
(* Properties.                                                             *)
(***************************************************************************)
\* What a GPS test stores is true to what the receiver said in this run.
\* The time to the fix is the time until the last sentence without one, once there
\* was such a sentence and no midnight (gps.c:107, gps.c:128).
FixTimeTrue ==
  stored.by = "gps" /\ past.cold # -1 /\ ~ past.midnight => stored.sec = past.cold

\* The mean is that of the three satellites received best.
AverageOfBest ==
  stored.by = "gps" /\ ~ past.lost =>
    \E best \in {s \in SUBSET DOMAIN past.latest : Cardinality(s) = 3} :
      /\ \A p \in best, q \in DOMAIN past.latest \ best : past.latest[p] >= past.latest[q]
      /\ LET sum == FoldFunctionOnSet(LAMBDA x, y : x + y, 0, past.latest, best)
             rest == sum - 3 * stored.avg
         IN  rest \in -2 .. 2 /\ (rest > 0 => sum > 0) /\ (rest < 0 => sum < 0)

\* The CN test passes only when by the latest reports of this run one satellite
\* is strong and no other is (gps.c:208-226).
OnePasses == stored.by = "cn" /\ ~ past.lost => Strong(past.latest) = stored.strong

\* All three, while no report held a satellite that is out of range: stale entries,
\* epochs and the order of the sentences do not reach into the result.
GpsResultTrue ==
  device = "none" /\ past.of = stored.by => FixTimeTrue /\ AverageOfBest /\ OnePasses

\* What counts against a sensor are samples of its own that are out of tolerance,
\* as long as no axis read exactly zero (tests-motion.c:196-207).
MotionTrue ==
  device = "motion" /\ ~ past.zero =>
    \A s \in Sensors :
      motion.fail[s] = Cardinality({i \in 1 .. motion.seen[s] : past.bad[s][i]})
=============================================================================
