------------------------------ MODULE Dm2Tests ------------------------------
(***************************************************************************)
(* The tests of DM2 (gta02-dm2/src/tests-*.c) as programs of steps that    *)
(* Dm2Station runs, one operator per function, and the programs of the     *)
(* children they fork.  Left out are the tests that only compute what they *)
(* show (Dm2Devices) and those that replace the program (Dm2).             *)
(***************************************************************************)
EXTENDS Naturals, Sequences

S(op, arg) == [op |-> op, arg |-> arg]
Do(op)     == S(op, "none")

\* The files the tests decide on.
Done  == <<"uboot-done", "env-done", "splash-done", "kernel-done", "rootfs-done">>
Files == {"bt_mac", "bt_log", "gsm-progress", "wlan-progress", "wifi_log", "mac", "hdq_log",
          "nor_check_done", "nor-done"} \cup {Done[k] : k \in 1 .. 5}

\* Steps that take longer than a countdown may.
LongSteps == {"wait", "block", "try", "fill", "make", "key", "accept"}

Report(f)  == <<S("need", f), S("judge", f)>>
Listing(f) == <<Do("block"), S("open", f), S("fill", f)>>
-----------------------------------------------------------------------------
(***************************************************************************)
(* Audio.                                                                  *)
(***************************************************************************)
audio_play_receiver == <<S("path", "receiver"), S("block", "aplay")>>
audio_play_speaker  == <<S("path", "speaker"), S("block", "aplay")>>
do_audio_receiver_test == <<S("fork", "play_receiver"), Do("wait")>>
do_audio_speaker_test  == <<S("fork", "play_speaker"), Do("wait")>>

do_audio_loopback_earphone_test ==
  <<S("fork", "loopback_earphone"), Do("wait"), S("path", "speaker")>>
do_audio_loopback_earmic_speaker_test ==
  <<S("fork", "loopback_earmic"), Do("wait"), S("path", "speaker")>>
-----------------------------------------------------------------------------
(***************************************************************************)
(* Bluetooth, GSM and WiFi.                                                *)
(***************************************************************************)
bt_mac_address == <<S("open", "bt_mac")>> \o Report("bt_mac")
do_bt_on_test ==
  <<S("must", "bt_power"), Do("block"), S("must", "bt_reset"), Do("power"),
    S("block", "hciconfig")>> \o bt_mac_address

\* In the child: it knows whether the program had powered Bluetooth.  Its own
\* do_bt_on_test may fail, and it scans all the same.
bt_scan_test(powered) ==
  (IF powered THEN <<>> ELSE <<S("set", "bt_power"), Do("power"), S("text", "bt_mac")>>)
  \o <<S("open", "bt_log"), S("fill", "bt_log")>>
do_bt_scan_test ==
  <<S("unlink", "bt_log"), S("fork", "bt_scan"), Do("waitchild")>> \o Report("bt_log")

gsm_dial_test == <<S("open", "gsm-progress"), S("fill", "gsm-progress")>>
do_gsm_dial_test ==
  <<S("unlink", "gsm-progress"), S("text", "ModemOn"), Do("block"), S("path", "gsm_receiver"),
    S("fork", "dial"), Do("wait"), S("kill", "dial"), S("judge", "gsm-progress"),
    Do("block"), S("path", "speaker")>>

gsm_on_test == Listing("mac") \o Report("mac")
gsm_on_protect_block == <<Do("wait")>>
do_gsm_on_test ==
  <<S("text", "ModemOn"), Do("block"), S("fork", "protect")>> \o gsm_on_test
do_wifi_on_test == <<S("block", "modprobe")>> \o gsm_on_test

\* test_script wifi setSSID: it gives up when it finds no network or gets no
\* address, and leaves its log behind.
setSSID ==
  <<S("open", "wlan-progress"), S("try", "scan"), S("try", "dhcp"), S("open", "wifi_log"),
    S("block", "iperf"), S("append", "wlan-progress")>>
do_wifi_test ==
  <<Do("text"), S("unlink", "wlan-progress"), S("spawn", "wifi"), Do("wait"),
    S("need", "wifi_log"), S("kill", "script"), S("judge", "wlan-progress")>>
-----------------------------------------------------------------------------
(***************************************************************************)
(* The rest.                                                               *)
(***************************************************************************)
do_rgb_test == [k \in 1 .. 5 |-> Do("wait")] \o <<S("text", "done")>>
Level(k)    == <<S("must", "brightness"), S("text", "Level"), Do("wait")>>
do_brightness_test ==
  Level(1) \o Level(15) \o Level(39) \o <<S("must", "brightness"), S("text", "Level")>>

key_press(count) ==
  <<S("text", "WaitingForKeyPress")>>
  \o [k \in 1 .. 2 * count |-> IF k % 2 = 1 THEN Do("key") ELSE S("text", "KeyPress")]
do_key911_test   == <<S("fork", "key"), Do("wait")>>
do_keypower_test == <<S("fork", "key"), Do("wait")>>

\* The child flashes for longer than the program waits, and says so later.
norflash_test ==
  <<S("make", "nor_check_done"), Do("wait"), S("make", "nor-done"), Do("wait"),
    S("text", "Pass")>>
do_norflash_test == <<S("fork", "norflash"), Do("wait")>>
do_view_version  == <<S("text", "SWVersion")>>

\* data/dl_finalimg: every stage may fail, and leaves its file if it does not.
dl_finalimg_test == [k \in 1 .. 5 |-> S("make", Done[k])]
do_dl_finalimage_test ==
  <<S("fork", "finalimg"), Do("wait")>> \o [k \in 1 .. 5 |-> S("need", Done[k])]
  \o <<S("text", "rootfsPass")>>
do_suspend_test == <<S("text", "Suspending"), Do("block"), S("text", "WakeUpSuccess")>>

do_battery_test == <<S("text", "Battery")>>
do_hdq_test     == Listing("hdq_log") \o Report("hdq_log")
do_get_time     == <<Do("text"), Do("wait"), Do("text"), Do("wait")>>
do_vibrator_test == <<S("text", "ON"), Do("block"), S("text", "OFF")>>
-----------------------------------------------------------------------------
(***************************************************************************)
(* The log server: the copy, the server, and the answer to a request.      *)
(***************************************************************************)
do_gsm_log_on_test ==
  <<Do("truncate"), Do("copy"), S("fork", "server"), S("text", "WebServerReady")>>
Start_Server == <<Do("bind"), Do("accept")>>
GiveResponse == <<Do("stat"), Do("lseek"), Do("read"), Do("send")>>
-----------------------------------------------------------------------------
\* The tables of tests.
audio_tests ==
  [receiver |-> do_audio_receiver_test, speaker |-> do_audio_speaker_test,
   earphone |-> do_audio_loopback_earphone_test, earmic |-> do_audio_loopback_earmic_speaker_test]
bt_tests    == [bt_on |-> do_bt_on_test, scan |-> do_bt_scan_test]
gsm_tests   == [dial |-> do_gsm_dial_test]
mac_address_tests == [wifi_on |-> do_wifi_on_test, gsm |-> do_gsm_on_test]
wifi_tests  == [wifi |-> do_wifi_test]
lcm_tests   == [rgb |-> do_rgb_test, pwm |-> do_brightness_test]
key_tests   == [key911 |-> do_key911_test, keypower |-> do_keypower_test]
version_tests == [version |-> do_view_version, norflash |-> do_norflash_test]
pmu_tests   == [battery |-> do_battery_test, hdq |-> do_hdq_test]
log_tests   == [suspend |-> do_suspend_test, log |-> do_gsm_log_on_test]
log_tests_2 == [log |-> do_gsm_log_on_test, finalimg |-> do_dl_finalimage_test]
rtc_tests   == [rtc |-> do_get_time]
vibrator_tests == [vibrator |-> do_vibrator_test]

Join(f, g) == [t \in DOMAIN f \cup DOMAIN g |-> IF t \in DOMAIN f THEN f[t] ELSE g[t]]

TestFunctions ==
  Join(audio_tests, Join(bt_tests, Join(gsm_tests, Join(mac_address_tests, Join(wifi_tests,
  Join(lcm_tests, Join(key_tests, Join(version_tests, Join(pmu_tests, Join(log_tests,
  Join(log_tests_2, Join(rtc_tests, vibrator_tests))))))))))))

\* The functions that are forked.
Child(f, powered) ==
  CASE f = "play_receiver"     -> audio_play_receiver
    [] f = "play_speaker"      -> audio_play_speaker
    [] f = "loopback_earphone" -> <<S("path", "loopback_earphone")>>
    [] f = "loopback_earmic"   -> <<S("path", "loopback_earmic")>>
    [] f = "bt_scan"  -> bt_scan_test(powered)
    [] f = "dial"     -> gsm_dial_test
    [] f = "protect"  -> gsm_on_protect_block
    [] f = "wifi"     -> setSSID
    [] f = "key"      -> key_press(8)
    [] f = "norflash" -> norflash_test
    [] f = "finalimg" -> dl_finalimg_test
    [] f = "server"   -> Start_Server
=============================================================================
