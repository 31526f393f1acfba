--------------------------- MODULE MCDm2Station ---------------------------
(* Instances of Dm2Station: a screen of four by four, two suites; the
   dialog with its items reaches over the view, as it does on the device. *)
EXTENDS Dm2Station

Rect(x, y, w, h) == [x |-> x, y |-> y, width |-> w, height |-> h]

MCLayout ==
  [view |-> Rect(1, 0, 3, 3), pass |-> Rect(1, 3, 1, 1), quit |-> Rect(2, 3, 1, 1),
   fail |-> Rect(3, 3, 1, 1), popup |-> Rect(0, 0, 1, 1), dialog |-> Rect(0, 0, 2, 4),
   test |-> <<Rect(0, 1, 1, 1), Rect(0, 2, 1, 1)>>,
   item |-> <<Rect(0, 1, 2, 1), Rect(0, 2, 2, 1)>>]

\* Every kind of test, the ones that share something side by side.
MCBoards ==
  {<<<<"receiver", "earmic">>, <<"speaker", "earphone">>>>,
   <<<<"scan", "bt_on">>, <<"scan">>>>, <<<<"dial", "gsm">>, <<"dial">>>>,
   <<<<"wifi", "wifi_on">>, <<"wifi">>>>, <<<<"key911">>, <<"norflash", "keypower">>>>,
   <<<<"version", "log">>, <<"log">>>>, <<<<"rgb", "pwm">>, <<"finalimg">>>>,
   <<<<"suspend", "battery">>, <<"hdq">>>>, <<<<"rtc">>, <<"vibrator">>>>}

MCTouchable == {<<0, 0>>, <<0, 1>>, <<0, 2>>, <<1, 3>>}
=============================================================================
