------------------------------ MODULE MCAtCmd ------------------------------
(* Small instances of AtCmd for TLC.                                       *)
EXTENDS AtCmd

\* A one-line command, a two-line one (an SMS), and the kinds of start-up
\* commands: the detection of call progress information, whose callback
\* submits more commands.
MCTexts == {<<2>>, <<1, 1>>}
MCSetup == <<"cpi">>
=============================================================================
