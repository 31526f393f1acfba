---------------------------- MODULE MCAtSession ----------------------------
(* Instances of AtSession for TLC: a one-line and a two-line client        *)
(* command, and a shortened initialisation of the modem.                   *)
EXTENDS AtSession

MCTexts == {<<2>>, <<1, 1>>}

\* One settings command whose information response submits another one.
MCSetup == <<"cpmb">>
=============================================================================
