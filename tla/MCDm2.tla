------------------------------- MODULE MCDm2 -------------------------------
(* An instance of Dm2 for TLC.                                             *)
EXTENDS Dm2

\* The smallest with the kinds that differ and two suites.
MCSuites == << <<"indexed", "gps">>, <<"cn", "server">> >>
=============================================================================
