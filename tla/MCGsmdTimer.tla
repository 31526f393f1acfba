---------------------------- MODULE MCGsmdTimer ----------------------------
(* Instances of GsmdTimer for TLC; all constants are numbers of the cfg.   *)
EXTENDS GsmdTimer
=============================================================================
