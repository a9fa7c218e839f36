------------------------------ MODULE MCWakeup ------------------------------
(* Wakeup for TLC.                                                          *)
EXTENDS Wakeup
=============================================================================
