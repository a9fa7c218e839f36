------------------------------ MODULE Threads -------------------------------
(***************************************************************************)
(* The threads of the application: those that share a ConnectionPool, and  *)
(* those that call wakeup and interrupt while one of them runs the loop.   *)
(***************************************************************************)

CONSTANTS
  Thread,
  NoThread    \* what a lock that nobody holds has for a holder

ASSUME ThreadAssumption == NoThread \notin Thread
=============================================================================
