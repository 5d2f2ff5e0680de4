--------------------------- MODULE MCCrashRestart ---------------------------
(***************************************************************************)
(* CrashRestart for TLC: two worker generations, so that a pending       *)
(* restart, a later crash and its restart overlap.                         *)
(***************************************************************************)
EXTENDS CrashRestart
=============================================================================
