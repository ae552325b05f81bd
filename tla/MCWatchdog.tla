----------------------------- MODULE MCWatchdog -----------------------------
(***************************************************************************)
(* Two process ids suffice for a survivor of a kill and its successor; the *)
(* ids are used again, so that restarts are not bounded.  With two commits *)
(* master is behind HEAD, level with it, or ahead.                         *)
(***************************************************************************)
EXTENDS Watchdog
=============================================================================
