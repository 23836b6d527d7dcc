----------------------------- MODULE MCWatchdog -----------------------------
(* Watchdog with the times of the firmware: the configurations say which.   *)
EXTENDS Watchdog
=============================================================================
