---------------------------- MODULE MCTimerWait ----------------------------
(* TimerWait on small sets of model values. *)
EXTENDS TimerWait
=============================================================================
