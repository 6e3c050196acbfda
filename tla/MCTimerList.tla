---------------------------- MODULE MCTimerList -----------------------------
(* An instance of TimerList for TLC. *)
EXTENDS TimerList, TLC

CONSTANTS t1, t2, t3

MCDelays == (t1 :> {1}) @@ (t2 :> {2}) @@ (t3 :> {1, 3})
=============================================================================
