---------------------------- MODULE MCDutyCycle -----------------------------
(* An instance of DutyCycle for TLC: two bands of different duty cycle,    *)
(* one channel in each, and two data rates.                                *)
EXTENDS DutyCycle, TLC

CONSTANTS g1, g2, c1, c2

MCDCycle    == (g1 :> 3) @@ (g2 :> 2)
MCBandOf    == (c1 :> g1) @@ (c2 :> g2)
MCDrRange   == (c1 :> {0}) @@ (c2 :> {0, 1})
MCTimeOnAir == (0 :> 2) @@ (1 :> 1)
=============================================================================
