---------------------------- MODULE TimerService ----------------------------
(***************************************************************************)
(* What the timer module promises its users: timers that count down        *)
(* independently of each other.  A running timer has a time left; it fires *)
(* when nothing is left.  Time passes for all running timers alike: by the *)
(* real time, by nothing while the expiry of one of them is being handled, *)
(* or ahead of the real time by the compensation for a wake-up.            *)
(***************************************************************************)
EXTENDS Integers, FiniteSetsExt

CONSTANTS Timer,   \* the timer objects
          Values   \* the delays they are set to

VARIABLES left,    \* the time left of each running timer
          reload   \* the delay each timer was set to

vars == <<left, reload>>

Running == DOMAIN left

Init == left = [t \in {} |-> 0] /\ reload \in [Timer -> Values]

(* From the times in from, all timers of S move on by the same time. *)
Elapse(S, from) ==
    \E d \in 0..Max(Values) :
        /\ \A t \in S : d <= from[t]
        /\ left' = [t \in S |-> from[t] - d]

Pass == Elapse(Running, left) /\ UNCHANGED reload

Start(t) ==
    /\ t \notin Running
    /\ Elapse(Running \cup {t}, [s \in Running \cup {t} |-> IF s = t THEN reload[t] ELSE left[s]])
    /\ UNCHANGED reload

Stop(t) == Elapse(Running \ {t}, left) /\ UNCHANGED reload

SetValue(t, v) == Elapse(Running \ {t}, left) /\ reload' = [reload EXCEPT ![t] = v]

Fire(t) ==
    /\ t \in Running /\ left[t] = 0
    /\ left' = [s \in Running \ {t} |-> left[s]]
    /\ UNCHANGED reload

Next ==
    \/ Pass
    \/ \E t \in Timer : Start(t) \/ Stop(t) \/ Fire(t)
    \/ \E t \in Timer, v \in Values : SetValue(t, v)

Spec == Init /\ [][Next]_vars
=============================================================================
