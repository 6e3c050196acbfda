------------------------------ MODULE MacService ------------------------------
(***************************************************************************)
(* What the MAC promises the application for a confirmed data request      *)
(* (McpsReqConfirmed_t and McpsConfirm_t of src/src/mac/LoRaMac.h): at     *)
(* most limit transmissions, none after the acknowledgement, and one       *)
(* confirm, which does not come before the frame was acknowledged, all     *)
(* trials were used or the radio failed.                                   *)
(***************************************************************************)
EXTENDS Naturals

VARIABLES
    pending,    \* the request waits for its confirm
    limit,      \* trials it may use
    trials,     \* transmissions so far
    acked,      \* an acknowledgement was received
    failed      \* a transmission did not complete

vars == <<pending, limit, trials, acked, failed>>

NoExchange == limit = 0 /\ trials = 0 /\ ~acked /\ ~failed

Init == ~pending /\ NoExchange

(* The first transmission starts with the request unless the duty cycle    *)
(* delays it.                                                              *)
Request ==
    /\ ~pending
    /\ pending'
    /\ limit' \in Nat \ {0}
    /\ trials' \in {0, 1}
    /\ ~acked' /\ ~failed'

Transmit ==
    /\ pending /\ ~acked
    /\ trials < limit
    /\ trials' = trials + 1
    /\ UNCHANGED <<pending, limit, acked, failed>>

Acknowledge ==
    /\ pending /\ trials > 0
    /\ acked'
    /\ UNCHANGED <<pending, limit, trials, failed>>

Fail ==
    /\ pending /\ trials > 0
    /\ failed'
    /\ UNCHANGED <<pending, limit, trials, acked>>

Confirm ==
    /\ pending
    /\ acked \/ failed \/ trials = limit
    /\ ~pending'
    /\ NoExchange'

Next == Request \/ Transmit \/ Acknowledge \/ Fail \/ Confirm

Spec == Init /\ [][Next]_vars
=============================================================================
