------------------------------ MODULE MCLoRaMac ------------------------------
(***************************************************************************)
(* Instances of LoRaMac for TLC.  Frame counters travel modulo 8 and a gap *)
(* of 2 is too large, in the proportion of 2^16 to 2^14.                   *)
(***************************************************************************)
EXTENDS LoRaMac

Down(mtype, ack, body) ==
    [mtype |-> mtype, own |-> TRUE, auth |-> TRUE, ack |-> ack, body |-> body,
     cmd |-> "none", nbRep |-> 0]

With(d, cmd, nbRep) == [d EXCEPT !.cmd = cmd, !.nbRep = nbRep]

(* Frames that are not for this node, damaged, or of an unknown type. *)
Foreign == {[Down("UNCONFIRMED_DOWN", FALSE, "none") EXCEPT !.own = FALSE],
            [Down("CONFIRMED_DOWN", TRUE, "none") EXCEPT !.auth = FALSE],
            With([Down("UNCONFIRMED_DOWN", FALSE, "mac") EXCEPT !.auth = FALSE], "LINK_CHECK_ANS", 0),
            Down("OTHER", FALSE, "none")}

Plain == {Down("UNCONFIRMED_DOWN", ack, "app") : ack \in BOOLEAN}
         \cup {Down("PROPRIETARY", FALSE, "app"), Down("JOIN_ACCEPT", FALSE, "none")}

Commands == {With(Down("UNCONFIRMED_DOWN", FALSE, "mac"), "LINK_CHECK_ANS", 0),
             With(Down("UNCONFIRMED_DOWN", TRUE, "none"), "LINK_ADR_REQ", 2)}

(* A confirmed downlink with and without the acknowledgement of the uplink. *)
Confirmed == {Down("CONFIRMED_DOWN", ack, "app") : ack \in BOOLEAN}

SwitchOff == {With(Down("UNCONFIRMED_DOWN", FALSE, "app"), "DUTY_CYCLE_OFF", 0)}

MixedPort0 == {Down("UNCONFIRMED_DOWN", TRUE, "macOpts")}

DownlinksWellBehaved == Foreign \cup Plain \cup Commands

DownlinksRepeated == Foreign \cup {Down("CONFIRMED_DOWN", TRUE, "app")}

DownlinksAll == DownlinksWellBehaved \cup Confirmed \cup SwitchOff \cup MixedPort0
=============================================================================
