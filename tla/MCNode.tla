------------------------------- MODULE MCNode -------------------------------
(***************************************************************************)
(* The parts of the node around the MAC, side by side: every behaviour is  *)
(* one of the part it picks at the start, and the other parts stay in      *)
(* their initial states.  What the parts expect of each other is an action *)
(* of each module; they share no state.                                    *)
(***************************************************************************)
EXTENDS Application, SX1272, MCDutyCycle, MCMacCommands, Schc, Coap, Uart

(* Downlinks: an IPv6 packet, every command of the compliance test and its *)
(* activation on both ports, no data, and no data but DutyCycleReq.        *)
MCDownlink ==
    [port : {224}, cmd : {0, 2, 3, 4, 5}, enable : {FALSE}, off : {FALSE}]
    \cup [port : {10, 224}, cmd : {1}, enable : {TRUE}, off : {FALSE}]
    \cup [port : {0, 10}, cmd : {0}, enable : {FALSE}, off : {FALSE}]
    \cup [port : {0}, cmd : {0}, enable : {FALSE}, off : {TRUE}]

(* Packets of CoAP that a rule compresses, and neighbour discovery that no *)
(* rule does.                                                              *)
CoapHeader(rule, n, ttl, label, check) ==
    LET h == [f \in Fields |-> IF rule[f].action = "BUILDIID" THEN DevEui ELSE rule[f].targetValue]
    IN  [h EXCEPT !.paylength = UDP_HLEN + n, !.length = UDP_HLEN + n,
                  !.hlimit = ttl, !.flabel = label, !.checksum = check]
Neighbour(n) ==
    [header |-> [EmptyHeader EXCEPT !.version = 6, !.paylength = UDP_HLEN + n, !.nheader = 58,
                                    !.hlimit = 255, !.srcPrefix = "link", !.dstPrefix = "mcast"],
     size |-> n]
PayloadSizes == {0, 1, 16, 247}
MCUplinks ==
    {Neighbour(n) : n \in PayloadSizes}
    \cup {[header |-> CoapHeader(rule1, n, 255, l, c), size |-> n] : n \in PayloadSizes, l, c \in {0, 1}}
MCDownlinks ==
    {Neighbour(n) : n \in PayloadSizes}
    \cup {[header |-> CoapHeader(rule2, n, t, l, c), size |-> n]
             : n \in PayloadSizes, l, c \in {0, 1}, t \in {64, 255}}

VARIABLE part

Parts == {"app", "radio", "duty", "commands", "schc", "coap", "uart"}

nodeVars == <<part, appVars, radioVars, dutyVars, cmdVars, schcVars, coapVars, uartVars>>

(* Every part that is not picked has one initial state. *)
Init ==
    /\ part \in Parts
    /\ AppInit /\ RadioInit /\ DutyInit /\ CommandsInit /\ SchcInit /\ CoapInit /\ UartInit
    /\ part # "app" => ~app.IsNetworkJoined

Next ==
    /\ UNCHANGED part
    /\ \/ part = "app" /\ AppNext
       \/ part # "app" /\ UNCHANGED appVars
    /\ \/ part = "radio" /\ RadioNext
       \/ part # "radio" /\ UNCHANGED radioVars
    /\ \/ part = "duty" /\ DutyNext
       \/ part # "duty" /\ UNCHANGED dutyVars
    /\ \/ part = "commands" /\ CommandsNext
       \/ part # "commands" /\ UNCHANGED cmdVars
    /\ \/ part = "schc" /\ SchcNext
       \/ part # "schc" /\ UNCHANGED schcVars
    /\ \/ part = "coap" /\ CoapNext
       \/ part # "coap" /\ UNCHANGED coapVars
    /\ \/ part = "uart" /\ UartNext
       \/ part # "uart" /\ UNCHANGED uartVars

(* The fairness of the part that is picked. *)
NodeFairness ==
    /\ WF_appVars(part = "app" /\ MainLoop) /\ WF_appVars(part = "app" /\ ExchangeEnds)
    /\ WF_appVars(part = "app" /\ OnTimerEvent("TxNextPacket"))
    /\ WF_radioVars(part = "radio" /\ DioIrq) /\ WF_radioVars(part = "radio" /\ Timeout)
    /\ WF_dutyVars(part = "duty" /\ DutyTick) /\ WF_dutyVars(part = "duty" /\ SendDelayed)
    /\ WF_dutyVars(part = "duty" /\ (TxDoneOnChannel \/ TxTimeoutOnChannel))

Spec == Init /\ [][Next]_nodeVars /\ NodeFairness

(* The variables of every part have their types. *)
NodeTypeOK ==
    /\ AppTypeOK /\ RadioTypeOK /\ DutyTypeOK
    /\ CommandsTypeOK /\ SchcTypeOK /\ CoapTypeOK /\ UartTypeOK
=============================================================================
