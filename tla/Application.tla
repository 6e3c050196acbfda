---------------------------- MODULE Application -----------------------------
(***************************************************************************)
(* The class A application of the SK-iM880A (main-api-v3.c), the MAC API   *)
(* v3 it is written against (LoRaMac-api-v3.c) and the AppData array, the  *)
(* one buffer through which frames pass between the application, the IPv6  *)
(* stack (virtualloraif.c) and the MAC.                                    *)
(*                                                                         *)
(* The main loop runs in steps; timer callbacks and the MAC's state check  *)
(* are interrupts that may run between any two of them.  The MAC is given  *)
(* by its contract (module LoRaMac): a request it accepts keeps it busy    *)
(* until a state check confirms it; only a confirmed exchange goes on      *)
(* after an indication.                                                    *)
(***************************************************************************)
EXTENDS Naturals

CONSTANTS OverTheAir,  \* the builds: values of OVER_THE_AIR_ACTIVATION
          Downlink     \* the downlinks the network sends: their port (0 without
                       \* data), cmd (the first byte), enable (is the payload
                       \* 01 01 01 01?), off (with DutyCycleReq 255?)

ASSUME ApplicationAssumption ==
    /\ OverTheAir \subseteq BOOLEAN
    /\ Downlink \subseteq [port : 0..255, cmd : 0..255, enable : BOOLEAN, off : BOOLEAN]

VARIABLES
    app,     \* the memory that main loop and callbacks share
    mac,     \* the MAC as the API sees it
    main,    \* where the main loop is, and the arguments of its call
    timers,  \* the running timers among JoinReqTimer and TxNextPacketTimer
    mixed,   \* history: the MAC accepted a frame that was not prepared as such
    exposed  \* history: joined over the air, or a compliance test was run

appVars == <<app, mac, main, timers, mixed, exposed>>

(* The frame PrepareTxFrame makes for port 10. *)
CoapFrame == [port |-> 10, data |-> "coap", size |-> "coap"]

(* A size is named after the content it is the size of. *)
Content == {"none", "coap", "received", "counter", "margin", "echo"}
Sizes   == Content \cup {"max", "default"}

(* ComplianceTest.State, a byte. *)
States == 0..255

AppInit ==
    /\ app \in {[IsNetworkJoined |-> ~ota, TxNextPacket |-> TRUE, ScheduleNextTx |-> FALSE,
                AppPort |-> 10, IsTxConfirmed |-> FALSE, AppData |-> "none", AppDataSize |-> "max",
                Running |-> FALSE, State |-> 0, LinkCheck |-> FALSE, EventFlags |-> {},
                TxSeen |-> TRUE] : ota \in OverTheAir}
    /\ mac = [busy |-> FALSE, confirmed |-> FALSE, off |-> FALSE,
              McpsReq |-> FALSE, MlmeReq |-> FALSE, MlmeRequest |-> "none"]
    /\ main = [pc |-> "top", port |-> 0, size |-> "none", ack |-> FALSE]
    /\ timers = {}
    /\ mixed = FALSE /\ exposed = ~app.IsNetworkJoined

Goto(label) == main' = [main EXCEPT !.pc = label]
-----------------------------------------------------------------------------
(***************************************************************************)
(* The callbacks, as functions of the shared memory.                       *)
(***************************************************************************)

(* Port 10 carries an IPv6 packet: it is copied to AppData for the         *)
(* interface, and the case falls through to the next.                      *)
ReceivePacket(a, dl) ==
    IF dl.port = 10 THEN [a EXCEPT !.AppData = "received", !.AppDataSize = "received"] ELSE a

(* The compliance test protocol of port 224. *)
ComplianceCommand(a, dl) ==
    IF ~a.Running
    THEN IF dl.enable
         THEN [a EXCEPT !.IsTxConfirmed = FALSE, !.AppPort = 224, !.AppDataSize = "counter",
                        !.LinkCheck = FALSE, !.Running = TRUE, !.State = 1]
         ELSE a
    ELSE CASE dl.cmd = 0 -> [a EXCEPT !.IsTxConfirmed = FALSE, !.AppPort = 10, !.State = 0,
                                      !.AppDataSize = "default", !.Running = FALSE]
           [] dl.cmd = 1 -> [a EXCEPT !.AppDataSize = "counter", !.State = 1]
           [] dl.cmd \in {2, 3} -> [a EXCEPT !.IsTxConfirmed = (dl.cmd = 2), !.State = 1]
           [] dl.cmd = 4 -> [a EXCEPT !.AppDataSize = "echo", !.AppData = "echo", !.State = 4]
           [] OTHER -> [a EXCEPT !.State = dl.cmd]

(* Ports 1 and 2 only switch a LED. *)
ProcessRxFrame(a, dl) ==
    IF dl.port \in {10, 224} THEN ComplianceCommand(ReceivePacket(a, dl), dl) ELSE a

OnMacEvent(a, dl) ==
    LET joined   == "JoinAccept" \in a.EventFlags
        received == ~joined /\ "Rx" \in a.EventFlags
        checked  == IF received /\ a.Running /\ "LinkCheck" \in a.EventFlags
                    THEN [a EXCEPT !.LinkCheck = TRUE] ELSE a
        read     == IF received /\ "RxData" \in a.EventFlags
                    THEN ProcessRxFrame(checked, dl) ELSE checked
    IN  [read EXCEPT !.IsNetworkJoined = @ \/ joined, !.ScheduleNextTx = TRUE,
                     !.TxSeen = @ \/ "Tx" \in a.EventFlags]

Mark(a, flags) == [a EXCEPT !.EventFlags = @ \cup flags]

(* Mutant: the flags are not cleared. *)
BugFlagsKept(a, dl) == OnMacEvent(a, dl)

(* MacEvent, after which the flags are cleared. *)
MacEvent(a, dl) == [OnMacEvent(a, dl) EXCEPT !.EventFlags = {}]

NoDownlink == [port |-> 0, cmd |-> 0, enable |-> FALSE, off |-> FALSE]

(* Mutant: the flags are cleared though the event is left to a later call. *)
BugFlagsCleared(a, McpsInd, MlmeReq) ==
    IF ~McpsInd /\ ~MlmeReq THEN MacEvent(Mark(a, {"Tx"}), NoDownlink)
    ELSE [a EXCEPT !.EventFlags = {}]

(* The event of a confirm is left to the indication or the MLME confirm    *)
(* that follows in the same state check.                                   *)
McpsConfirm(a, McpsInd, MlmeReq) ==
    LET marked == Mark(a, {"Tx"})
    IN  IF ~McpsInd /\ ~MlmeReq THEN MacEvent(marked, NoDownlink) ELSE marked

(* Mutant: an MLME request that failed makes no event. *)
BugFailureSilent(a, McpsInd, ok, MlmeRequest) ==
    LET marked == Mark(a, {"Tx", "Rx", IF MlmeRequest = "join" THEN "JoinAccept" ELSE "LinkCheck"})
    IN  IF ok /\ ~McpsInd THEN MacEvent(marked, NoDownlink) ELSE a

MlmeConfirm(a, McpsInd, ok, MlmeRequest) ==
    LET marked == IF ~ok THEN a
                  ELSE Mark(a, {"Tx", "Rx", IF MlmeRequest = "join" THEN "JoinAccept" ELSE "LinkCheck"})
    IN  IF ~McpsInd THEN MacEvent(marked, NoDownlink) ELSE marked

McpsIndication(a, dl) == MacEvent(Mark(a, IF dl.port = 0 THEN {"Rx"} ELSE {"Rx", "RxData"}), dl)
-----------------------------------------------------------------------------
(***************************************************************************)
(* Interrupts.                                                             *)
(***************************************************************************)

(* OnJoinReqTimerEvent, OnTxNextPacketTimerEvent. *)
OnTimerEvent(t) ==
    /\ t \in timers
    /\ timers' = timers \ {t}
    /\ app' = [app EXCEPT !.TxNextPacket = TRUE]
    /\ UNCHANGED <<mac, main, mixed, exposed>>

(* What a state check hands to the API: the confirms if the exchange is    *)
(* over, then the indication.                                              *)
Reported(over, ind, ok, dl) ==
    LET a1 == IF over /\ mac.McpsReq THEN McpsConfirm(app, ind, mac.MlmeReq) ELSE app
        a2 == IF over /\ mac.MlmeReq THEN MlmeConfirm(a1, ind, ok, mac.MlmeRequest) ELSE a1
    IN  IF ind THEN McpsIndication(a2, dl) ELSE a2

(* ComplianceTest case 5, in the indication: LoRaMacLinkCheckReq. *)
LinkCheckAsked(ind, dl) == ind /\ app.Running /\ dl.port \in {10, 224} /\ dl.cmd = 5

OnMacStateCheck(over, ind, ok, dl) ==
    LET a == Reported(over, ind, ok, dl)
    IN  /\ mac.busy
        /\ UNCHANGED <<main, mixed>>
        /\ \E asked \in {FALSE, over /\ LinkCheckAsked(ind, dl)} :
                  mac' = [busy |-> ~over, confirmed |-> mac.confirmed /\ ~over, off |-> mac.off \/ dl.off,
                          McpsReq |-> mac.McpsReq /\ ~over,
                          MlmeReq |-> (mac.MlmeReq /\ ~over) \/ asked,
                          MlmeRequest |-> IF asked THEN "link"
                                          ELSE IF over THEN "none" ELSE mac.MlmeRequest]
        /\ app' = a
        /\ timers' = IF a.IsNetworkJoined /\ ~app.IsNetworkJoined THEN timers \ {"JoinReq"} ELSE timers
        /\ exposed' = (exposed \/ a.Running)

(* A join is repeated by the MAC until it is accepted or a transmission    *)
(* times out.  A downlink with data ends an unconfirmed exchange.          *)
ExchangeEnds ==
    \E ok \in {FALSE, mac.MlmeReq} :
        \/ OnMacStateCheck(TRUE, FALSE, ok, NoDownlink)
        \/ /\ mac.McpsReq
           /\ \E dl \in Downlink : OnMacStateCheck(TRUE, TRUE, ok, dl)

IndicationWhileBusy ==
    /\ mac.confirmed
    /\ \E dl \in Downlink : OnMacStateCheck(FALSE, TRUE, FALSE, dl)
-----------------------------------------------------------------------------
(***************************************************************************)
(* The main loop.                                                          *)
(***************************************************************************)

(* while( IsNetworkJoined == false ) *)
WhileNotJoined ==
    /\ main.pc = "top"
    /\ IF app.IsNetworkJoined THEN Goto("schedule?") /\ UNCHANGED app
       ELSE IF app.TxNextPacket
       THEN Goto("join") /\ app' = [app EXCEPT !.TxNextPacket = FALSE]
       ELSE UNCHANGED <<main, app>>
    /\ UNCHANGED <<mac, timers, mixed, exposed>>

(* LoRaMacJoinReq.  Status 1 (busy) does not start the timer again. *)
LoRaMacJoinReq ==
    /\ main.pc = "join"
    /\ IF mac.busy THEN Goto("top") /\ UNCHANGED mac
       ELSE /\ Goto("join timer")
            /\ mac' = [mac EXCEPT !.busy = TRUE, !.MlmeReq = TRUE, !.MlmeRequest = "join"]
    /\ UNCHANGED <<app, timers, mixed, exposed>>

StartJoinReqTimer ==
    /\ main.pc = "join timer"
    /\ timers' = timers \cup {"JoinReq"}
    /\ Goto("top")
    /\ UNCHANGED <<app, mac, mixed, exposed>>

TestScheduleNextTx ==
    /\ main.pc = "schedule?"
    /\ Goto(IF app.ScheduleNextTx THEN "schedule" ELSE "next?")
    /\ app' = [app EXCEPT !.ScheduleNextTx = FALSE]
    /\ UNCHANGED <<mac, timers, mixed, exposed>>

(* Mutant: the timer is not started. *)
BugTimerNotStarted ==
    /\ main.pc = "schedule"
    /\ Goto("next?")
    /\ app' = [app EXCEPT !.TxNextPacket = @ \/ app.Running]
    /\ UNCHANGED <<mac, timers, mixed, exposed>>

ScheduleNextTx ==
    /\ main.pc = "schedule"
    /\ Goto("next?")
    /\ IF app.Running THEN app' = [app EXCEPT !.TxNextPacket = TRUE] /\ UNCHANGED timers
       ELSE timers' = timers \cup {"TxNextPacket"} /\ UNCHANGED app
    /\ UNCHANGED <<mac, mixed, exposed>>

(* Mutant: TxNextPacket is not cleared. *)
BugTxNextPacketKept ==
    /\ main.pc = "next?"
    /\ Goto(IF app.TxNextPacket THEN "prepare" ELSE "top")
    /\ UNCHANGED <<app, mac, timers, mixed, exposed>>

TestTxNextPacket ==
    /\ main.pc = "next?"
    /\ Goto(IF app.TxNextPacket THEN "prepare" ELSE "top")
    /\ app' = [app EXCEPT !.TxNextPacket = FALSE]
    /\ UNCHANGED <<mac, timers, mixed, exposed>>

(* PrepareTxFrame.  On port 10 coap_output goes through the stack to       *)
(* low_level_output, which copies the packet and then sets its size.       *)
PrepareTxFrame ==
    /\ main.pc = "prepare"
    /\ IF app.AppPort = 10
       THEN app' = [app EXCEPT !.AppData = "coap"] /\ Goto("size")
       ELSE /\ Goto("send")
            /\ app' = IF app.LinkCheck
                      THEN [app EXCEPT !.LinkCheck = FALSE, !.AppDataSize = "margin",
                                       !.AppData = "margin", !.State = 1]
                      ELSE IF app.State = 4 THEN [app EXCEPT !.State = 1]
                      ELSE IF app.State = 1
                      THEN [app EXCEPT !.AppDataSize = "counter", !.AppData = "counter"]
                      ELSE app
    /\ UNCHANGED <<mac, timers, mixed, exposed>>

SetAppDataSize ==
    /\ main.pc = "size"
    /\ app' = [app EXCEPT !.AppDataSize = "coap"]
    /\ Goto("send")
    /\ UNCHANGED <<mac, timers, mixed, exposed>>

(* SendFrame reads its arguments ... *)
SendFrame ==
    /\ main.pc = "send"
    /\ main' = [main EXCEPT !.pc = "request",
                            !.port = app.AppPort, !.size = app.AppDataSize,
                            !.ack = app.IsTxConfirmed]
    /\ UNCHANGED <<app, mac, timers, mixed, exposed>>

(* The status codes of LoRaMacSendFrame and LoRaMacSendConfirmedFrame.     *)
(* A frame may be too long for the data rate.  No request returns the      *)
(* status 5 that SendFrame answers with true, so trySendingFrameAgain      *)
(* stays false and the loop never takes the branch that tests it.          *)
Statuses == IF mac.busy THEN {1} ELSE IF mac.off THEN {3, 6} ELSE {0, 3}

Accepted(ack) ==
    /\ mac' = [mac EXCEPT !.busy = TRUE, !.confirmed = ack, !.McpsReq = TRUE]
    /\ app' = [app EXCEPT !.TxSeen = FALSE]

(* ... and the MAC copies the buffer. *)
LoRaMacSendFrame ==
    /\ main.pc = "request"
    /\ \E status \in Statuses :
        /\ main' = [pc |-> IF status = 3 THEN "flush" ELSE "top",
                    port |-> 0, size |-> "none", ack |-> FALSE]
        /\ IF status = 0
           THEN /\ Accepted(main.ack)
                /\ mixed' = (mixed \/ (~exposed /\ CoapFrame #
                               [port |-> main.port, data |-> app.AppData, size |-> main.size]))
           ELSE UNCHANGED <<app, mac, mixed>>
    /\ UNCHANGED <<timers, exposed>>

(* Status 3: an empty frame flushes the MAC commands. *)
FlushMacCommands ==
    /\ main.pc = "flush"
    /\ Goto("top")
    /\ IF mac.busy \/ mac.off THEN UNCHANGED <<app, mac>> ELSE Accepted(FALSE)
    /\ UNCHANGED <<timers, mixed, exposed>>

MainLoop ==
    \/ WhileNotJoined \/ LoRaMacJoinReq \/ StartJoinReqTimer
    \/ TestScheduleNextTx \/ ScheduleNextTx \/ TestTxNextPacket
    \/ PrepareTxFrame \/ SetAppDataSize \/ SendFrame \/ LoRaMacSendFrame \/ FlushMacCommands

AppNext ==
    \/ MainLoop \/ ExchangeEnds \/ IndicationWhileBusy
    \/ \E t \in {"JoinReq", "TxNextPacket"} : OnTimerEvent(t)

(* The main loop runs, the started transmission timer expires (module      *)
(* TimerList) and an exchange ends.                                        *)
AppFairness ==
    WF_appVars(MainLoop) /\ WF_appVars(ExchangeEnds) /\ WF_appVars(OnTimerEvent("TxNextPacket"))

AppSpec == AppInit /\ [][AppNext]_appVars /\ AppFairness
-----------------------------------------------------------------------------
(***************************************************************************)
(* Properties.                                                             *)
(***************************************************************************)

(* The shared memory, given the values EventFlags may have. *)
AppRecord(flags) ==
    [IsNetworkJoined : BOOLEAN, TxNextPacket : BOOLEAN, ScheduleNextTx : BOOLEAN,
     AppPort : {10, 224}, IsTxConfirmed : BOOLEAN, AppData : Content, AppDataSize : Sizes,
     Running : BOOLEAN, State : States, LinkCheck : BOOLEAN, EventFlags : flags, TxSeen : BOOLEAN]

(* Every field has its type; no event is left over between two callbacks. *)
AppTypeOK ==
    /\ app \in AppRecord({{}})
    /\ mac \in [busy : BOOLEAN, confirmed : BOOLEAN, off : BOOLEAN, McpsReq : BOOLEAN,
                MlmeReq : BOOLEAN, MlmeRequest : {"none", "join", "link"}]
    /\ main \in [pc : {"top", "join", "join timer", "schedule?", "schedule", "next?", "prepare",
                        "size", "send", "request", "flush"},
                 port : {0, 10, 224}, size : Sizes, ack : BOOLEAN]
    /\ timers \subseteq {"JoinReq", "TxNextPacket"}
    /\ {mixed, exposed} \subseteq BOOLEAN

(* The handshake of flags, timer and MAC events loses no wake-up: while    *)
(* the device is joined and not switched off, a next transmission is       *)
(* requested, scheduled or timed, or the MAC is at work and will report.   *)
NoLostWakeUp ==
    app.IsNetworkJoined /\ ~mac.off =>
        \/ app.TxNextPacket \/ app.ScheduleNextTx
        \/ "TxNextPacket" \in timers
        \/ mac.busy
        \/ main.pc \in {"schedule", "prepare", "size", "send", "request", "flush"}

(* A frame the MAC accepted is reported to the application as transmitted  *)
(* no later than the MAC is idle again, whichever of the three callbacks   *)
(* makes the event.                                                        *)
EveryFrameReported == app.TxSeen \/ (mac.busy /\ mac.McpsReq)

(* A device activated by personalisation that ran no compliance test sends *)
(* the CoAP message prepared for the frame with its own size, though       *)
(* callbacks write received packets into the same array: it never prepares *)
(* a frame while the MAC may still receive.  In the other cases it may: a  *)
(* join timer that expires as the join is accepted, or an indication in    *)
(* the middle of a confirmed exchange, makes it prepare too early.         *)
FrameIsPrepared == ~mixed

(* A joined device that is not switched off keeps handing frames to the    *)
(* MAC.                                                                    *)
KeepsSending ==
    []<>(app.IsNetworkJoined /\ ~mac.off => main.pc = "request")
-----------------------------------------------------------------------------
(***************************************************************************)
(* What makes the safety properties inductive.                             *)
(***************************************************************************)

(* A MAC at work has a request to confirm. *)
BusyIsPending == mac.busy => mac.McpsReq \/ mac.MlmeReq

Sending == {"prepare", "size", "send", "request", "flush"}

(* While the device is not exposed, one thing at a time brings the next    *)
(* transmission about: a flag, the timer, a step of the main loop or the   *)
(* MAC; so nothing is received while a frame is prepared.                  *)
OneTurn ==
    ~exposed =>
        /\ app.IsNetworkJoined /\ ~app.Running /\ app.AppPort = 10 /\ ~app.IsTxConfirmed
        /\ ~mac.confirmed /\ ~main.ack
        /\ "JoinReq" \notin timers /\ main.pc \notin {"join", "join timer"}
        /\ mac.busy => main.pc \notin {"schedule"} \cup Sending
        /\ mac.busy \/ main.pc \in {"schedule"} \cup Sending =>
              ~app.TxNextPacket /\ ~app.ScheduleNextTx /\ "TxNextPacket" \notin timers
        /\ app.TxNextPacket => ~app.ScheduleNextTx /\ "TxNextPacket" \notin timers
        /\ app.ScheduleNextTx => "TxNextPacket" \notin timers
        /\ main.pc \in {"size", "send", "request"} => app.AppData = "coap"
        /\ main.pc \in {"send", "request"} => app.AppDataSize = "coap"
        /\ main.pc = "request" => main.port = 10 /\ main.size = "coap"
=============================================================================
