------------------------------- MODULE LoRaMac -------------------------------
(***************************************************************************)
(* The class A MAC layer of src/src/mac/LoRaMac.c: the exchange that       *)
(* starts with an MCPS or MLME request of the application and ends with    *)
(* the confirm callback.  Timer events run in the RTC alarm interrupt,     *)
(* radio events in the DIO interrupts of the transceiver, requests in the  *)
(* main loop.                                                              *)
(*                                                                         *)
(* Abstractions.  A frame in LoRaMacBuffer keeps its type, its frame       *)
(* counter and its ACK bit.  The channel choice of ScheduleTx is reduced   *)
(* to its three outcomes (send now, send later, device off).  A downlink   *)
(* keeps the header fields the handler branches on.  Of the MAC commands   *)
(* only those that change the control of an exchange are kept.             *)
(***************************************************************************)
EXTENDS Integers

CONSTANTS
    NbTrials,            \* NbTrials values a confirmed request may carry
    NbReps,              \* ChannelsNbRep values the network or the MIB may set
    McpsTypes,           \* data services the application uses
    MlmeTypes,           \* management services the application uses
    MibTypes,            \* MIB attributes the application sets
    Downlinks,           \* frames the network may send
    FCntMod,             \* frame counters travel modulo this (2^16 in the code)
    MAX_FCNT_GAP,        \* largest accepted counter gap plus one
    MAX_ACK_RETRIES,     \* 8 in the code
    Preemption,          \* may a DIO interrupt preempt a timer event?
    MaxUpLinkCounter,    \* bound: no request once UpLinkCounter exceeds it
    MaxDownLinkCounter   \* bound: largest counter of a downlink

(***************************************************************************)
(* LoRaMacState, LoRaMacFlags, status codes and the two callback records.  *)
(* In class A the bits MAC_RX, MAC_ACK_REQ and MAC_ACK_RETRY are never     *)
(* set, and MAC_TX_CONFIG is set and cleared within one handler.           *)
(***************************************************************************)
StateBits == {"TX_RUNNING", "TX_DELAYED", "RX_ABORT"}

FlagBits == {"McpsReq", "McpsInd", "MlmeReq", "MacDone"}

EventInfoStatus == {"OK", "ERROR", "TX_TIMEOUT", "RX2_TIMEOUT", "RX2_ERROR", "JOIN_FAIL"}

Timers == {"MacStateCheck", "TxDelayed", "RxWindow1", "RxWindow2", "AckTimeout"}

FrameTypes == {"NONE", "JOIN_REQ", "CONFIRMED_UP", "UNCONFIRMED_UP", "PROPRIETARY"}

Frame == [type : FrameTypes, cnt : Nat, ack : BOOLEAN]

(***************************************************************************)
(* A downlink: its message type, whether it is addressed to this node, is  *)
(* intact (its MIC was computed with the session key over the full         *)
(* counter) and carries the ACK bit; where its MAC command is: with no     *)
(* payload or an application payload it is in FOpts, "mac" is a port 0     *)
(* payload, "macOpts" a port 0 payload in a frame that also has FOpts.     *)
(***************************************************************************)
Downlink == [mtype : {"JOIN_ACCEPT", "CONFIRMED_DOWN", "UNCONFIRMED_DOWN", "PROPRIETARY", "OTHER"},
             own   : BOOLEAN,
             auth  : BOOLEAN,
             ack   : BOOLEAN,
             body  : {"none", "app", "mac", "macOpts"},
             cmd   : {"none", "LINK_CHECK_ANS", "DUTY_CYCLE_OFF", "LINK_ADR_REQ"},
             nbRep : Nat]

ASSUME ConstantsAssumption ==
    /\ NbTrials \subseteq Nat \ {0}
    /\ NbReps \subseteq Nat \ {0}
    /\ McpsTypes \subseteq {"CONFIRMED_UP", "UNCONFIRMED_UP", "PROPRIETARY"}
    /\ MlmeTypes \subseteq {"JOIN", "LINK_CHECK", "LINK_CHECK_FULL"}
    /\ MibTypes \subseteq {"NETWORK_JOINED", "CHANNELS_NB_REP"}
    /\ Downlinks \subseteq Downlink
    /\ \A d \in Downlinks : d.cmd = "LINK_ADR_REQ" => d.nbRep \in NbReps
    /\ FCntMod \in Nat \ {0}
    /\ MAX_FCNT_GAP \in 1..FCntMod
    /\ MAX_ACK_RETRIES \in Nat
    /\ Preemption \in BOOLEAN
    /\ MaxUpLinkCounter \in Nat
    /\ MaxDownLinkCounter \in Nat

VARIABLES
    LoRaMacState, LoRaMacFlags, McpsConfirm, MlmeConfirm,
    NodeAckRequested, AckTimeoutRetries, AckTimeoutRetriesCounter, AckTimeoutRetry,
    ChannelsNbRepCounter,
    IsLoRaMacNetworkJoined, UpLinkCounter, DownLinkCounter, SrvAckRequested,
    ChannelsNbRep,
    deviceOff,      \* MaxDCycle = 255
    LoRaMacBuffer,  \* the frame prepared last
    RxSlot,
    timers,         \* the timers that are running
    radio,          \* Radio.GetStatus( ): "idle", "tx" or "rx"
    suspended,      \* the timer event a DIO interrupt may now preempt
    history         \* of the frame in LoRaMacBuffer: transmissions started,
                    \* one completed, one timed out; acknowledged by a frame
                    \* that is indicated, by one that is not; the largest
                    \* counter of an earlier frame that completed one, and
                    \* whether the frame before this one timed out

serviceVars  == <<LoRaMacState, LoRaMacFlags, McpsConfirm, MlmeConfirm>>
exchangeVars == <<NodeAckRequested, AckTimeoutRetries, AckTimeoutRetriesCounter,
                  AckTimeoutRetry, ChannelsNbRepCounter, LoRaMacBuffer>>
sessionVars  == <<IsLoRaMacNetworkJoined, UpLinkCounter, DownLinkCounter,
                  SrvAckRequested, ChannelsNbRep, deviceOff>>
hardwareVars == <<RxSlot, timers, radio, suspended>>
vars == <<serviceVars, exchangeVars, sessionVars, hardwareVars, history>>

History == [trials : Nat, aired : BOOLEAN, timedOut : BOOLEAN, acked : BOOLEAN,
            silentAck : BOOLEAN, used : Nat, afterTimeout : BOOLEAN]

(* Both callback records hold what the confirm callbacks report. *)
TypeOK ==
    /\ LoRaMacState \subseteq StateBits
    /\ LoRaMacFlags \subseteq FlagBits
    /\ McpsConfirm \in [Status : EventInfoStatus, AckReceived : BOOLEAN,
                        NbRetries : Nat, UpLinkCounter : Nat]
    /\ MlmeConfirm \in [Status : EventInfoStatus, MlmeRequest : {"JOIN", "LINK_CHECK"}]
    /\ NodeAckRequested \in BOOLEAN
    /\ AckTimeoutRetries \in Nat
    /\ AckTimeoutRetriesCounter \in Nat \ {0}
    /\ AckTimeoutRetry \in BOOLEAN
    /\ ChannelsNbRepCounter \in Nat
    /\ IsLoRaMacNetworkJoined \in BOOLEAN
    /\ UpLinkCounter \in Nat
    /\ DownLinkCounter \in Nat
    /\ SrvAckRequested \in BOOLEAN
    /\ ChannelsNbRep \in Nat \ {0}
    /\ deviceOff \in BOOLEAN
    /\ LoRaMacBuffer \in Frame
    /\ RxSlot \in {0, 1}
    /\ timers \subseteq Timers
    /\ radio \in {"idle", "tx", "rx"}
    /\ suspended \in {"none", "MacStateCheck", "RxWindow2"}
    /\ history \in History

NewHistory == [trials |-> 0, aired |-> FALSE, timedOut |-> FALSE, acked |-> FALSE,
               silentAck |-> FALSE, used |-> 0, afterTimeout |-> FALSE]

(* LoRaMacInitialization with the initializers of the static variables. *)
Init ==
    /\ LoRaMacState = {}
    /\ LoRaMacFlags = {}
    /\ McpsConfirm = [Status |-> "OK", AckReceived |-> FALSE, NbRetries |-> 0, UpLinkCounter |-> 0]
    /\ MlmeConfirm = [Status |-> "OK", MlmeRequest |-> "JOIN"]
    /\ NodeAckRequested = FALSE
    /\ AckTimeoutRetries = 1
    /\ AckTimeoutRetriesCounter = 1
    /\ AckTimeoutRetry = FALSE
    /\ ChannelsNbRepCounter = 0
    /\ IsLoRaMacNetworkJoined = FALSE
    /\ UpLinkCounter = 1
    /\ DownLinkCounter = 0
    /\ SrvAckRequested = FALSE
    /\ ChannelsNbRep = 1
    /\ deviceOff = FALSE
    /\ LoRaMacBuffer = [type |-> "NONE", cnt |-> 0, ack |-> FALSE]
    /\ RxSlot = 0
    /\ timers = {}
    /\ radio = "idle"
    /\ suspended = "none"
    /\ history = NewHistory

(***************************************************************************)
(* Who may run.  The main loop and the timer events wait until a timer     *)
(* event under way returns; the DIO interrupts have a higher priority than *)
(* the RTC alarm (1 against 4) and need not wait.                          *)
(***************************************************************************)
MainLoopRuns == suspended = "none"

TimerEventRuns == suspended = "none"

RadioEventRuns == suspended = "none" \/ Preemption

If(c, S) == IF c THEN S ELSE {}
-----------------------------------------------------------------------------
(***************************************************************************)
(* ScheduleTx and SendFrameOnChannel.  The callers differ in what else     *)
(* they assign, so the effect is given variable by variable for an         *)
(* outcome o.  "now": the frame is on the radio; "later": the duty cycle   *)
(* postpones it; "off": nothing happens.                                   *)
(***************************************************************************)
ScheduleTx == IF deviceOff THEN {"off"} ELSE {"now", "later"}

(* Mutant: SendFrameOnChannel forgets MAC_TX_RUNNING. *)
BugStateNotRunning(S, o) == S \cup If(o = "later", {"TX_DELAYED"})

ScheduledState(S, o) == S \cup If(o = "now", {"TX_RUNNING"}) \cup If(o = "later", {"TX_DELAYED"})

(* Mutant: SendFrameOnChannel does not start MacStateCheckTimer. *)
BugNoStateCheck(T, o) == T \cup If(o = "later", {"TxDelayed"})

ScheduledTimers(T, o) == T \cup If(o = "now", {"MacStateCheck"}) \cup If(o = "later", {"TxDelayed"})

ScheduledRadio(o) == IF o = "now" THEN "tx" ELSE radio

SentConfirm(c, o) == IF o = "now" THEN [c EXCEPT !.Status = "ERROR"] ELSE c

(* Trials are counted up to the first one past MAX_ACK_RETRIES + 1. *)
SentHistory(h, o) ==
    IF o = "now" /\ h.trials < MAX_ACK_RETRIES + 2 THEN [h EXCEPT !.trials = @ + 1] ELSE h

(***************************************************************************)
(* PrepareFrame replaces the frame in LoRaMacBuffer.                       *)
(***************************************************************************)
IsData(f) == f.type \in {"CONFIRMED_UP", "UNCONFIRMED_UP"}

PreparedFrame(type) ==
    [type |-> type,
     cnt  |-> UpLinkCounter,
     ack  |-> type \in {"CONFIRMED_UP", "UNCONFIRMED_UP"} /\ SrvAckRequested]

(* The largest counter on air so far. *)
LastAired == IF history.aired /\ IsData(LoRaMacBuffer) THEN LoRaMacBuffer.cnt ELSE history.used

PreparedHistory == [NewHistory EXCEPT !.used = LastAired, !.afterTimeout = history.timedOut]
-----------------------------------------------------------------------------
(***************************************************************************)
(* Requests of the application.                                            *)
(***************************************************************************)

(* Mutants: the retry counter starts at 0, or keeps the last request's     *)
(* value.                                                                  *)
BugResetToZero(type, n) ==
    /\ AckTimeoutRetries' = IF type = "CONFIRMED_UP" THEN n ELSE 1
    /\ AckTimeoutRetriesCounter' = IF type = "CONFIRMED_UP" THEN 0 ELSE AckTimeoutRetriesCounter

BugNoReset(type, n) ==
    /\ AckTimeoutRetries' = IF type = "CONFIRMED_UP" THEN n ELSE 1
    /\ AckTimeoutRetriesCounter' = AckTimeoutRetriesCounter

(* LoRaMacMcpsRequest resets the retry bookkeeping before it sends: the    *)
(* counter only for a confirmed request, the limit for all of them.        *)
McpsReset(type, n) ==
    /\ AckTimeoutRetries' = IF type = "CONFIRMED_UP" THEN n ELSE 1
    /\ AckTimeoutRetriesCounter' = IF type = "CONFIRMED_UP" THEN 1 ELSE AckTimeoutRetriesCounter

McpsBusy == LoRaMacState \cap {"TX_RUNNING", "TX_DELAYED"} # {}

ClearedMcpsConfirm == [Status |-> "ERROR", AckReceived |-> FALSE, NbRetries |-> 0, UpLinkCounter |-> 0]

(* The request is accepted, or refused by ScheduleTx after the frame was   *)
(* prepared because the network switched the device off.                   *)
McpsRequest(type, n) ==
    /\ MainLoopRuns /\ ~McpsBusy
    /\ UpLinkCounter <= MaxUpLinkCounter
    /\ type = "PROPRIETARY" \/ IsLoRaMacNetworkJoined
    /\ \E o \in ScheduleTx :
        /\ LoRaMacState' = ScheduledState(LoRaMacState, o)
        /\ LoRaMacFlags' = LoRaMacFlags \cup If(o # "off", {"McpsReq"})
        /\ McpsConfirm' = [ClearedMcpsConfirm EXCEPT !.UpLinkCounter = UpLinkCounter]
        /\ MlmeConfirm' = SentConfirm(MlmeConfirm, o)
        /\ NodeAckRequested' = (type = "CONFIRMED_UP" /\ o # "off")
        /\ timers' = ScheduledTimers(timers, o)
        /\ radio' = ScheduledRadio(o)
        /\ history' = SentHistory(PreparedHistory, o)
    /\ McpsReset(type, n)
    /\ LoRaMacBuffer' = PreparedFrame(type)
    /\ SrvAckRequested' = (SrvAckRequested /\ type = "PROPRIETARY")
    /\ UNCHANGED <<AckTimeoutRetry, ChannelsNbRepCounter, IsLoRaMacNetworkJoined, UpLinkCounter,
                   DownLinkCounter, ChannelsNbRep, deviceOff, RxSlot, suspended>>

(* The request is refused before a frame is prepared: no network was       *)
(* joined or the payload does not fit; or, before NodeAckRequested is      *)
(* touched, the data rate is out of range.                                 *)
McpsRequestRefused(type, n) ==
    /\ MainLoopRuns /\ ~McpsBusy
    /\ McpsConfirm' = ClearedMcpsConfirm
    /\ McpsReset(type, n)
    /\ \/ type # "PROPRIETARY" /\ NodeAckRequested' = FALSE
       \/ UNCHANGED NodeAckRequested
    /\ UNCHANGED <<LoRaMacState, LoRaMacFlags, MlmeConfirm, AckTimeoutRetry, ChannelsNbRepCounter,
                   LoRaMacBuffer, sessionVars, hardwareVars, history>>

JoinBusy == "TX_DELAYED" \in LoRaMacState

ResetMacParameters ==
    /\ IsLoRaMacNetworkJoined' = FALSE
    /\ UpLinkCounter' = 1
    /\ DownLinkCounter' = 0
    /\ ChannelsNbRepCounter' = 0
    /\ AckTimeoutRetries' = 1
    /\ AckTimeoutRetriesCounter' = 1
    /\ AckTimeoutRetry' = FALSE
    /\ deviceOff' = FALSE
    /\ ChannelsNbRep' = 1
    /\ NodeAckRequested' = FALSE
    /\ SrvAckRequested' = FALSE

(* LoRaMacMlmeRequest, MLME_JOIN: ResetMacParameters, then Send. *)
MlmeJoinRequest ==
    /\ MainLoopRuns /\ "JOIN" \in MlmeTypes
    /\ "TX_RUNNING" \notin LoRaMacState /\ ~JoinBusy
    /\ \E o \in {"now", "later"} :
        /\ LoRaMacState' = ScheduledState(LoRaMacState, o)
        /\ McpsConfirm' = SentConfirm([McpsConfirm EXCEPT !.NbRetries = 0, !.AckReceived = FALSE,
                                                          !.UpLinkCounter = 1], o)
        /\ timers' = ScheduledTimers(timers, o)
        /\ radio' = ScheduledRadio(o)
        /\ history' = SentHistory(NewHistory, o)
    /\ LoRaMacFlags' = LoRaMacFlags \cup {"MlmeReq"}
    /\ MlmeConfirm' = [Status |-> "ERROR", MlmeRequest |-> "JOIN"]
    /\ ResetMacParameters
    /\ LoRaMacBuffer' = [type |-> "JOIN_REQ", cnt |-> 0, ack |-> FALSE]
    /\ UNCHANGED <<RxSlot, suspended>>

(* MLME_JOIN while a transmission is delayed returns LORAMAC_STATUS_BUSY   *)
(* after MlmeConfirm was cleared; MLME_JOIN is 0.                          *)
MlmeJoinRequestBusy ==
    /\ MainLoopRuns /\ "JOIN" \in MlmeTypes
    /\ "TX_RUNNING" \notin LoRaMacState /\ JoinBusy
    /\ MlmeConfirm' = [Status |-> "ERROR", MlmeRequest |-> "JOIN"]
    /\ UNCHANGED <<LoRaMacState, LoRaMacFlags, McpsConfirm, exchangeVars, sessionVars,
                   hardwareVars, history>>

(* MLME_LINK_CHECK only queues a MAC command for the next uplink. *)
MlmeLinkCheckRequest ==
    /\ MainLoopRuns /\ "LINK_CHECK" \in MlmeTypes
    /\ "TX_RUNNING" \notin LoRaMacState
    /\ MlmeConfirm' = [Status |-> "ERROR", MlmeRequest |-> "LINK_CHECK"]
    /\ LoRaMacFlags' = LoRaMacFlags \cup {"MlmeReq"}
    /\ UNCHANGED <<LoRaMacState, McpsConfirm, exchangeVars, sessionVars, hardwareVars, history>>

(* The same when AddMacCommand finds the command buffer full. *)
MlmeLinkCheckRequestFull ==
    /\ MainLoopRuns /\ "LINK_CHECK_FULL" \in MlmeTypes
    /\ "TX_RUNNING" \notin LoRaMacState
    /\ MlmeConfirm' = [Status |-> "ERROR", MlmeRequest |-> "LINK_CHECK"]
    /\ LoRaMacFlags' = LoRaMacFlags \ {"MlmeReq"}
    /\ NodeAckRequested' = FALSE
    /\ UNCHANGED <<LoRaMacState, McpsConfirm, AckTimeoutRetries, AckTimeoutRetriesCounter,
                   AckTimeoutRetry, ChannelsNbRepCounter, LoRaMacBuffer, sessionVars,
                   hardwareVars, history>>

(* LoRaMacMibSetRequestConfirm, MIB_NETWORK_JOINED (activation by          *)
(* personalization) and MIB_CHANNELS_NB_REP.                               *)
MibSetNetworkJoined ==
    /\ MainLoopRuns /\ "NETWORK_JOINED" \in MibTypes
    /\ "TX_RUNNING" \notin LoRaMacState
    /\ ~IsLoRaMacNetworkJoined
    /\ IsLoRaMacNetworkJoined' = TRUE
    /\ UNCHANGED <<serviceVars, exchangeVars, UpLinkCounter, DownLinkCounter, SrvAckRequested,
                   ChannelsNbRep, deviceOff, hardwareVars, history>>

MibSetChannelsNbRep ==
    /\ MainLoopRuns /\ "CHANNELS_NB_REP" \in MibTypes
    /\ "TX_RUNNING" \notin LoRaMacState
    /\ ChannelsNbRep' \in NbReps
    /\ UNCHANGED <<serviceVars, exchangeVars, IsLoRaMacNetworkJoined, UpLinkCounter,
                   DownLinkCounter, SrvAckRequested, deviceOff, hardwareVars, history>>
-----------------------------------------------------------------------------
(***************************************************************************)
(* Radio events.                                                           *)
(***************************************************************************)

(* OnRadioTxDone: the receive windows are timed from here. *)
OnRadioTxDone ==
    /\ RadioEventRuns /\ radio = "tx"
    /\ radio' = "idle"
    /\ timers' = timers \cup {"RxWindow1", "RxWindow2"} \cup If(NodeAckRequested, {"AckTimeout"})
    /\ McpsConfirm' = IF NodeAckRequested THEN McpsConfirm ELSE [McpsConfirm EXCEPT !.Status = "OK"]
    /\ ChannelsNbRepCounter' = ChannelsNbRepCounter + (IF NodeAckRequested THEN 0 ELSE 1)
    /\ history' = [history EXCEPT !.aired = TRUE]
    /\ UNCHANGED <<LoRaMacState, LoRaMacFlags, MlmeConfirm, NodeAckRequested, AckTimeoutRetries,
                   AckTimeoutRetriesCounter, AckTimeoutRetry, LoRaMacBuffer, sessionVars,
                   RxSlot, suspended>>

OnRadioTxTimeout ==
    /\ RadioEventRuns /\ radio = "tx"
    /\ radio' = "idle"
    /\ McpsConfirm' = [McpsConfirm EXCEPT !.Status = "TX_TIMEOUT"]
    /\ MlmeConfirm' = [MlmeConfirm EXCEPT !.Status = "TX_TIMEOUT"]
    /\ LoRaMacFlags' = LoRaMacFlags \cup {"MacDone"}
    /\ history' = [history EXCEPT !.timedOut = TRUE]
    /\ UNCHANGED <<LoRaMacState, exchangeVars, sessionVars, RxSlot, timers, suspended>>

(* OnRadioRxError and OnRadioRxTimeout differ in the status they report. *)
OnRadioRxFailure(status) ==
    /\ RadioEventRuns /\ radio = "rx"
    /\ radio' = "idle"
    /\ McpsConfirm' = IF RxSlot = 1 /\ NodeAckRequested
                      THEN [McpsConfirm EXCEPT !.Status = status] ELSE McpsConfirm
    /\ MlmeConfirm' = IF RxSlot = 1 THEN [MlmeConfirm EXCEPT !.Status = status] ELSE MlmeConfirm
    /\ LoRaMacFlags' = LoRaMacFlags \cup If(RxSlot = 1, {"MacDone"})
    /\ UNCHANGED <<LoRaMacState, exchangeVars, sessionVars, RxSlot, timers, suspended, history>>

OnRadioRxError == OnRadioRxFailure("RX2_ERROR")

OnRadioRxTimeout == OnRadioRxFailure("RX2_TIMEOUT")

(* Mutant: the difference is signed, so an older frame has a small one. *)
BugSignedDiff(cnt) == cnt - DownLinkCounter

(***************************************************************************)
(* OnRadioRxDone for downlink d whose sender used the counter cnt.  Only   *)
(* cnt % FCntMod is in the frame; the MIC matches when the counter the     *)
(* node reconstructs is the one the sender used.  Both branches of the     *)
(* code reconstruct the previous counter plus the difference.              *)
(***************************************************************************)
SequenceCounterDiff(cnt) == (cnt - DownLinkCounter) % FCntMod

IsDataDown(d) == d.mtype \in {"CONFIRMED_DOWN", "UNCONFIRMED_DOWN"}

ValidDown(d, cnt) ==
    /\ IsDataDown(d)
    /\ d.own
    /\ SequenceCounterDiff(cnt) < MAX_FCNT_GAP
    /\ d.auth
    /\ DownLinkCounter + SequenceCounterDiff(cnt) = cnt

RepeatedDown(cnt) == DownLinkCounter = cnt /\ DownLinkCounter # 0

(* A repeated unconfirmed downlink is dropped, a repeated confirmed one is *)
(* processed again without an indication.                                  *)
AcceptedDown(d, cnt) ==
    ValidDown(d, cnt) /\ (d.mtype = "UNCONFIRMED_DOWN" => ~RepeatedDown(cnt))

(* PrepareRxDoneAbort is called. *)
AbortedDown(d, cnt) ==
    d.mtype = "OTHER" \/ (IsDataDown(d) /\ ~AcceptedDown(d, cnt))

SkipIndication(d, cnt) == RepeatedDown(cnt) \/ d.body = "macOpts"

IndicatedDown(d, cnt) ==
    \/ d.mtype = "PROPRIETARY"
    \/ AbortedDown(d, cnt)
    \/ AcceptedDown(d, cnt) /\ ~SkipIndication(d, cnt)

(* Mutant: the commands are processed before the MIC is verified. *)
BugCommandUnchecked(d, cnt) == d.cmd

(* ProcessMacCommands runs on the commands of the frame. *)
ProcessedCommand(d, cnt) == IF AcceptedDown(d, cnt) /\ d.body # "macOpts" THEN d.cmd ELSE "none"

(* Mutant: PrepareRxDoneAbort schedules a retry of any frame. *)
BugAbortRetriesAll(d, cnt) == AbortedDown(d, cnt)

(* PrepareRxDoneAbort calls OnAckTimeoutTimerEvent. *)
AbortRetries(d, cnt) == AbortedDown(d, cnt) /\ NodeAckRequested

(* Mutants: the acknowledgement timeout is stopped by every valid downlink *)
(* or by none.                                                             *)
BugStoppedByAll(d, cnt) == AbortRetries(d, cnt) \/ AcceptedDown(d, cnt)

BugNeverStopped(d, cnt) == AbortRetries(d, cnt)

AckTimeoutStopped(d, cnt) ==
    \/ AbortRetries(d, cnt)
    \/ AcceptedDown(d, cnt) /\ (d.ack \/ AckTimeoutRetriesCounter > AckTimeoutRetries)

JoinAccepted(d) == d.mtype = "JOIN_ACCEPT" /\ ~IsLoRaMacNetworkJoined /\ d.auth

(* The network sends an authentic data frame only to a node it has in a    *)
(* session.                                                                *)
NetworkSends(d) == IsDataDown(d) /\ d.own /\ d.auth => IsLoRaMacNetworkJoined

OnRadioRxDone(d, cnt) ==
    /\ RadioEventRuns /\ radio = "rx"
    /\ NetworkSends(d)
    /\ radio' = "idle"
    /\ LoRaMacState' = LoRaMacState \cup If(AbortedDown(d, cnt), {"RX_ABORT"})
    /\ LoRaMacFlags' = LoRaMacFlags \cup {"MacDone"} \cup If(IndicatedDown(d, cnt), {"McpsInd"})
    /\ timers' = (timers \ ({"RxWindow2"} \cup If(AckTimeoutStopped(d, cnt), {"AckTimeout"})))
                 \cup {"MacStateCheck"}
    /\ McpsConfirm' = [McpsConfirm EXCEPT
                         !.Status = IF ValidDown(d, cnt) THEN "OK" ELSE @,
                         !.AckReceived = AcceptedDown(d, cnt) /\ d.ack]
    /\ MlmeConfirm' = [MlmeConfirm EXCEPT
                         !.Status = IF JoinAccepted(d) \/ ProcessedCommand(d, cnt) = "LINK_CHECK_ANS"
                                    THEN "OK"
                                    ELSE IF d.mtype = "JOIN_ACCEPT" /\ ~IsLoRaMacNetworkJoined
                                         THEN "JOIN_FAIL" ELSE @]
    /\ AckTimeoutRetry' = (AckTimeoutRetry \/ AbortRetries(d, cnt))
    /\ IsLoRaMacNetworkJoined' = (IsLoRaMacNetworkJoined \/ JoinAccepted(d))
    /\ SrvAckRequested' = IF ValidDown(d, cnt) THEN d.mtype = "CONFIRMED_DOWN" ELSE SrvAckRequested
    /\ DownLinkCounter' = IF AcceptedDown(d, cnt) THEN cnt ELSE DownLinkCounter
    /\ deviceOff' = (deviceOff \/ ProcessedCommand(d, cnt) = "DUTY_CYCLE_OFF")
    /\ ChannelsNbRep' = IF ProcessedCommand(d, cnt) = "LINK_ADR_REQ" THEN d.nbRep ELSE ChannelsNbRep
    /\ history' = [history EXCEPT
                     !.acked = @ \/ (AcceptedDown(d, cnt) /\ d.ack /\ IndicatedDown(d, cnt)),
                     !.silentAck = @ \/ (AcceptedDown(d, cnt) /\ d.ack /\ ~IndicatedDown(d, cnt))]
    /\ UNCHANGED <<NodeAckRequested, AckTimeoutRetries, AckTimeoutRetriesCounter,
                   ChannelsNbRepCounter, LoRaMacBuffer, UpLinkCounter, RxSlot, suspended>>
-----------------------------------------------------------------------------
(***************************************************************************)
(* Timer events.  The two receive windows and the acknowledgement timeout  *)
(* are all started by OnRadioTxDone, with increasing delays, so they       *)
(* expire in that order.                                                   *)
(***************************************************************************)

(* RxWindowSetup opens a window only when the radio is idle. *)
RxWindowSetup == radio' = IF radio = "idle" THEN "rx" ELSE radio

OnRxWindow1TimerEvent ==
    /\ TimerEventRuns /\ "RxWindow1" \in timers
    /\ timers' = timers \ {"RxWindow1"}
    /\ RxSlot' = 0
    /\ RxWindowSetup
    /\ UNCHANGED <<serviceVars, exchangeVars, sessionVars, suspended, history>>

(* OnRxWindow2TimerEvent: radio events of the first window may arrive      *)
(* between the assignment of RxSlot and RxWindowSetup.                     *)
OnRxWindow2TimerEvent ==
    /\ TimerEventRuns /\ "RxWindow2" \in timers /\ "RxWindow1" \notin timers
    /\ timers' = timers \ {"RxWindow2"}
    /\ RxSlot' = 1
    /\ suspended' = "RxWindow2"
    /\ UNCHANGED <<serviceVars, exchangeVars, sessionVars, radio, history>>

OnRxWindow2TimerEventSetup ==
    /\ suspended = "RxWindow2"
    /\ suspended' = "none"
    /\ RxWindowSetup
    /\ UNCHANGED <<serviceVars, exchangeVars, sessionVars, RxSlot, timers, history>>

OnAckTimeoutTimerEvent ==
    /\ TimerEventRuns /\ "AckTimeout" \in timers
    /\ timers \cap {"RxWindow1", "RxWindow2"} = {}
    /\ timers' = timers \ {"AckTimeout"}
    /\ AckTimeoutRetry' = (AckTimeoutRetry \/ NodeAckRequested)
    /\ UNCHANGED <<serviceVars, NodeAckRequested, AckTimeoutRetries, AckTimeoutRetriesCounter,
                   ChannelsNbRepCounter, LoRaMacBuffer, sessionVars, RxSlot, radio, suspended,
                   history>>

(* A delayed join request is prepared again, any other frame is sent as it *)
(* is.                                                                     *)
JoinPending == "MlmeReq" \in LoRaMacFlags /\ MlmeConfirm.MlmeRequest = "JOIN"

OnTxDelayedTimerEvent(o) ==
    /\ TimerEventRuns /\ "TxDelayed" \in timers
    /\ o \in ScheduleTx
    /\ LoRaMacState' = ScheduledState(LoRaMacState \ {"TX_DELAYED"}, o)
    /\ timers' = ScheduledTimers(timers \ {"TxDelayed"}, o)
    /\ radio' = ScheduledRadio(o)
    /\ McpsConfirm' = SentConfirm(McpsConfirm, o)
    /\ MlmeConfirm' = SentConfirm(MlmeConfirm, o)
    /\ IF JoinPending
       THEN /\ NodeAckRequested' = FALSE
            /\ LoRaMacBuffer' = [type |-> "JOIN_REQ", cnt |-> 0, ack |-> FALSE]
            /\ history' = SentHistory(NewHistory, o)
       ELSE /\ history' = SentHistory(history, o)
            /\ UNCHANGED <<NodeAckRequested, LoRaMacBuffer>>
    /\ UNCHANGED <<LoRaMacFlags, AckTimeoutRetries, AckTimeoutRetriesCounter, AckTimeoutRetry,
                   ChannelsNbRepCounter, sessionVars, RxSlot, suspended>>

(***************************************************************************)
(* OnMacStateCheckTimerEvent, first part: what is decided once MacDone is  *)
(* set.  The five decisions are taken in this order.                       *)
(***************************************************************************)
RequestPending == LoRaMacFlags \cap {"McpsReq", "MlmeReq"} # {}

TxTimedOut ==
    RequestPending /\ (McpsConfirm.Status = "TX_TIMEOUT" \/ MlmeConfirm.Status = "TX_TIMEOUT")

(* A join request is repeated until it is answered. *)
RepetitionsDone ==
    IF JoinPending THEN MlmeConfirm.Status = "OK" ELSE ChannelsNbRepCounter >= ChannelsNbRep

UnconfirmedChecked == ~NodeAckRequested /\ ~TxTimedOut /\ RequestPending

UnconfirmedDone == UnconfirmedChecked /\ (RepetitionsDone \/ "McpsInd" \in LoRaMacFlags)

UnconfirmedRepeats == UnconfirmedChecked /\ ~UnconfirmedDone

AckEndsExchange ==
    /\ "McpsInd" \in LoRaMacFlags
    /\ (McpsConfirm.AckReceived /\ ~TxTimedOut) \/ AckTimeoutRetriesCounter > AckTimeoutRetries

RetryDue == AckTimeoutRetry /\ ~AckEndsExchange /\ "TX_DELAYED" \notin LoRaMacState

(* Mutant: one trial too many. *)
BugOneMoreTrial == AckTimeoutRetriesCounter <= AckTimeoutRetries /\ AckTimeoutRetriesCounter <= MAX_ACK_RETRIES

MayRetry == AckTimeoutRetriesCounter < AckTimeoutRetries /\ AckTimeoutRetriesCounter <= MAX_ACK_RETRIES

RetryNow == RetryDue /\ MayRetry

RetryGivesUp == RetryDue /\ ~MayRetry

(* Mutant: an acknowledgement does not end the transmission. *)
BugAckKeepsRunning ==
    If("RX_ABORT" \in LoRaMacState, {"RX_ABORT", "TX_RUNNING"})
    \cup If(TxTimedOut \/ UnconfirmedDone \/ RetryGivesUp, {"TX_RUNNING"})

(* The state bits the decisions clear. *)
ClearedState ==
    If("RX_ABORT" \in LoRaMacState, {"RX_ABORT", "TX_RUNNING"})
    \cup If(TxTimedOut \/ UnconfirmedDone \/ AckEndsExchange \/ RetryGivesUp, {"TX_RUNNING"})

(* Mutants: a join does not restart the counter; a frame that was never    *)
(* acknowledged does not use it up.                                        *)
BugJoinKeepsCounter ==
    UpLinkCounter + (IF UnconfirmedDone THEN 1 ELSE 0)
                  + (IF AckEndsExchange THEN 1 ELSE 0)
                  + (IF RetryGivesUp THEN 1 ELSE 0)

BugCounterKept ==
    UpLinkCounter + (IF UnconfirmedDone THEN 1 ELSE 0) + (IF AckEndsExchange THEN 1 ELSE 0)

(* A successful join restarts the uplink counter. *)
CountedUpLink ==
    (IF ~NodeAckRequested /\ ~TxTimedOut /\ JoinPending /\ MlmeConfirm.Status = "OK"
     THEN 0 ELSE UpLinkCounter)
    + (IF UnconfirmedDone THEN 1 ELSE 0)
    + (IF AckEndsExchange THEN 1 ELSE 0)
    + (IF RetryGivesUp THEN 1 ELSE 0)

CheckedNbRepCounter ==
    IF UnconfirmedDone \/ (~NodeAckRequested /\ ~TxTimedOut /\ JoinPending)
    THEN 0 ELSE ChannelsNbRepCounter

CheckedConfirm ==
    [McpsConfirm EXCEPT
       !.AckReceived = @ /\ ~TxTimedOut /\ ~RetryGivesUp,
       !.NbRetries = IF TxTimedOut \/ AckEndsExchange \/ RetryGivesUp
                     THEN AckTimeoutRetriesCounter ELSE @]

(* The frame goes out again at most once per check: AckTimeoutRetry is set *)
(* only for a confirmed frame (RetryIsForConfirmed).                       *)
SendsAgain == UnconfirmedRepeats \/ RetryNow

OnMacStateCheckTimerEvent ==
    /\ TimerEventRuns /\ "MacStateCheck" \in timers
    /\ suspended' = "MacStateCheck"
    /\ IF "MacDone" \notin LoRaMacFlags
       THEN /\ timers' = timers \ {"MacStateCheck"}
            /\ UNCHANGED <<serviceVars, exchangeVars, sessionVars, RxSlot, radio, history>>
       ELSE /\ \E o \in IF SendsAgain THEN ScheduleTx ELSE {"off"} :
                /\ LoRaMacState' = ScheduledState(LoRaMacState \ ClearedState, o)
                /\ McpsConfirm' = SentConfirm(CheckedConfirm, o)
                /\ MlmeConfirm' = SentConfirm(MlmeConfirm, o)
                /\ timers' = ScheduledTimers(timers \ {"MacStateCheck"}, o)
                /\ radio' = ScheduledRadio(o)
                /\ history' = SentHistory(history, o)
            /\ LoRaMacFlags' = LoRaMacFlags \ If(SendsAgain, {"MacDone"})
            /\ NodeAckRequested' = (NodeAckRequested /\ ~AckEndsExchange /\ ~RetryGivesUp)
            /\ AckTimeoutRetry' = (AckTimeoutRetry /\ ~AckEndsExchange /\ ~RetryDue)
            /\ AckTimeoutRetriesCounter' = AckTimeoutRetriesCounter + (IF RetryNow THEN 1 ELSE 0)
            /\ ChannelsNbRepCounter' = CheckedNbRepCounter
            /\ UpLinkCounter' = CountedUpLink
            /\ UNCHANGED <<AckTimeoutRetries, LoRaMacBuffer, IsLoRaMacNetworkJoined,
                           DownLinkCounter, SrvAckRequested, ChannelsNbRep, deviceOff, RxSlot>>

(***************************************************************************)
(* Second part: when the MAC is idle the confirm callbacks run and the     *)
(* requests are no longer pending, otherwise the timer is started again;   *)
(* last, a pending indication is delivered.                                *)
(***************************************************************************)
OnMacStateCheckTimerEventReport ==
    /\ suspended = "MacStateCheck"
    /\ suspended' = "none"
    /\ LoRaMacFlags' = (LoRaMacFlags \ If(LoRaMacState = {}, {"McpsReq", "MlmeReq", "MacDone"}))
                       \ {"McpsInd"}
    /\ timers' = timers \cup If(LoRaMacState # {}, {"MacStateCheck"})
    /\ UNCHANGED <<LoRaMacState, McpsConfirm, MlmeConfirm, exchangeVars, sessionVars, RxSlot,
                   radio, history>>
-----------------------------------------------------------------------------
Requests ==
    \/ \E type \in McpsTypes : \E n \in IF type = "CONFIRMED_UP" THEN NbTrials ELSE {1} :
         McpsRequest(type, n) \/ McpsRequestRefused(type, n)
    \/ MlmeJoinRequest
    \/ MlmeJoinRequestBusy
    \/ MlmeLinkCheckRequest
    \/ MlmeLinkCheckRequestFull
    \/ MibSetNetworkJoined
    \/ MibSetChannelsNbRep

RadioEvents ==
    \/ OnRadioTxDone
    \/ OnRadioTxTimeout
    \/ OnRadioRxError
    \/ OnRadioRxTimeout
    \/ \E d \in Downlinks, cnt \in 0..MaxDownLinkCounter : OnRadioRxDone(d, cnt)

TimerEvents ==
    \/ OnRxWindow1TimerEvent
    \/ OnRxWindow2TimerEvent
    \/ OnRxWindow2TimerEventSetup
    \/ OnAckTimeoutTimerEvent
    \/ \E o \in {"now", "later", "off"} : OnTxDelayedTimerEvent(o)
    \/ OnMacStateCheckTimerEvent
    \/ OnMacStateCheckTimerEventReport

Next == Requests \/ RadioEvents \/ TimerEvents

Spec == Init /\ [][Next]_vars

(***************************************************************************)
(* Timers expire, interrupted handlers resume and the radio ends every     *)
(* transmission and every receive window (RxTimeoutTimer and               *)
(* TxTimeoutTimer of the driver).  An interrupt raised while a timer event *)
(* is under way stays pending and is served when the event returns, hence  *)
(* strong fairness.  A frame is not delayed for ever.                      *)
(***************************************************************************)
Fairness ==
    /\ SF_vars(OnRadioTxDone \/ OnRadioTxTimeout)
    /\ SF_vars(OnRadioRxError \/ OnRadioRxTimeout
               \/ \E d \in Downlinks, cnt \in 0..MaxDownLinkCounter : OnRadioRxDone(d, cnt))
    /\ SF_vars(OnRxWindow1TimerEvent)
    /\ SF_vars(OnRxWindow2TimerEvent)
    /\ WF_vars(OnRxWindow2TimerEventSetup)
    /\ SF_vars(OnAckTimeoutTimerEvent)
    /\ SF_vars(OnTxDelayedTimerEvent("now"))
    /\ SF_vars(OnMacStateCheckTimerEvent)
    /\ WF_vars(OnMacStateCheckTimerEventReport)

FairSpec == Spec /\ Fairness
-----------------------------------------------------------------------------
(***************************************************************************)
(* Properties.                                                             *)
(***************************************************************************)

(* A step that puts the frame of LoRaMacBuffer on the radio. *)
Transmits == radio # "tx" /\ radio' = "tx"

(* While a data request is pending the MAC refuses the next one: no        *)
(* interleaving of timer and radio events clears both TX_RUNNING and       *)
(* TX_DELAYED without reporting the confirm, so McpsConfirm and            *)
(* LoRaMacBuffer are never overwritten under a pending request.            *)
PendingMeansBusy ==
    "McpsReq" \in LoRaMacFlags /\ suspended # "MacStateCheck" => McpsBusy

(* A busy MAC is always woken up: whenever LoRaMacState is not MAC_IDLE    *)
(* the state check or the delayed transmission timer runs, or the state    *)
(* check is under way.                                                     *)
BusyIsWoken ==
    LoRaMacState # {} =>
        timers \cap {"MacStateCheck", "TxDelayed"} # {} \/ suspended = "MacStateCheck"

(* AckTimeoutRetry is only set while an acknowledgement is awaited, so a   *)
(* state check never schedules a transmission twice.                       *)
RetryIsForConfirmed == AckTimeoutRetry => NodeAckRequested

(* "Number of trials to transmit the frame, if the LoRaMAC layer did not   *)
(* receive an acknowledgment": a confirmed frame of a data request is      *)
(* never on air while no acknowledgement is awaited for it.                *)
ConfirmedFrameAwaitsAck ==
    radio = "tx" /\ LoRaMacBuffer.type = "CONFIRMED_UP" => NodeAckRequested

(* A transmission never starts while the radio is in use or while a        *)
(* receive window or acknowledgement timer of an earlier transmission is   *)
(* still running, whichever of the three callers of ScheduleTx starts it.  *)
TransmitsAlone ==
    [][Transmits => /\ radio = "idle"
                    /\ timers \cap {"RxWindow1", "RxWindow2", "AckTimeout"} = {}]_vars

(* LoRaMac.c on UpLinkCounter: "Each time a packet is sent the counter is  *)
(* incremented".  A data frame never goes on air with the counter of an    *)
(* earlier frame of the session whose transmission completed.              *)
CounterNotReused ==
    radio = "tx" /\ IsData(LoRaMacBuffer) => LoRaMacBuffer.cnt > history.used

(* The one way a counter is used for two frames: the exchange of the first *)
(* ended in a transmit timeout after an earlier trial of it was on air.    *)
CounterReusedOnlyAfterTimeout ==
    radio = "tx" /\ IsData(LoRaMacBuffer) =>
        \/ LoRaMacBuffer.cnt > history.used
        \/ LoRaMacBuffer.cnt = history.used /\ history.afterTimeout

(* A data frame is transmitted at most NbTrials times when confirmed (at   *)
(* most MAX_ACK_RETRIES + 1 times), ChannelsNbRep times otherwise.         *)
TrialsBounded ==
    [][Transmits /\ history'.trials > 1 =>
         \/ LoRaMacBuffer'.type = "JOIN_REQ"
         \/ NodeAckRequested /\ history.trials < AckTimeoutRetries
                             /\ history.trials <= MAX_ACK_RETRIES
         \/ ~NodeAckRequested /\ history.trials < ChannelsNbRep]_vars

(* The confirm callback of a confirmed frame reports an acknowledgement    *)
(* exactly when one was indicated for it; it reports none only after a     *)
(* transmit timeout or when every trial was used.  NbRetries counts every  *)
(* trial, the first included (NbRetriesAreRetransmissions is about what    *)
(* LoRaMac.h says of it).                                                  *)
McpsConfirmed == "McpsReq" \in LoRaMacFlags /\ "McpsReq" \notin LoRaMacFlags'

ConfirmTellsTruth ==
    [][McpsConfirmed /\ LoRaMacBuffer.type = "CONFIRMED_UP" =>
         /\ McpsConfirm.NbRetries = history.trials
         /\ \/ McpsConfirm.AckReceived /\ history.acked
            \/ ~McpsConfirm.AckReceived /\ McpsConfirm.Status = "TX_TIMEOUT"
            \/ /\ ~McpsConfirm.AckReceived /\ ~history.acked
               /\ history.trials >= AckTimeoutRetries \/ history.trials > MAX_ACK_RETRIES]_vars

(* McpsConfirm_t.NbRetries: "Provides the number of retransmissions".  A   *)
(* confirmed frame that was on air once is confirmed with no retry.        *)
NbRetriesAreRetransmissions ==
    [][McpsConfirmed /\ LoRaMacBuffer.type = "CONFIRMED_UP" =>
         McpsConfirm.NbRetries = history.trials - 1]_vars

(* OnRadioRxDone extends the sixteen bits a frame carries to a counter     *)
(* that only grows, by less than MAX_FCNT_GAP at a time and across the     *)
(* roll-over, until a join request starts a new session: an older downlink *)
(* that arrives late never turns the counter back.                         *)
DownlinksInOrder ==
    [][\/ DownLinkCounter' = DownLinkCounter
       \/ DownLinkCounter' \in (DownLinkCounter + 1)..(DownLinkCounter + MAX_FCNT_GAP - 1)
       \/ DownLinkCounter' = 0 /\ ~IsLoRaMacNetworkJoined']_vars

(* The exchange of a confirmed request implements MacService: no more      *)
(* trials than allowed, none after an indicated acknowledgement, and the   *)
(* confirm not before an acknowledgement, the last trial or a radio        *)
(* failure, although radio and timer events interleave freely.             *)
Exchanging == "McpsReq" \in LoRaMacFlags /\ LoRaMacBuffer.type = "CONFIRMED_UP"

TrialLimit == IF AckTimeoutRetries <= MAX_ACK_RETRIES THEN AckTimeoutRetries ELSE MAX_ACK_RETRIES + 1

Service == INSTANCE MacService
             WITH pending <- Exchanging,
                  limit   <- IF Exchanging THEN TrialLimit ELSE 0,
                  trials  <- IF Exchanging THEN history.trials ELSE 0,
                  acked   <- Exchanging /\ history.acked,
                  failed  <- Exchanging /\ history.timedOut

ImplementsMacService == Service!Spec

(* A pending data request waits for something other than the polling       *)
(* state check: the radio, a running timer, a handler under way, a retry   *)
(* that is due, or a finished cycle the state check will close.  The two   *)
(* exceptions: the acknowledgement came in a frame processed without an    *)
(* indication, or the network switched the device off.                     *)
NeverStranded ==
    "McpsReq" \in LoRaMacFlags =>
        \/ radio # "idle"
        \/ suspended # "none"
        \/ timers \cap {"TxDelayed", "RxWindow1", "RxWindow2", "AckTimeout"} # {}
        \/ AckTimeoutRetry
        \/ "MacDone" \in LoRaMacFlags /\ (~NodeAckRequested \/ TxTimedOut \/ AckEndsExchange)
        \/ history.silentAck
        \/ deviceOff

(* LoRaMacMcpsRequest returning LORAMAC_STATUS_OK: "Waiting for the        *)
(* MCPS-Confirm event".  Every accepted data request is eventually         *)
(* answered by the event its caller waits for.                             *)
McpsRequestConfirmed == "McpsReq" \in LoRaMacFlags ~> "McpsReq" \notin LoRaMacFlags

(* OnTxDelayedTimerEvent: "In case of a join request retransmission, the   *)
(* stack must prepare the frame again".  A join request, with its          *)
(* LoRaMacDevNonce, is on air at most once.                                *)
JoinRequestIsFresh ==
    [][Transmits /\ LoRaMacBuffer'.type = "JOIN_REQ" => history'.trials = 1]_vars

(* The MLME-Confirm event that ends a join reports success exactly when    *)
(* the node has joined.                                                    *)
MlmeConfirmed == "MlmeReq" \in LoRaMacFlags /\ "MlmeReq" \notin LoRaMacFlags'

JoinConfirmTellsTruth ==
    [][MlmeConfirmed /\ MlmeConfirm.MlmeRequest = "JOIN" /\ LoRaMacBuffer.type = "JOIN_REQ" =>
         (MlmeConfirm.Status = "OK" <=> IsLoRaMacNetworkJoined)]_vars

(* The first data frame after a join carries the counter 1: the session's  *)
(* uplink counter restarts with the join.                                  *)
SessionStartsAtOne ==
    radio = "tx" /\ IsData(LoRaMacBuffer) /\ history.used = 0 => LoRaMacBuffer.cnt = 1

-----------------------------------------------------------------------------
(***************************************************************************)
(* What makes the safety properties inductive.                             *)
(***************************************************************************)

(* Every state bit has the timer that will clear it; holds also when radio *)
(* events preempt timer events.                                            *)
WakeUpInv ==
    /\ "TX_DELAYED" \in LoRaMacState <=> "TxDelayed" \in timers
    /\ LoRaMacState \cap {"TX_RUNNING", "RX_ABORT"} # {} =>
          "MacStateCheck" \in timers \/ suspended = "MacStateCheck"

Quiet ==
    /\ radio = "idle"
    /\ timers \cap {"RxWindow1", "RxWindow2", "AckTimeout"} = {}
    /\ suspended # "RxWindow2"
    /\ ~AckTimeoutRetry

(* Outside a transmission cycle, while one waits for the duty cycle and    *)
(* after a transmit timeout the radio and the receive timers are at rest   *)
(* and nothing is left over.                                               *)
RestInv ==
    /\ "TX_RUNNING" \notin LoRaMacState \/ "TX_DELAYED" \in LoRaMacState =>
          /\ Quiet
          /\ "RX_ABORT" \notin LoRaMacState
          /\ "MacDone" \in LoRaMacFlags => suspended = "MacStateCheck" /\ LoRaMacState = {}
    /\ "TX_DELAYED" \in LoRaMacState => ~deviceOff
    /\ McpsConfirm.Status = "TX_TIMEOUT" \/ MlmeConfirm.Status = "TX_TIMEOUT" => Quiet

(* The order of one cycle: transmission, first window, second window, end. *)
CycleInv ==
    /\ "MacDone" \in LoRaMacFlags =>
          radio = "idle" /\ timers \cap {"RxWindow1", "RxWindow2"} = {} /\ suspended # "RxWindow2"
    /\ radio = "tx" => timers \cap {"RxWindow1", "RxWindow2", "AckTimeout"} = {} /\ ~AckTimeoutRetry
    /\ radio = "rx" => "RxWindow1" \notin timers /\ (RxSlot = 1 => "RxWindow2" \notin timers)
    /\ suspended = "RxWindow2" =>
          radio # "tx" /\ RxSlot = 1 /\ timers \cap {"RxWindow1", "RxWindow2"} = {}
    /\ suspended # "MacStateCheck" /\ "McpsInd" \in LoRaMacFlags => "MacDone" \in LoRaMacFlags
    /\ suspended = "MacStateCheck" => "RX_ABORT" \notin LoRaMacState
    /\ "RX_ABORT" \in LoRaMacState => "MacDone" \in LoRaMacFlags /\ "AckTimeout" \notin timers

(* The acknowledgement timeout and the retry it asks for belong to a       *)
(* confirmed frame that is not acknowledged and has trials left.           *)
AckInv ==
    /\ "AckTimeout" \in timers =>
          NodeAckRequested /\ ~AckTimeoutRetry
          /\ ~("McpsInd" \in LoRaMacFlags /\ McpsConfirm.AckReceived)
    /\ AckTimeoutRetry => NodeAckRequested
    /\ NodeAckRequested /\ McpsBusy => AckTimeoutRetriesCounter <= AckTimeoutRetries

(* The inductive invariant of the exchange when every event runs to its    *)
(* end: the radio, the timers, the flags and LoRaMacState always agree on  *)
(* where in the cycle the exchange is.                                     *)
ExchangeInv == WakeUpInv /\ RestInv /\ CycleInv /\ AckInv /\ PendingMeansBusy

(* A cycle under way goes on: a transmission is followed by the second     *)
(* window, and that one by MacDone ...                                     *)
CycleGoesOn ==
    /\ "TX_RUNNING" \in LoRaMacState /\ "MacDone" \notin LoRaMacFlags =>
          \/ radio # "idle" \/ timers \cap {"TxDelayed", "RxWindow2"} # {}
          \/ suspended = "RxWindow2" \/ deviceOff
    /\ "RxWindow1" \in timers \/ (radio = "rx" /\ RxSlot = 0) => "RxWindow2" \in timers

(* ... and a confirmed frame, unless it is acknowledged, by the            *)
(* acknowledgement timeout.                                                *)
AckTimeoutFollows ==
    NodeAckRequested /\ McpsBusy /\ radio # "tx" /\ "TX_DELAYED" \notin LoRaMacState =>
        \/ "AckTimeout" \in timers \/ AckTimeoutRetry
        \/ McpsConfirm.Status = "TX_TIMEOUT"
        \/ /\ "McpsInd" \in LoRaMacFlags /\ McpsConfirm.AckReceived
           /\ suspended # "MacStateCheck"
        \/ history.silentAck \/ deviceOff

ProgressInv == CycleGoesOn /\ AckTimeoutFollows

(* Which request the frame in LoRaMacBuffer belongs to. *)
BufferInv ==
    /\ McpsBusy =>
          /\ LoRaMacBuffer.type # "NONE"
          /\ NodeAckRequested <=> LoRaMacBuffer.type = "CONFIRMED_UP"
          /\ LoRaMacBuffer.type # "JOIN_REQ" => "McpsReq" \in LoRaMacFlags
    /\ JoinPending => McpsBusy \/ suspended = "MacStateCheck"
    /\ JoinPending /\ "TX_DELAYED" \notin LoRaMacState => LoRaMacBuffer.type = "JOIN_REQ"

(* How a cycle ends: after a downlink that is aborted, one that switches   *)
(* the device off, or a transmit timeout.                                  *)
CycleEndInv ==
    /\ "RX_ABORT" \in LoRaMacState =>
          "McpsInd" \in LoRaMacFlags /\ (NodeAckRequested => AckTimeoutRetry)
    /\ deviceOff =>
          /\ radio = "idle" /\ timers \cap {"RxWindow1", "RxWindow2"} = {}
          /\ suspended # "RxWindow2" /\ "RX_ABORT" \notin LoRaMacState
    /\ "TX_RUNNING" \in LoRaMacState /\ "TX_DELAYED" \notin LoRaMacState
       /\ (McpsConfirm.Status = "TX_TIMEOUT" \/ MlmeConfirm.Status = "TX_TIMEOUT") =>
          McpsConfirm.Status = "TX_TIMEOUT" /\ history.timedOut

(* The uplink counter is ahead of every counter that was on air, but for   *)
(* the frame being sent and one that timed out.                            *)
CounterInv ==
    /\ UpLinkCounter > 0 /\ history.used <= UpLinkCounter
    /\ LoRaMacBuffer.type = "JOIN_REQ" => history.used = 0
    /\ McpsBusy /\ IsData(LoRaMacBuffer) =>
          /\ LoRaMacBuffer.cnt = UpLinkCounter
          /\ LoRaMacBuffer.cnt > history.used \/ history.afterTimeout
    /\ ~McpsBusy =>
          LastAired < UpLinkCounter
          \/ (LastAired = UpLinkCounter /\ (history.timedOut \/ deviceOff))

(* The counters of the code tell how often the frame was sent: the one of  *)
(* the acknowledgement timeouts for a confirmed frame, ...                 *)
TrialsInv ==
    McpsBusy /\ NodeAckRequested =>
        /\ AckTimeoutRetriesCounter <= MAX_ACK_RETRIES + 1
        /\ "TX_DELAYED" \in LoRaMacState => AckTimeoutRetriesCounter = history.trials + 1
        /\ "TX_DELAYED" \notin LoRaMacState =>
              AckTimeoutRetriesCounter = history.trials \/ (deviceOff /\ "MacDone" \notin LoRaMacFlags)

(* ... the one of the repetitions for any other data frame. *)
RepetitionsInv ==
    McpsBusy /\ ~NodeAckRequested /\ LoRaMacBuffer.type # "JOIN_REQ" =>
        /\ \/ history.trials <= ChannelsNbRepCounter
           \/ /\ history.trials = ChannelsNbRepCounter + 1
              /\ "TX_DELAYED" \notin LoRaMacState
              /\ radio = "tx" \/ McpsConfirm.Status = "TX_TIMEOUT"
        /\ "TX_DELAYED" \in LoRaMacState /\ history.trials > 0 =>
              "TX_RUNNING" \in LoRaMacState /\ history.trials < ChannelsNbRep

(* An acknowledgement that is indicated ends the exchange in the next      *)
(* state check.                                                            *)
AckedInv ==
    McpsBusy /\ NodeAckRequested =>
        /\ history.acked <=> "McpsInd" \in LoRaMacFlags /\ McpsConfirm.AckReceived
        /\ history.acked => suspended # "MacStateCheck"

(* What McpsConfirm holds when the state check is about to report it. *)
ReportInv ==
    suspended = "MacStateCheck" /\ LoRaMacState = {} /\ Exchanging =>
        /\ McpsConfirm.NbRetries = history.trials
        /\ history.trials \in 1..TrialLimit
        /\ \/ McpsConfirm.AckReceived /\ history.acked
           \/ /\ ~McpsConfirm.AckReceived
              /\ McpsConfirm.Status = "TX_TIMEOUT" /\ history.timedOut
           \/ /\ ~McpsConfirm.AckReceived /\ ~history.acked
              /\ history.trials = TrialLimit

(* What the safety properties of an exchange rest on: the counters, status *)
(* fields and flags of LoRaMac.c agree at every moment with what was       *)
(* really sent and received (history).                                     *)
HistoryInv ==
    /\ BufferInv /\ CycleEndInv /\ CounterInv
    /\ TrialsInv /\ RepetitionsInv /\ AckedInv /\ ReportInv

(* With activation by personalization, or without link checks, a data      *)
(* request and a join request are never pending together.                  *)
OneServiceInv ==
    /\ "McpsReq" \in LoRaMacFlags => ~JoinPending /\ LoRaMacBuffer.type # "JOIN_REQ"
    /\ "MlmeReq" \in LoRaMacFlags =>
          \/ MlmeConfirm.MlmeRequest = "JOIN" /\ "JOIN" \in MlmeTypes
          \/ MlmeConfirm.MlmeRequest = "LINK_CHECK" /\ "LINK_CHECK" \in MlmeTypes

(* A pending join has succeeded exactly when a join accept ended its cycle. *)
JoinInv ==
    JoinPending =>
        /\ LoRaMacBuffer.type = "JOIN_REQ" /\ ~NodeAckRequested
        /\ MlmeConfirm.Status = "OK" <=> IsLoRaMacNetworkJoined
        /\ MlmeConfirm.Status = "OK" => "MacDone" \in LoRaMacFlags /\ "McpsInd" \notin LoRaMacFlags

(* A frame that is neither on the radio nor waiting to go there again was  *)
(* on air, or its transmission timed out and nothing was received.         *)
AiredInv ==
    /\ "TX_RUNNING" \in LoRaMacState /\ "TX_DELAYED" \notin LoRaMacState /\ radio # "tx" =>
          history.aired \/ McpsConfirm.Status = "TX_TIMEOUT"
    /\ "McpsInd" \in LoRaMacFlags => McpsConfirm.Status # "TX_TIMEOUT"

(* The uplink counter of a session is 1 until a data frame was on air and  *)
(* is no longer being sent.                                                *)
SessionInv ==
    /\ McpsBusy => JoinPending \/ (IsLoRaMacNetworkJoined /\ IsData(LoRaMacBuffer))
    /\ JoinPending /\ McpsBusy => UpLinkCounter = 1
    /\ IsLoRaMacNetworkJoined /\ LastAired = 0 => UpLinkCounter = 1
    /\ McpsBusy /\ IsData(LoRaMacBuffer) /\ history.used = 0 => UpLinkCounter = 1
=============================================================================
