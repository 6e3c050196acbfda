---------------------------- MODULE ExchangeProofs ----------------------------
(***************************************************************************)
(* Proofs about LoRaMac for every value of its constants.  The types are   *)
(* proved in four groups: Zenon reasons about Boolean variables and record *)
(* fields, the SMT solver about sets and numbers.                          *)
(***************************************************************************)
EXTENDS LoRaMac, TLAPS

FlagTypes ==
    /\ NodeAckRequested \in BOOLEAN
    /\ AckTimeoutRetry \in BOOLEAN
    /\ IsLoRaMacNetworkJoined \in BOOLEAN
    /\ SrvAckRequested \in BOOLEAN
    /\ deviceOff \in BOOLEAN

SetTypes ==
    /\ LoRaMacState \subseteq StateBits
    /\ LoRaMacFlags \subseteq FlagBits
    /\ AckTimeoutRetries \in Nat
    /\ AckTimeoutRetriesCounter \in Nat \ {0}
    /\ ChannelsNbRepCounter \in Nat
    /\ UpLinkCounter \in Nat
    /\ DownLinkCounter \in Nat
    /\ ChannelsNbRep \in Nat \ {0}
    /\ RxSlot \in {0, 1}
    /\ timers \subseteq Timers
    /\ radio \in {"idle", "tx", "rx"}
    /\ suspended \in {"none", "MacStateCheck", "RxWindow2"}

ConfirmTypes ==
    /\ McpsConfirm \in [Status : EventInfoStatus, AckReceived : BOOLEAN,
                        NbRetries : Nat, UpLinkCounter : Nat]
    /\ MlmeConfirm \in [Status : EventInfoStatus, MlmeRequest : {"JOIN", "LINK_CHECK"}]

FrameHistoryTypes ==
    /\ LoRaMacBuffer \in Frame
    /\ history \in History

Types == FlagTypes /\ SetTypes /\ ConfirmTypes /\ FrameHistoryTypes

(* The four groups make up TypeOK. *)
LEMMA TypeGroups == TypeOK <=> Types
BY Zenon DEF TypeOK, Types, FlagTypes, SetTypes, ConfirmTypes, FrameHistoryTypes

(* The initial state has these types. *)
LEMMA TypeInit == ASSUME Init PROVE Types
<1>1. FlagTypes
  BY Zenon DEF Init, FlagTypes
<1>2. SetTypes
  BY DEF Init, SetTypes
<1>3. ConfirmTypes
  <2>1. 0 \in Nat
    OBVIOUS
  <2> QED
    BY <2>1, Zenon DEF Init, ConfirmTypes, EventInfoStatus
<1>4. FrameHistoryTypes
  <2>1. 0 \in Nat
    OBVIOUS
  <2> QED
    BY <2>1, Zenon DEF Init, FrameHistoryTypes, NewHistory, History, Frame, FrameTypes
<1> QED
  BY <1>1, <1>2, <1>3, <1>4, Zenon DEF Types

(* Zero and one, for Zenon. *)
LEMMA Numbers == 0 \in Nat /\ 1 \in Nat
OBVIOUS

(* A transmission updates the history of the frame within its type. *)
LEMMA SentHistoryType ==
    ASSUME NEW h \in History, NEW o PROVE SentHistory(h, o) \in History
<1>1. h.trials \in Nat
  BY Zenon DEF History
<1>2. h.trials + 1 \in Nat
  BY <1>1
<1> QED
  BY <1>1, <1>2, Zenon DEF SentHistory, History

(* The history of a frame that was just prepared. *)
LEMMA PreparedHistoryType ==
    ASSUME FrameHistoryTypes PROVE NewHistory \in History /\ PreparedHistory \in History
<1>1. LastAired \in Nat /\ history.timedOut \in BOOLEAN
  BY Zenon DEF FrameHistoryTypes, LastAired, History, Frame
<1> QED
  BY <1>1, Numbers, Zenon DEF PreparedHistory, NewHistory, History

(* The requests of the application keep the types. *)
LEMMA TypeRequests == ASSUME Types, Requests PROVE Types'
<1>0. FlagTypes /\ SetTypes /\ ConfirmTypes /\ FrameHistoryTypes
  BY Zenon DEF Types
<1> USE <1>0, Numbers
<1>1. ASSUME NEW type \in McpsTypes, NEW n \in IF type = "CONFIRMED_UP" THEN NbTrials ELSE {1},
             McpsRequest(type, n)
      PROVE  Types'
  <2>1. FlagTypes'
    BY <1>1, Zenon DEF McpsRequest, FlagTypes
  <2>2. SetTypes'
    BY <1>1, ConstantsAssumption DEF McpsRequest, McpsReset, SetTypes, If, ScheduleTx,
       ScheduledState, ScheduledTimers, ScheduledRadio, StateBits, FlagBits, Timers
  <2>3. ConfirmTypes'
    BY <1>1, ZenonT(60) DEF McpsRequest, ConfirmTypes, SetTypes, SentConfirm, ClearedMcpsConfirm,
       EventInfoStatus
  <2>4. FrameHistoryTypes'
    <3>1. LoRaMacBuffer' \in Frame
      <4>1. LoRaMacBuffer' = PreparedFrame(type)
        BY <1>1, Zenon DEF McpsRequest
      <4>2. UpLinkCounter \in Nat /\ type \in FrameTypes
        BY <1>1, ConstantsAssumption DEF SetTypes, FrameTypes
      <4>3. SrvAckRequested \in BOOLEAN
        BY Zenon DEF FlagTypes
      <4> QED
        BY <4>1, <4>2, <4>3, Zenon DEF PreparedFrame, Frame
    <3>2. history' \in History
      BY <1>1, SentHistoryType, PreparedHistoryType, ZenonT(180) DEF McpsRequest
    <3> QED
      BY <3>1, <3>2, Zenon DEF FrameHistoryTypes
  <2> QED
    BY <2>1, <2>2, <2>3, <2>4, Zenon DEF Types
<1>2. ASSUME NEW type \in McpsTypes, NEW n \in IF type = "CONFIRMED_UP" THEN NbTrials ELSE {1},
             McpsRequestRefused(type, n)
      PROVE  Types'
  <2>1. FlagTypes'
    BY <1>2, Zenon DEF McpsRequestRefused, FlagTypes, sessionVars
  <2>2. SetTypes'
    BY <1>2, ConstantsAssumption DEF McpsRequestRefused, McpsReset, SetTypes, sessionVars,
       hardwareVars
  <2>3. ConfirmTypes' /\ FrameHistoryTypes'
    BY <1>2, Zenon DEF McpsRequestRefused, ConfirmTypes, FrameHistoryTypes, ClearedMcpsConfirm,
       EventInfoStatus
  <2> QED
    BY <2>1, <2>2, <2>3, Zenon DEF Types
<1>3. CASE MlmeJoinRequest
  <2>1. FlagTypes'
    BY <1>3, Zenon DEF MlmeJoinRequest, ResetMacParameters, FlagTypes
  <2>2. SetTypes'
    BY <1>3 DEF MlmeJoinRequest, ResetMacParameters, SetTypes, If, ScheduledState, ScheduledTimers, ScheduledRadio,
       StateBits, FlagBits, Timers
  <2>3. ConfirmTypes'
    BY <1>3, ZenonT(60) DEF MlmeJoinRequest, ResetMacParameters, ConfirmTypes, SentConfirm, EventInfoStatus
  <2>4. FrameHistoryTypes'
    <3>1. LoRaMacBuffer' \in Frame
      BY <1>3, Zenon DEF MlmeJoinRequest, ResetMacParameters, Frame, FrameTypes
    <3>2. history' \in History
      BY <1>3, SentHistoryType, PreparedHistoryType, Zenon DEF MlmeJoinRequest
    <3> QED
      BY <3>1, <3>2, Zenon DEF FrameHistoryTypes
  <2> QED
    BY <2>1, <2>2, <2>3, <2>4, Zenon DEF Types
<1>4. CASE MlmeJoinRequestBusy \/ MlmeLinkCheckRequest \/ MlmeLinkCheckRequestFull
  <2> USE DEF MlmeJoinRequestBusy, MlmeLinkCheckRequest, MlmeLinkCheckRequestFull
  <2>1. FlagTypes'
    BY <1>4, Zenon DEF FlagTypes, exchangeVars, sessionVars
  <2>2. SetTypes'
    BY <1>4, ZenonT(60) DEF SetTypes, FlagBits, exchangeVars, sessionVars, hardwareVars
  <2>3. ConfirmTypes'
    <3>1. \/ MlmeConfirm' = [Status |-> "ERROR", MlmeRequest |-> "JOIN"]
          \/ MlmeConfirm' = [Status |-> "ERROR", MlmeRequest |-> "LINK_CHECK"]
      BY <1>4, Zenon
    <3>2. McpsConfirm' = McpsConfirm
      BY <1>4, Zenon
    <3>3. McpsConfirm' \in [Status : EventInfoStatus, AckReceived : BOOLEAN,
                            NbRetries : Nat, UpLinkCounter : Nat]
      BY <3>2, Zenon DEF ConfirmTypes
    <3>4. MlmeConfirm' \in [Status : EventInfoStatus, MlmeRequest : {"JOIN", "LINK_CHECK"}]
      <4>1. CASE MlmeConfirm' = [Status |-> "ERROR", MlmeRequest |-> "JOIN"]
        BY <4>1, Zenon DEF EventInfoStatus
      <4>2. CASE MlmeConfirm' = [Status |-> "ERROR", MlmeRequest |-> "LINK_CHECK"]
        BY <4>2, Zenon DEF EventInfoStatus
      <4> QED
        BY <3>1, <4>1, <4>2, Zenon
    <3> QED
      BY <3>3, <3>4, Zenon DEF ConfirmTypes
  <2>4. FrameHistoryTypes'
    BY <1>4, Zenon DEF FrameHistoryTypes, exchangeVars
  <2> QED
    BY <2>1, <2>2, <2>3, <2>4, Zenon DEF Types
<1>5. CASE MibSetNetworkJoined \/ MibSetChannelsNbRep
  <2> USE <1>5 DEF MibSetNetworkJoined, MibSetChannelsNbRep
  <2>1. FlagTypes'
    BY Zenon DEF FlagTypes, exchangeVars
  <2>2. SetTypes'
    BY ConstantsAssumption, ZenonT(60) DEF SetTypes, serviceVars, exchangeVars, hardwareVars
  <2>3. ConfirmTypes' /\ FrameHistoryTypes'
    BY Zenon DEF ConfirmTypes, FrameHistoryTypes, serviceVars, exchangeVars
  <2> QED
    BY <2>1, <2>2, <2>3, Zenon DEF Types
<1> QED
  BY <1>1, <1>2, <1>3, <1>4, <1>5 DEF Requests

(* The radio events keep the types. *)
LEMMA TypeRadioEvents == ASSUME Types, RadioEvents PROVE Types'
<1>0. FlagTypes /\ SetTypes /\ ConfirmTypes /\ FrameHistoryTypes
  BY Zenon DEF Types
<1> USE <1>0, Numbers
<1>1. CASE OnRadioTxDone
  <2>1. FlagTypes'
    BY <1>1, Zenon DEF OnRadioTxDone, FlagTypes, sessionVars
  <2>2. SetTypes'
    BY <1>1 DEF OnRadioTxDone, SetTypes, If, Timers, sessionVars
  <2>3. ConfirmTypes' /\ FrameHistoryTypes'
    BY <1>1, Zenon DEF OnRadioTxDone, ConfirmTypes, FrameHistoryTypes, History,
       EventInfoStatus
  <2> QED
    BY <2>1, <2>2, <2>3, Zenon DEF Types
<1>2. CASE OnRadioTxTimeout
  <2>1. FlagTypes'
    BY <1>2, Zenon DEF OnRadioTxTimeout, FlagTypes, exchangeVars, sessionVars
  <2>2. SetTypes'
    BY <1>2 DEF OnRadioTxTimeout, SetTypes, FlagBits, exchangeVars, sessionVars
  <2>3. ConfirmTypes' /\ FrameHistoryTypes'
    BY <1>2, Zenon DEF OnRadioTxTimeout, ConfirmTypes, FrameHistoryTypes, History,
       EventInfoStatus, exchangeVars
  <2> QED
    BY <2>1, <2>2, <2>3, Zenon DEF Types
<1>3. ASSUME NEW status \in {"RX2_ERROR", "RX2_TIMEOUT"}, OnRadioRxFailure(status)
      PROVE  Types'
  <2>1. FlagTypes'
    BY <1>3, Zenon DEF OnRadioRxFailure, FlagTypes, exchangeVars, sessionVars
  <2>2. SetTypes'
    BY <1>3 DEF OnRadioRxFailure, SetTypes, If, FlagBits, exchangeVars, sessionVars
  <2>3. ConfirmTypes' /\ FrameHistoryTypes'
    BY <1>3, Zenon DEF OnRadioRxFailure, ConfirmTypes, FrameHistoryTypes, EventInfoStatus, exchangeVars
  <2> QED
    BY <2>1, <2>2, <2>3, Zenon DEF Types
<1>4. ASSUME NEW d \in Downlinks, NEW cnt \in 0..MaxDownLinkCounter, OnRadioRxDone(d, cnt)
      PROVE  Types'
  <2>1. FlagTypes'
    BY <1>4, ZenonT(60) DEF OnRadioRxDone, FlagTypes, IsDataDown
  <2>2. SetTypes'
    BY <1>4, ConstantsAssumption DEF OnRadioRxDone, SetTypes, If, StateBits, FlagBits, Timers,
       ProcessedCommand
  <2>3. ConfirmTypes'
    BY <1>4, Zenon DEF OnRadioRxDone, ConfirmTypes, EventInfoStatus
  <2>4. FrameHistoryTypes'
    BY <1>4, ZenonT(60) DEF OnRadioRxDone, FrameHistoryTypes, History
  <2> QED
    BY <2>1, <2>2, <2>3, <2>4, Zenon DEF Types
<1> QED
  BY <1>1, <1>2, <1>3, <1>4 DEF RadioEvents, OnRadioRxError, OnRadioRxTimeout

(* The timer events keep the types. *)
LEMMA TypeTimerEvents == ASSUME Types, TimerEvents PROVE Types'
<1>0. FlagTypes /\ SetTypes /\ ConfirmTypes /\ FrameHistoryTypes
  BY Zenon DEF Types
<1> USE <1>0, Numbers
<1>1. CASE OnRxWindow1TimerEvent \/ OnRxWindow2TimerEvent \/ OnRxWindow2TimerEventSetup
  <2> USE DEF OnRxWindow1TimerEvent, OnRxWindow2TimerEvent, OnRxWindow2TimerEventSetup, RxWindowSetup
  <2>1. FlagTypes'
    BY <1>1, Zenon DEF FlagTypes, exchangeVars, sessionVars
  <2>2. SetTypes'
    BY <1>1 DEF SetTypes, serviceVars, exchangeVars, sessionVars
  <2>3. ConfirmTypes' /\ FrameHistoryTypes'
    BY <1>1, Zenon DEF ConfirmTypes, FrameHistoryTypes, serviceVars, exchangeVars
  <2> QED
    BY <2>1, <2>2, <2>3, Zenon DEF Types
<1>2. CASE OnAckTimeoutTimerEvent
  <2>1. FlagTypes'
    BY <1>2, Zenon DEF OnAckTimeoutTimerEvent, FlagTypes, sessionVars
  <2>2. SetTypes'
    BY <1>2 DEF OnAckTimeoutTimerEvent, SetTypes, serviceVars, sessionVars
  <2>3. ConfirmTypes' /\ FrameHistoryTypes'
    BY <1>2, Zenon DEF OnAckTimeoutTimerEvent, ConfirmTypes, FrameHistoryTypes, serviceVars
  <2> QED
    BY <2>1, <2>2, <2>3, Zenon DEF Types
<1>3. ASSUME NEW o \in {"now", "later", "off"}, OnTxDelayedTimerEvent(o)
      PROVE  Types'
  <2>1. FlagTypes'
    BY <1>3, Zenon DEF OnTxDelayedTimerEvent, FlagTypes, sessionVars
  <2>2. SetTypes'
    BY <1>3 DEF OnTxDelayedTimerEvent, SetTypes, If, ScheduledState, ScheduledTimers,
       ScheduledRadio, StateBits, Timers, sessionVars
  <2>3. ConfirmTypes'
    BY <1>3, Zenon DEF OnTxDelayedTimerEvent, ConfirmTypes, SentConfirm, EventInfoStatus
  <2>4. FrameHistoryTypes'
    <3>1. LoRaMacBuffer' \in Frame
      <4>1. \/ LoRaMacBuffer' = [type |-> "JOIN_REQ", cnt |-> 0, ack |-> FALSE]
            \/ LoRaMacBuffer' = LoRaMacBuffer
        BY <1>3, Zenon DEF OnTxDelayedTimerEvent
      <4>2. CASE LoRaMacBuffer' = [type |-> "JOIN_REQ", cnt |-> 0, ack |-> FALSE]
        BY <4>2, Zenon DEF Frame, FrameTypes
      <4>3. CASE LoRaMacBuffer' = LoRaMacBuffer
        BY <4>3, Zenon DEF FrameHistoryTypes
      <4> QED
        BY <4>1, <4>2, <4>3, Zenon
    <3>2. history' \in History
      BY <1>3, SentHistoryType, PreparedHistoryType, Zenon DEF OnTxDelayedTimerEvent, FrameHistoryTypes
    <3> QED
      BY <3>1, <3>2, Zenon DEF FrameHistoryTypes
  <2> QED
    BY <2>1, <2>2, <2>3, <2>4, Zenon DEF Types
<1>4. CASE OnMacStateCheckTimerEvent
  <2>1. FlagTypes'
    BY <1>4, Zenon DEF OnMacStateCheckTimerEvent, FlagTypes, exchangeVars, sessionVars
  <2>2. SetTypes'
    <3>1. LoRaMacState' \subseteq StateBits /\ LoRaMacFlags' \subseteq FlagBits
      BY <1>4, ZenonT(60) DEF OnMacStateCheckTimerEvent, SetTypes, If, ScheduledState, StateBits, FlagBits,
         serviceVars
    <3>2. timers' \subseteq Timers /\ radio' \in {"idle", "tx", "rx"}
      BY <1>4, ZenonT(60)
         DEF OnMacStateCheckTimerEvent, SetTypes, If, ScheduledTimers, ScheduledRadio, Timers
    <3>3. UpLinkCounter' \in Nat /\ ChannelsNbRepCounter' \in Nat
          /\ AckTimeoutRetriesCounter' \in Nat \ {0}
      BY <1>4 DEF OnMacStateCheckTimerEvent, SetTypes, CountedUpLink, CheckedNbRepCounter,
         exchangeVars, sessionVars
    <3> QED
      BY <1>4, <3>1, <3>2, <3>3 DEF OnMacStateCheckTimerEvent, SetTypes, exchangeVars, sessionVars
  <2>3. ConfirmTypes'
    <3> DEFINE Confirms == [Status : EventInfoStatus, AckReceived : BOOLEAN,
                            NbRetries : Nat, UpLinkCounter : Nat]
               Requested == [Status : EventInfoStatus, MlmeRequest : {"JOIN", "LINK_CHECK"}]
    <3>1. McpsConfirm \in Confirms /\ AckTimeoutRetriesCounter \in Nat
      BY DEF ConfirmTypes, SetTypes
    <3>2. CheckedConfirm \in Confirms
      BY <3>1, Zenon DEF CheckedConfirm
    <3>3. ASSUME NEW c \in Confirms, NEW o PROVE SentConfirm(c, o) \in Confirms
      BY <3>3, Zenon DEF SentConfirm, EventInfoStatus
    <3>4. McpsConfirm' \in Confirms
      <4> HIDE DEF Confirms
      <4> QED
        BY <1>4, <3>1, <3>2, <3>3, Zenon DEF OnMacStateCheckTimerEvent, serviceVars
    <3>5. MlmeConfirm \in Requested
      BY DEF ConfirmTypes
    <3>6. ASSUME NEW c \in Requested, NEW o PROVE SentConfirm(c, o) \in Requested
      BY <3>6, Zenon DEF SentConfirm, EventInfoStatus
    <3>7. MlmeConfirm' \in Requested
      <4> HIDE DEF Requested
      <4> QED
        BY <1>4, <3>5, <3>6, Zenon DEF OnMacStateCheckTimerEvent, serviceVars
    <3> QED
      BY <3>4, <3>7, Zenon DEF ConfirmTypes
  <2>4. FrameHistoryTypes'
    BY <1>4, SentHistoryType, Zenon DEF OnMacStateCheckTimerEvent, FrameHistoryTypes, exchangeVars
  <2> QED
    BY <2>1, <2>2, <2>3, <2>4, Zenon DEF Types
<1>5. CASE OnMacStateCheckTimerEventReport
  <2>1. FlagTypes'
    BY <1>5, Zenon DEF OnMacStateCheckTimerEventReport, FlagTypes, exchangeVars, sessionVars
  <2>2. SetTypes'
    BY <1>5 DEF OnMacStateCheckTimerEventReport, SetTypes, If, Timers, exchangeVars, sessionVars
  <2>3. ConfirmTypes' /\ FrameHistoryTypes'
    BY <1>5, Zenon DEF OnMacStateCheckTimerEventReport, ConfirmTypes, FrameHistoryTypes, exchangeVars
  <2> QED
    BY <2>1, <2>2, <2>3, Zenon DEF Types
<1> QED
  BY <1>1, <1>2, <1>3, <1>4, <1>5 DEF TimerEvents

(* A stuttering step keeps the types. *)
LEMMA TypeStutter == ASSUME Types, UNCHANGED vars PROVE Types'
<1>1. FlagTypes /\ SetTypes /\ ConfirmTypes /\ FrameHistoryTypes
  BY Zenon DEF Types
<1> USE <1>1 DEF vars, serviceVars, exchangeVars, sessionVars, hardwareVars
<1>2. FlagTypes'
  BY Zenon DEF FlagTypes
<1>3. SetTypes'
  BY DEF SetTypes
<1>4. ConfirmTypes'
  BY Zenon DEF ConfirmTypes
<1>5. FrameHistoryTypes'
  BY Zenon DEF FrameHistoryTypes
<1> QED
  BY <1>2, <1>3, <1>4, <1>5, Zenon DEF Types

(* Every variable of the MAC keeps its type: no handler leaves a flag, a   *)
(* counter, a callback record or the frame undefined.                      *)
THEOREM TypeCorrect == Spec => []TypeOK
<1>1. Init => Types
  BY TypeInit
<1>2. Types /\ [Next]_vars => Types'
  BY TypeRequests, TypeRadioEvents, TypeTimerEvents, TypeStutter, Zenon DEF Next
<1>3. Types => TypeOK
  BY TypeGroups, Zenon
<1> QED
  BY <1>1, <1>2, <1>3, PTL DEF Spec

-----------------------------------------------------------------------------
(***************************************************************************)
(* The safety properties of an exchange, proved from ExchangeInv for every *)
(* value of the constants of LoRaMac.                                      *)
(***************************************************************************)
(* Every step keeps WakeUpInv, whatever it may preempt. *)
LEMMA WakeUpStep == ASSUME Types, WakeUpInv, [Next]_vars PROVE WakeUpInv'
<1>0. SetTypes
  BY DEF Types
<1> USE <1>0 DEF WakeUpInv
<1>1. ASSUME NEW type \in McpsTypes, NEW n \in IF type = "CONFIRMED_UP" THEN NbTrials ELSE {1},
             McpsRequest(type, n) \/ McpsRequestRefused(type, n)
      PROVE  WakeUpInv'
  BY <1>1 DEF McpsRequest, McpsRequestRefused, If, ScheduledState, ScheduledTimers, ScheduleTx,
     MainLoopRuns, hardwareVars
<1>2. CASE MlmeJoinRequest \/ MlmeJoinRequestBusy
  BY <1>2 DEF MlmeJoinRequest, ResetMacParameters, MlmeJoinRequestBusy, If, ScheduledState, ScheduledTimers,
     MainLoopRuns, hardwareVars
<1>3. CASE MlmeLinkCheckRequest \/ MlmeLinkCheckRequestFull
  BY <1>3 DEF MlmeLinkCheckRequest, MlmeLinkCheckRequestFull, hardwareVars
<1>4. CASE MibSetNetworkJoined \/ MibSetChannelsNbRep
  BY <1>4 DEF MibSetNetworkJoined, MibSetChannelsNbRep, serviceVars, hardwareVars
<1>5. CASE OnRadioTxDone \/ OnRadioTxTimeout \/ OnRadioRxError \/ OnRadioRxTimeout
  BY <1>5 DEF OnRadioTxDone, OnRadioTxTimeout, OnRadioRxError, OnRadioRxTimeout, OnRadioRxFailure, If
<1>6. ASSUME NEW d \in Downlinks, NEW cnt \in 0..MaxDownLinkCounter, OnRadioRxDone(d, cnt)
      PROVE  WakeUpInv'
  BY <1>6 DEF OnRadioRxDone, If
<1>7. CASE OnRxWindow1TimerEvent \/ OnRxWindow2TimerEvent \/ OnRxWindow2TimerEventSetup
           \/ OnAckTimeoutTimerEvent
  BY <1>7 DEF OnRxWindow1TimerEvent, OnRxWindow2TimerEvent, OnRxWindow2TimerEventSetup,
     OnAckTimeoutTimerEvent, TimerEventRuns, serviceVars
<1>8. ASSUME NEW o \in {"now", "later", "off"}, OnTxDelayedTimerEvent(o)
      PROVE  WakeUpInv'
  BY <1>8 DEF OnTxDelayedTimerEvent, If, ScheduledState, ScheduledTimers
<1>9. CASE OnMacStateCheckTimerEvent
  BY <1>9 DEF OnMacStateCheckTimerEvent, If, ScheduledState, ScheduledTimers, ClearedState, serviceVars
<1>10. CASE OnMacStateCheckTimerEventReport
  BY <1>10 DEF OnMacStateCheckTimerEventReport, If
<1>11. CASE UNCHANGED vars
  BY <1>11 DEF vars, serviceVars, hardwareVars
<1> QED
  BY <1>1, <1>2, <1>3, <1>4, <1>5, <1>6, <1>7, <1>8, <1>9, <1>10, <1>11
  DEF Next, Requests, RadioEvents, TimerEvents

(* A MAC that is not idle always has the timer running that will make it   *)
(* go on, even when radio events preempt timer events.                     *)
THEOREM WakeUp == Spec => []BusyIsWoken
<1>1. Init => WakeUpInv
  BY DEF Init, WakeUpInv
<1>2. Types /\ WakeUpInv /\ [Next]_vars => WakeUpInv'
  BY WakeUpStep, Zenon
<1>3. Types /\ WakeUpInv => BusyIsWoken
  BY ZenonT(60) DEF Types, SetTypes, StateBits, WakeUpInv, BusyIsWoken
<1>4. Spec => []Types
  BY TypeCorrect, TypeGroups, PTL
<1> QED
  BY <1>1, <1>2, <1>3, <1>4, PTL DEF Spec

(* Every step keeps ExchangeInv when each event runs to its end.  The      *)
(* timers of a cycle, started by OnRadioTxDone, are all gone when MacDone  *)
(* is set; only then does a state check transmit again, and only in a      *)
(* state at rest does a request or a delayed transmission start.           *)
LEMMA ExchangeStep ==
    ASSUME ~Preemption, Types, Types', ExchangeInv, [Next]_vars PROVE ExchangeInv'
<1>0. /\ FlagTypes /\ SetTypes /\ ConfirmTypes
      /\ FlagTypes' /\ SetTypes' /\ ConfirmTypes'
      /\ WakeUpInv /\ RestInv /\ CycleInv /\ AckInv /\ PendingMeansBusy
  BY Zenon DEF Types, ExchangeInv
<1>a. WakeUpInv'
  BY <1>0, WakeUpStep, Zenon
<1>b. McpsConfirm.AckReceived \in BOOLEAN /\ McpsConfirm'.AckReceived \in BOOLEAN
  BY <1>0, Zenon DEF ConfirmTypes
<1> USE <1>0, <1>b, ConstantsAssumption DEF FlagTypes, SetTypes
<1>1. ASSUME NEW type \in McpsTypes, NEW n \in IF type = "CONFIRMED_UP" THEN NbTrials ELSE {1},
             McpsRequest(type, n)
      PROVE  ExchangeInv'
  <2> USE <1>1 DEF McpsRequest, McpsReset, McpsBusy, ScheduleTx, MainLoopRuns, ScheduledState,
      ScheduledTimers, ScheduledRadio, SentConfirm, If, ClearedMcpsConfirm
  <2>1. RestInv'
    BY SMTT(60) DEF RestInv, Quiet, ConfirmTypes, StateBits
  <2>2. CycleInv'
    BY SMTT(60) DEF CycleInv, RestInv, AckInv, Quiet
  <2>3. AckInv'
    BY SMTT(60) DEF AckInv, McpsBusy, RestInv, Quiet, CycleInv
  <2>4. PendingMeansBusy'
    BY ZenonT(60) DEF PendingMeansBusy, McpsBusy
  <2> QED
    BY <1>a, <2>1, <2>2, <2>3, <2>4, ZenonT(60) DEF ExchangeInv
<1>2. ASSUME NEW type \in McpsTypes, NEW n \in IF type = "CONFIRMED_UP" THEN NbTrials ELSE {1},
             McpsRequestRefused(type, n)
      PROVE  ExchangeInv'
  <2> USE <1>2 DEF McpsRequestRefused, McpsReset, McpsBusy, MainLoopRuns, hardwareVars,
      sessionVars, ClearedMcpsConfirm
  <2>1. RestInv'
    BY ZenonT(60) DEF RestInv, Quiet, ConfirmTypes, StateBits
  <2>2. CycleInv'
    BY ZenonT(60) DEF CycleInv, RestInv, AckInv, Quiet
  <2>3. AckInv'
    BY ZenonT(60) DEF AckInv, McpsBusy, RestInv, Quiet, CycleInv
  <2>4. PendingMeansBusy'
    BY DEF PendingMeansBusy, McpsBusy
  <2> QED
    BY <1>a, <2>1, <2>2, <2>3, <2>4, Zenon DEF ExchangeInv
<1>3. CASE MlmeJoinRequest
  <2> USE <1>3 DEF MlmeJoinRequest, ResetMacParameters, JoinBusy, MainLoopRuns, ScheduledState, ScheduledTimers,
      ScheduledRadio, SentConfirm, If
  <2>1. RestInv'
    BY SMTT(60) DEF RestInv, Quiet, ConfirmTypes, StateBits
  <2>2. CycleInv'
    BY SMTT(60) DEF CycleInv, RestInv, AckInv, Quiet
  <2>3. AckInv'
    BY DEF AckInv, McpsBusy, RestInv, Quiet, CycleInv
  <2>4. PendingMeansBusy'
    BY DEF PendingMeansBusy, McpsBusy
  <2> QED
    BY <1>a, <2>1, <2>2, <2>3, <2>4, ZenonT(60) DEF ExchangeInv
<1>4. CASE MlmeJoinRequestBusy
  <2> USE <1>4 DEF MlmeJoinRequestBusy, JoinBusy, MainLoopRuns, exchangeVars, sessionVars,
      hardwareVars
  <2>1. RestInv'
    BY ZenonT(60) DEF RestInv, Quiet, ConfirmTypes, StateBits
  <2>2. CycleInv'
    BY ZenonT(60) DEF CycleInv, RestInv, AckInv, Quiet
  <2>3. AckInv'
    BY ZenonT(60) DEF AckInv, McpsBusy, RestInv, Quiet, CycleInv
  <2>4. PendingMeansBusy'
    BY DEF PendingMeansBusy, McpsBusy
  <2> QED
    BY <1>a, <2>1, <2>2, <2>3, <2>4, ZenonT(60) DEF ExchangeInv
<1>5. CASE MlmeLinkCheckRequest
  <2> USE <1>5 DEF MlmeLinkCheckRequest, MainLoopRuns, exchangeVars, sessionVars, hardwareVars
  <2>1. RestInv'
    BY ZenonT(60) DEF RestInv, Quiet, ConfirmTypes, StateBits
  <2>2. CycleInv'
    BY ZenonT(60) DEF CycleInv, RestInv, AckInv, Quiet
  <2>3. AckInv'
    BY ZenonT(60) DEF AckInv, McpsBusy, RestInv, Quiet, CycleInv
  <2>4. PendingMeansBusy'
    BY DEF PendingMeansBusy, McpsBusy
  <2> QED
    BY <1>a, <2>1, <2>2, <2>3, <2>4, ZenonT(60) DEF ExchangeInv
<1>6. CASE MlmeLinkCheckRequestFull
  <2> USE <1>6 DEF MlmeLinkCheckRequestFull, MainLoopRuns, sessionVars, hardwareVars
  <2>1. RestInv'
    BY ZenonT(60) DEF RestInv, Quiet, ConfirmTypes, StateBits
  <2>2. CycleInv'
    BY ZenonT(60) DEF CycleInv, RestInv, AckInv, Quiet
  <2>3. AckInv'
    BY ZenonT(60) DEF AckInv, McpsBusy, RestInv, Quiet, CycleInv
  <2>4. PendingMeansBusy'
    BY DEF PendingMeansBusy, McpsBusy
  <2> QED
    BY <1>a, <2>1, <2>2, <2>3, <2>4, ZenonT(60) DEF ExchangeInv
<1>7. CASE MibSetNetworkJoined \/ MibSetChannelsNbRep
  <2> USE <1>7 DEF MibSetNetworkJoined, MibSetChannelsNbRep, serviceVars, exchangeVars,
      hardwareVars
  <2>1. RestInv'
    BY ZenonT(60) DEF RestInv, Quiet, ConfirmTypes, StateBits
  <2>2. CycleInv'
    BY ZenonT(60) DEF CycleInv, RestInv, AckInv, Quiet
  <2>3. AckInv'
    BY ZenonT(60) DEF AckInv, McpsBusy, RestInv, Quiet, CycleInv
  <2>4. PendingMeansBusy'
    BY DEF PendingMeansBusy, McpsBusy
  <2> QED
    BY <1>a, <2>1, <2>2, <2>3, <2>4, ZenonT(60) DEF ExchangeInv
<1>8. CASE OnRadioTxDone
  <2> USE <1>8 DEF OnRadioTxDone, RadioEventRuns, If, sessionVars
  <2>1. RestInv'
    BY DEF RestInv, Quiet, ConfirmTypes, StateBits
  <2>2. CycleInv'
    BY DEF CycleInv, RestInv, AckInv, Quiet
  <2>3. AckInv'
    BY DEF AckInv, McpsBusy, RestInv, Quiet, CycleInv
  <2>4. PendingMeansBusy'
    BY DEF PendingMeansBusy, McpsBusy
  <2> QED
    BY <1>a, <2>1, <2>2, <2>3, <2>4, ZenonT(60) DEF ExchangeInv
<1>9. CASE OnRadioTxTimeout
  <2> USE <1>9 DEF OnRadioTxTimeout, RadioEventRuns, exchangeVars, sessionVars
  <2>1. RestInv'
    BY DEF RestInv, Quiet, ConfirmTypes, StateBits, CycleInv
  <2>2. CycleInv'
    BY DEF CycleInv, RestInv, AckInv, Quiet
  <2>3. AckInv'
    BY DEF AckInv, McpsBusy, RestInv, Quiet, CycleInv
  <2>4. PendingMeansBusy'
    BY DEF PendingMeansBusy, McpsBusy
  <2> QED
    BY <1>a, <2>1, <2>2, <2>3, <2>4, ZenonT(60) DEF ExchangeInv
<1>10. CASE OnRadioRxError \/ OnRadioRxTimeout
  <2> USE <1>10 DEF OnRadioRxError, OnRadioRxTimeout, OnRadioRxFailure, RadioEventRuns, If,
      exchangeVars, sessionVars
  <2>1. RestInv'
    BY DEF RestInv, Quiet, ConfirmTypes, StateBits
  <2>2. CycleInv'
    BY DEF CycleInv, RestInv, AckInv, Quiet
  <2>3. AckInv'
    BY DEF AckInv, McpsBusy, RestInv, Quiet, CycleInv
  <2>4. PendingMeansBusy'
    BY DEF PendingMeansBusy, McpsBusy
  <2> QED
    BY <1>a, <2>1, <2>2, <2>3, <2>4, ZenonT(60) DEF ExchangeInv
<1>11. ASSUME NEW d \in Downlinks, NEW cnt \in 0..MaxDownLinkCounter, OnRadioRxDone(d, cnt)
      PROVE  ExchangeInv'
  <2> USE <1>11 DEF OnRadioRxDone, RadioEventRuns, If, AckTimeoutStopped, AbortRetries
  <2>1. RestInv'
    BY ZenonT(60) DEF RestInv, Quiet, ConfirmTypes, StateBits
  <2>2. CycleInv'
    BY ZenonT(60) DEF CycleInv, RestInv, AckInv, Quiet
  <2>3. AckInv'
    BY SMTT(60) DEF AckInv, McpsBusy, RestInv, Quiet, CycleInv
  <2>4. PendingMeansBusy'
    BY DEF PendingMeansBusy, McpsBusy
  <2> QED
    BY <1>a, <2>1, <2>2, <2>3, <2>4, ZenonT(60) DEF ExchangeInv
<1>12. CASE OnRxWindow1TimerEvent
  <2> USE <1>12 DEF OnRxWindow1TimerEvent, RxWindowSetup, TimerEventRuns, serviceVars,
      exchangeVars, sessionVars
  <2>1. RestInv'
    BY ZenonT(60) DEF RestInv, Quiet, ConfirmTypes, StateBits
  <2>2. CycleInv'
    BY SMTT(60) DEF CycleInv, RestInv, AckInv, Quiet
  <2>3. AckInv'
    BY ZenonT(60) DEF AckInv, McpsBusy, RestInv, Quiet, CycleInv
  <2>4. PendingMeansBusy'
    BY DEF PendingMeansBusy, McpsBusy
  <2> QED
    BY <1>a, <2>1, <2>2, <2>3, <2>4, ZenonT(60) DEF ExchangeInv
<1>13. CASE OnRxWindow2TimerEvent
  <2> USE <1>13 DEF OnRxWindow2TimerEvent, TimerEventRuns, serviceVars, exchangeVars,
      sessionVars
  <2>1. RestInv'
    BY ZenonT(60) DEF RestInv, Quiet, ConfirmTypes, StateBits
  <2>2. CycleInv'
    BY ZenonT(60) DEF CycleInv, RestInv, AckInv, Quiet
  <2>3. AckInv'
    BY ZenonT(60) DEF AckInv, McpsBusy, RestInv, Quiet, CycleInv
  <2>4. PendingMeansBusy'
    BY DEF PendingMeansBusy, McpsBusy
  <2> QED
    BY <1>a, <2>1, <2>2, <2>3, <2>4, ZenonT(60) DEF ExchangeInv
<1>14. CASE OnRxWindow2TimerEventSetup
  <2> USE <1>14 DEF OnRxWindow2TimerEventSetup, RxWindowSetup, serviceVars, exchangeVars,
      sessionVars
  <2>1. RestInv'
    BY ZenonT(60) DEF RestInv, Quiet, ConfirmTypes, StateBits
  <2>2. CycleInv'
    BY ZenonT(60) DEF CycleInv, RestInv, AckInv, Quiet
  <2>3. AckInv'
    BY ZenonT(60) DEF AckInv, McpsBusy, RestInv, Quiet, CycleInv
  <2>4. PendingMeansBusy'
    BY DEF PendingMeansBusy, McpsBusy
  <2> QED
    BY <1>a, <2>1, <2>2, <2>3, <2>4, ZenonT(60) DEF ExchangeInv
<1>15. CASE OnAckTimeoutTimerEvent
  <2> USE <1>15 DEF OnAckTimeoutTimerEvent, TimerEventRuns, serviceVars, sessionVars
  <2>1. RestInv'
    BY ZenonT(60) DEF RestInv, Quiet, ConfirmTypes, StateBits
  <2>2. CycleInv'
    BY ZenonT(60) DEF CycleInv, RestInv, AckInv, Quiet
  <2>3. AckInv'
    BY ZenonT(60) DEF AckInv, McpsBusy, RestInv, Quiet, CycleInv
  <2>4. PendingMeansBusy'
    BY DEF PendingMeansBusy, McpsBusy
  <2> QED
    BY <1>a, <2>1, <2>2, <2>3, <2>4, ZenonT(60) DEF ExchangeInv
<1>16. ASSUME NEW o \in {"now", "later", "off"}, OnTxDelayedTimerEvent(o)
      PROVE  ExchangeInv'
  <2> USE <1>16 DEF OnTxDelayedTimerEvent, ScheduleTx, TimerEventRuns, sessionVars,
      ScheduledState, ScheduledTimers, ScheduledRadio, SentConfirm, If
  <2>1. RestInv'
    BY DEF RestInv, Quiet, ConfirmTypes, StateBits, WakeUpInv
  <2>2. CycleInv'
    BY DEF CycleInv, RestInv, AckInv, Quiet, WakeUpInv
  <2>3. AckInv'
    BY DEF AckInv, McpsBusy, RestInv, Quiet, CycleInv, WakeUpInv
  <2>4. PendingMeansBusy'
    BY DEF PendingMeansBusy, McpsBusy, WakeUpInv, RestInv
  <2> QED
    BY <1>a, <2>1, <2>2, <2>3, <2>4, ZenonT(60) DEF ExchangeInv
<1>17. CASE OnMacStateCheckTimerEvent
  <2>1. CASE "MacDone" \notin LoRaMacFlags
    <3>1. /\ timers' = timers \ {"MacStateCheck"}
          /\ suspended = "none" /\ suspended' = "MacStateCheck"
          /\ UNCHANGED <<serviceVars, exchangeVars, sessionVars, RxSlot, radio>>
      BY <1>17, <2>1, ZenonT(60) DEF OnMacStateCheckTimerEvent, TimerEventRuns
    <3>2. RestInv' /\ CycleInv' /\ AckInv' /\ PendingMeansBusy'
      BY <2>1, <3>1 DEF RestInv, CycleInv, AckInv, McpsBusy, PendingMeansBusy, Quiet, serviceVars,
         exchangeVars, sessionVars
    <3> QED
      BY <1>a, <3>2, ZenonT(60) DEF ExchangeInv
  <2>2. CASE "MacDone" \in LoRaMacFlags
    <3>1. suspended = "none" /\ suspended' = "MacStateCheck"
      BY <1>17, ZenonT(60) DEF OnMacStateCheckTimerEvent, TimerEventRuns
    <3>2. PICK o \in IF SendsAgain THEN ScheduleTx ELSE {"off"} :
             /\ LoRaMacState' = ScheduledState(LoRaMacState \ ClearedState, o)
             /\ McpsConfirm' = SentConfirm(CheckedConfirm, o)
             /\ MlmeConfirm' = SentConfirm(MlmeConfirm, o)
             /\ timers' = ScheduledTimers(timers \ {"MacStateCheck"}, o)
             /\ radio' = ScheduledRadio(o)
      BY <1>17, <2>2, ZenonT(60) DEF OnMacStateCheckTimerEvent
    <3>3. /\ LoRaMacFlags' = LoRaMacFlags \ If(SendsAgain, {"MacDone"})
          /\ NodeAckRequested' = (NodeAckRequested /\ ~AckEndsExchange /\ ~RetryGivesUp)
          /\ AckTimeoutRetry' = (AckTimeoutRetry /\ ~AckEndsExchange /\ ~RetryDue)
          /\ AckTimeoutRetriesCounter' = AckTimeoutRetriesCounter + (IF RetryNow THEN 1 ELSE 0)
          /\ UNCHANGED <<AckTimeoutRetries, deviceOff, RxSlot>>
      BY <1>17, <2>2, ZenonT(60) DEF OnMacStateCheckTimerEvent
    <3>4. /\ radio = "idle" /\ timers \cap {"RxWindow1", "RxWindow2"} = {}
          /\ "TX_RUNNING" \in LoRaMacState /\ "TX_DELAYED" \notin LoRaMacState
      BY <2>2, <3>1, ZenonT(60) DEF CycleInv, RestInv
    <3>5. ~AckTimeoutRetry'
      BY <3>3, <3>4, ZenonT(60) DEF RetryDue
    <3>6. SendsAgain \/ ClearedState # {} => "AckTimeout" \notin timers
      BY DEF SendsAgain, ClearedState, If, UnconfirmedRepeats, UnconfirmedDone, UnconfirmedChecked,
         TxTimedOut, AckEndsExchange, RetryNow, RetryGivesUp, RetryDue, AckInv, McpsBusy, CycleInv,
         RestInv, Quiet
    <3>7. /\ McpsConfirm'.AckReceived => McpsConfirm.AckReceived
          /\ McpsConfirm'.Status = "TX_TIMEOUT" => McpsConfirm.Status = "TX_TIMEOUT" /\ o # "now"
          /\ MlmeConfirm'.Status = "TX_TIMEOUT" => MlmeConfirm.Status = "TX_TIMEOUT" /\ o # "now"
      BY <3>2, ZenonT(60) DEF SentConfirm, CheckedConfirm, ConfirmTypes
    <3>8. RestInv'
      <4>1. ClearedState \subseteq {"TX_RUNNING", "RX_ABORT"} /\ "RX_ABORT" \notin LoRaMacState'
        BY <3>2, ZenonT(60) DEF ClearedState, ScheduledState, If
      <4>2. o # "off" => SendsAgain /\ ~deviceOff
        BY ZenonT(60) DEF ScheduleTx
      <4>3. o # "now" /\ "AckTimeout" \notin timers => Quiet'
        BY <3>1, <3>2, <3>4, <3>5, ZenonT(60) DEF Quiet, ScheduledTimers, ScheduledRadio, If
      <4>4. "TX_RUNNING" \notin LoRaMacState' \/ "TX_DELAYED" \in LoRaMacState' =>
              /\ o # "now" /\ "AckTimeout" \notin timers
              /\ "MacDone" \in LoRaMacFlags' => LoRaMacState' = {}
        BY <3>2, <3>3, <3>4, <3>6, <4>1, <4>2, SMTT(60) DEF ScheduledState, If, RestInv, Quiet, StateBits
      <4>5. "TX_DELAYED" \in LoRaMacState' => ~deviceOff'
        BY <3>2, <3>3, <3>4, <4>2, ZenonT(60) DEF ScheduledState, If
      <4>6. McpsConfirm'.Status = "TX_TIMEOUT" \/ MlmeConfirm'.Status = "TX_TIMEOUT" => Quiet'
        BY <3>7, <4>3, ZenonT(60) DEF RestInv, Quiet
      <4> QED
        BY <3>1, <4>1, <4>3, <4>4, <4>5, <4>6, ZenonT(60) DEF RestInv
    <3>9. CycleInv'
      BY <3>1, <3>2, <3>3, <3>4, <3>5, <3>6, ZenonT(60) DEF CycleInv, ScheduledState, ScheduledTimers,
         ScheduledRadio, ScheduleTx, ClearedState, If
    <3>10. AckInv'
      <4>1. "AckTimeout" \in timers' => "AckTimeout" \in timers /\ ClearedState = {}
        BY <3>2, <3>6, ZenonT(60) DEF ScheduledTimers, If
      <4>2. ClearedState = {} => ~AckEndsExchange /\ ~RetryGivesUp
        BY ZenonT(60) DEF ClearedState, If
      <4> QED
        BY <3>3, <3>4, <3>5, <3>7, <4>1, <4>2, SMTT(60) DEF AckInv, McpsBusy, RetryNow, MayRetry, If
    <3>11. PendingMeansBusy'
      BY <3>1 DEF PendingMeansBusy
    <3> QED
      BY <1>a, <3>8, <3>9, <3>10, <3>11, ZenonT(60) DEF ExchangeInv
  <2> QED
    BY <2>1, <2>2
<1>18. CASE OnMacStateCheckTimerEventReport
  <2> USE <1>18 DEF OnMacStateCheckTimerEventReport, exchangeVars, sessionVars, If, StateBits
  <2>1. RestInv'
    BY ZenonT(60) DEF RestInv, Quiet, ConfirmTypes, StateBits
  <2>2. CycleInv'
    BY ZenonT(60) DEF CycleInv, RestInv, AckInv, Quiet
  <2>3. AckInv'
    BY ZenonT(60) DEF AckInv, McpsBusy, RestInv, Quiet, CycleInv
  <2>4. PendingMeansBusy'
    BY DEF PendingMeansBusy, McpsBusy, CycleInv
  <2> QED
    BY <1>a, <2>1, <2>2, <2>3, <2>4, ZenonT(60) DEF ExchangeInv
<1>19. CASE UNCHANGED vars
  <2> USE <1>19 DEF vars, serviceVars, exchangeVars, sessionVars, hardwareVars
  <2>1. RestInv'
    BY ZenonT(60) DEF RestInv, Quiet, ConfirmTypes, StateBits
  <2>2. CycleInv'
    BY ZenonT(60) DEF CycleInv, RestInv, AckInv, Quiet
  <2>3. AckInv'
    BY ZenonT(60) DEF AckInv, McpsBusy, RestInv, Quiet, CycleInv
  <2>4. PendingMeansBusy'
    BY ZenonT(60) DEF PendingMeansBusy, McpsBusy
  <2> QED
    BY <1>a, <2>1, <2>2, <2>3, <2>4, ZenonT(60) DEF ExchangeInv
<1> QED
  BY <1>1, <1>2, <1>3, <1>4, <1>5, <1>6, <1>7, <1>8, <1>9, <1>10, <1>11, <1>12, <1>13, <1>14,
     <1>15, <1>16, <1>17, <1>18, <1>19, ZenonT(60) DEF Next, Requests, RadioEvents, TimerEvents

(* Radio, timers, flags and state always agree on where in its cycle the   *)
(* exchange is.                                                            *)
THEOREM ExchangeSafe == ASSUME ~Preemption PROVE Spec => []ExchangeInv
<1>1. Init => ExchangeInv
  BY DEF Init, ExchangeInv, WakeUpInv, RestInv, Quiet, CycleInv, AckInv, PendingMeansBusy
<1>2. Types /\ Types' /\ ExchangeInv /\ [Next]_vars => ExchangeInv'
  BY ExchangeStep, Zenon
<1>3. Spec => []Types
  BY TypeCorrect, TypeGroups, PTL
<1> QED
  BY <1>1, <1>2, <1>3, PTL DEF Spec

(* McpsConfirm and LoRaMacBuffer are never overwritten under a pending     *)
(* data request: LoRaMacMcpsRequest keeps answering LORAMAC_STATUS_BUSY    *)
(* until the confirm was reported.                                         *)
THEOREM RequestsExclusive == ASSUME ~Preemption PROVE Spec => []PendingMeansBusy
<1>1. ExchangeInv => PendingMeansBusy
  BY Zenon DEF ExchangeInv
<1> QED
  BY <1>1, ExchangeSafe, PTL

(* A retry is only ever due for a frame whose acknowledgement is awaited:  *)
(* OnMacStateCheckTimerEvent never calls ScheduleTx twice.                 *)
THEOREM RetriesConfirmed == ASSUME ~Preemption PROVE Spec => []RetryIsForConfirmed
<1>1. ExchangeInv => RetryIsForConfirmed
  BY Zenon DEF ExchangeInv, AckInv, RetryIsForConfirmed
<1> QED
  BY <1>1, ExchangeSafe, PTL

(* SendFrameOnChannel is only reached with the radio idle and no receive   *)
(* window or acknowledgement timer of an earlier transmission running.     *)
THEOREM SendsAlone == ASSUME ~Preemption PROVE Spec => TransmitsAlone
<1> DEFINE Alone == Transmits => /\ radio = "idle"
                                 /\ timers \cap {"RxWindow1", "RxWindow2", "AckTimeout"} = {}
<1>1. ASSUME Types, Types', ExchangeInv, [Next]_vars
      PROVE  Alone \/ UNCHANGED vars
  <2>0. /\ FlagTypes /\ SetTypes /\ McpsConfirm.AckReceived \in BOOLEAN
        /\ WakeUpInv /\ RestInv /\ CycleInv /\ AckInv
    BY <1>1, ZenonT(60) DEF Types, ConfirmTypes, ExchangeInv
  <2> USE <2>0 DEF FlagTypes, SetTypes
  <2>1. CASE Requests
    BY <2>1, ZenonT(60) DEF Requests, McpsRequest, McpsRequestRefused, MlmeJoinRequest, MlmeJoinRequestBusy,
       MlmeLinkCheckRequest, MlmeLinkCheckRequestFull, MibSetNetworkJoined, MibSetChannelsNbRep,
       McpsBusy, RestInv, Quiet, ScheduledRadio, Transmits, hardwareVars
  <2>2. CASE RadioEvents
    BY <2>2, ZenonT(180) DEF RadioEvents, OnRadioTxDone, OnRadioTxTimeout, OnRadioRxError, OnRadioRxTimeout,
       OnRadioRxFailure, OnRadioRxDone, Transmits
  <2>3. CASE OnRxWindow1TimerEvent \/ OnRxWindow2TimerEvent \/ OnRxWindow2TimerEventSetup
             \/ OnAckTimeoutTimerEvent \/ OnMacStateCheckTimerEventReport
    BY <2>3 DEF OnRxWindow1TimerEvent, OnRxWindow2TimerEvent, OnRxWindow2TimerEventSetup,
       RxWindowSetup, OnAckTimeoutTimerEvent, OnMacStateCheckTimerEventReport, Transmits
  <2>4. ASSUME NEW o \in {"now", "later", "off"}, OnTxDelayedTimerEvent(o) PROVE Alone
    BY <2>4 DEF OnTxDelayedTimerEvent, WakeUpInv, RestInv, Quiet
  <2>5. CASE OnMacStateCheckTimerEvent
    <3>1. CASE ~SendsAgain \/ "MacDone" \notin LoRaMacFlags
      BY <2>5, <3>1, ZenonT(60) DEF OnMacStateCheckTimerEvent, ScheduledRadio, Transmits
    <3>2. CASE SendsAgain /\ "MacDone" \in LoRaMacFlags
      BY <3>2 DEF SendsAgain, UnconfirmedRepeats, UnconfirmedChecked, RetryNow, RetryDue, CycleInv, AckInv
    <3> QED
      BY <3>1, <3>2
  <2> QED
    BY <1>1, <2>1, <2>2, <2>3, <2>4, <2>5 DEF Next, TimerEvents
<1>2. Spec => []Types
  BY TypeCorrect, TypeGroups, PTL
<1> QED
  BY <1>1, <1>2, ExchangeSafe, PTL DEF Spec, TransmitsAlone

(* The difference OnRadioRxDone computes is a natural number whatever the  *)
(* order of the two counters, so a valid downlink is not an older one.     *)
LEMMA ValidDownIsNotOlder ==
  ASSUME DownLinkCounter \in Nat, NEW d, NEW cnt \in Nat, ValidDown(d, cnt)
  PROVE  cnt \in DownLinkCounter..(DownLinkCounter + MAX_FCNT_GAP - 1)
<1> DEFINE diff == SequenceCounterDiff(cnt)
<1>1. FCntMod \in Nat \ {0} /\ MAX_FCNT_GAP \in Nat
  BY ConstantsAssumption
<1>2. cnt - DownLinkCounter \in Int
  OBVIOUS
<1>3. diff \in 0..(FCntMod - 1)
  BY <1>1, <1>2 DEF SequenceCounterDiff
<1>4. diff < MAX_FCNT_GAP /\ DownLinkCounter + diff = cnt
  BY DEF ValidDown
<1> HIDE DEF diff
<1> QED
  BY <1>1, <1>3, <1>4

(* The downlink counter only grows within a session, by less than          *)
(* MAX_FCNT_GAP at a time, whatever the width of the counter in a frame:   *)
(* OnRadioRxDone never takes an older downlink for a newer one.            *)
THEOREM DownlinksOrdered == Spec => DownlinksInOrder
<1> DEFINE InOrder == \/ DownLinkCounter' = DownLinkCounter
                      \/ DownLinkCounter' \in (DownLinkCounter + 1)..(DownLinkCounter + MAX_FCNT_GAP - 1)
                      \/ DownLinkCounter' = 0 /\ ~IsLoRaMacNetworkJoined'
<1>1. ASSUME Types, [Next]_vars PROVE InOrder \/ UNCHANGED vars
  <2>1. CASE Requests
    BY <2>1, ZenonT(60) DEF Requests, McpsRequest, McpsRequestRefused, MlmeJoinRequest, ResetMacParameters,
       MlmeJoinRequestBusy, MlmeLinkCheckRequest, MlmeLinkCheckRequestFull, MibSetNetworkJoined,
       MibSetChannelsNbRep, sessionVars
  <2>2. CASE OnRadioTxDone \/ OnRadioTxTimeout \/ OnRadioRxError \/ OnRadioRxTimeout
    BY <2>2, Zenon DEF OnRadioTxDone, OnRadioTxTimeout, OnRadioRxError, OnRadioRxTimeout, OnRadioRxFailure,
       sessionVars
  <2>3. ASSUME NEW d \in Downlinks, NEW cnt \in 0..MaxDownLinkCounter, OnRadioRxDone(d, cnt)
        PROVE  InOrder
    <3>1. DownLinkCounter \in Nat /\ cnt \in Nat /\ MAX_FCNT_GAP \in Nat
      BY <1>1, ConstantsAssumption DEF Types, SetTypes
    <3>2. DownLinkCounter' = DownLinkCounter \/ (DownLinkCounter' = cnt /\ ValidDown(d, cnt))
      BY <2>3, Zenon DEF OnRadioRxDone, AcceptedDown
    <3> QED
      BY <3>1, <3>2, ValidDownIsNotOlder, SMTT(60)
  <2>4. CASE TimerEvents
    BY <2>4, Zenon DEF TimerEvents, OnRxWindow1TimerEvent, OnRxWindow2TimerEvent, OnRxWindow2TimerEventSetup,
       OnAckTimeoutTimerEvent, OnTxDelayedTimerEvent, OnMacStateCheckTimerEvent,
       OnMacStateCheckTimerEventReport, sessionVars
  <2> QED
    BY <1>1, <2>1, <2>2, <2>3, <2>4, Zenon DEF Next, RadioEvents
<1>2. Spec => []Types
  BY TypeCorrect, TypeGroups, PTL
<1> QED
  BY <1>1, <1>2, PTL DEF Spec, DownlinksInOrder

===============================================================================
