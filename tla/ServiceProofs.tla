---------------------------- MODULE ServiceProofs ----------------------------
(***************************************************************************)
(* What the MAC tells about a frame is what happened to it: the properties *)
(* of LoRaMac that relate its counters, flags and callbacks to the history *)
(* of the frame in LoRaMacBuffer, proved for every value of the constants. *)
(* First, that a cycle always goes on (ProgressInv); then the counters     *)
(* (HistoryInv).                                                           *)
(***************************************************************************)
EXTENDS ExchangeProofs

(* Every step keeps a cycle going: what the MAC waits for is set up before *)
(* what it waited for is gone.                                             *)
LEMMA ProgressStep ==
    ASSUME ~Preemption, Types, Types', ExchangeInv, ProgressInv, [Next]_vars PROVE ProgressInv'
<1>1. /\ FlagTypes /\ SetTypes /\ ConfirmTypes /\ FrameHistoryTypes
      /\ FlagTypes' /\ SetTypes' /\ ConfirmTypes' /\ FrameHistoryTypes'
      /\ WakeUpInv /\ RestInv /\ CycleInv /\ AckInv /\ PendingMeansBusy
      /\ CycleGoesOn /\ AckTimeoutFollows
  BY Zenon DEF Types, ExchangeInv, ProgressInv
<1>2. /\ McpsConfirm.AckReceived \in BOOLEAN /\ McpsConfirm'.AckReceived \in BOOLEAN
      /\ history.silentAck \in BOOLEAN
  BY <1>1, Zenon DEF ConfirmTypes, FrameHistoryTypes, History
<1> USE <1>1, <1>2 DEF FlagTypes, SetTypes
<1>3. ASSUME NEW type \in McpsTypes, NEW n \in IF type = "CONFIRMED_UP" THEN NbTrials ELSE {1},
             McpsRequest(type, n)
      PROVE  ProgressInv'
  <2> USE <1>3 DEF McpsRequest, McpsBusy, ScheduleTx, MainLoopRuns, ScheduledState, ScheduledTimers,
     ScheduledRadio, If, RestInv, Quiet
  <2>1. CycleGoesOn'
    BY SMTT(60) DEF CycleGoesOn
  <2>2. AckTimeoutFollows'
    BY DEF AckTimeoutFollows
  <2> QED
    BY <2>1, <2>2, ZenonT(60) DEF ProgressInv
<1>4. ASSUME NEW type \in McpsTypes, NEW n \in IF type = "CONFIRMED_UP" THEN NbTrials ELSE {1},
             McpsRequestRefused(type, n)
      PROVE  ProgressInv'
  <2> USE <1>4 DEF McpsRequestRefused, McpsBusy, hardwareVars, sessionVars
  <2>1. CycleGoesOn'
    BY DEF CycleGoesOn
  <2>2. AckTimeoutFollows'
    BY DEF AckTimeoutFollows
  <2> QED
    BY <2>1, <2>2, ZenonT(60) DEF ProgressInv
<1>5. CASE MlmeJoinRequest
  <2> USE <1>5 DEF MlmeJoinRequest, ResetMacParameters, JoinBusy, MainLoopRuns, ScheduledState,
      ScheduledTimers, ScheduledRadio, If, RestInv, Quiet, McpsBusy
  <2>1. CycleGoesOn'
    BY SMTT(60) DEF CycleGoesOn
  <2>2. AckTimeoutFollows'
    BY DEF AckTimeoutFollows
  <2> QED
    BY <2>1, <2>2, ZenonT(60) DEF ProgressInv
<1>6. CASE MlmeJoinRequestBusy \/ MlmeLinkCheckRequest
  <2> USE <1>6 DEF MlmeJoinRequestBusy, MlmeLinkCheckRequest, McpsBusy, exchangeVars, sessionVars,
      hardwareVars
  <2>1. CycleGoesOn'
    BY DEF CycleGoesOn
  <2>2. AckTimeoutFollows'
    BY ZenonT(60) DEF AckTimeoutFollows
  <2> QED
    BY <2>1, <2>2, ZenonT(60) DEF ProgressInv
<1>7. CASE MlmeLinkCheckRequestFull
  <2> USE <1>7 DEF MlmeLinkCheckRequestFull, McpsBusy, sessionVars, hardwareVars
  <2>1. CycleGoesOn'
    BY ZenonT(60) DEF CycleGoesOn
  <2>2. AckTimeoutFollows'
    BY DEF AckTimeoutFollows
  <2> QED
    BY <2>1, <2>2, Zenon DEF ProgressInv
<1>8. CASE MibSetNetworkJoined \/ MibSetChannelsNbRep
  <2> USE <1>8 DEF MibSetNetworkJoined, MibSetChannelsNbRep, McpsBusy, serviceVars, exchangeVars,
      hardwareVars
  <2>1. CycleGoesOn'
    BY DEF CycleGoesOn
  <2>2. AckTimeoutFollows'
    BY ZenonT(60) DEF AckTimeoutFollows
  <2> QED
    BY <2>1, <2>2, ZenonT(60) DEF ProgressInv
<1>9. CASE OnRadioTxDone
  <2> USE <1>9 DEF OnRadioTxDone, If, sessionVars, McpsBusy, ConfirmTypes
  <2>1. CycleGoesOn'
    BY SMTT(60) DEF CycleGoesOn
  <2>2. AckTimeoutFollows'
    BY DEF AckTimeoutFollows
  <2> QED
    BY <2>1, <2>2, Zenon DEF ProgressInv
<1>10. CASE OnRadioTxTimeout
  <2> USE <1>10 DEF OnRadioTxTimeout, exchangeVars, sessionVars, McpsBusy, ConfirmTypes, CycleInv
  <2>1. CycleGoesOn'
    BY SMTT(60) DEF CycleGoesOn
  <2>2. AckTimeoutFollows'
    BY DEF AckTimeoutFollows
  <2> QED
    BY <2>1, <2>2, ZenonT(60) DEF ProgressInv
<1>11. CASE OnRadioRxError \/ OnRadioRxTimeout
  <2>1. PICK status \in {"RX2_ERROR", "RX2_TIMEOUT"} : OnRadioRxFailure(status)
    BY <1>11 DEF OnRadioRxError, OnRadioRxTimeout
  <2>2. McpsConfirm'.AckReceived <=> McpsConfirm.AckReceived
    BY <2>1, ZenonT(60) DEF OnRadioRxFailure, ConfirmTypes
  <2>3. McpsConfirm.Status # "TX_TIMEOUT"
    BY <2>1 DEF OnRadioRxFailure, RestInv, Quiet
  <2>4. /\ radio = "rx" /\ radio' = "idle"
        /\ LoRaMacFlags' = LoRaMacFlags \cup If(RxSlot = 1, {"MacDone"})
        /\ UNCHANGED <<LoRaMacState, NodeAckRequested, AckTimeoutRetry, deviceOff, RxSlot, timers,
                       suspended, history>>
    BY <2>1, ZenonT(60) DEF OnRadioRxFailure, exchangeVars, sessionVars
  <2>5. RxSlot = 1 => "MacDone" \in LoRaMacFlags'
    BY <2>4, SMTT(60) DEF If
  <2>6. LoRaMacFlags \subseteq LoRaMacFlags'
    BY <2>4
  <2>7. CycleGoesOn'
    BY <2>4, <2>5, <2>6, ZenonT(60) DEF CycleGoesOn
  <2>8. AckTimeoutFollows'
    BY <2>2, <2>3, <2>4, <2>6 DEF McpsBusy, AckTimeoutFollows
  <2> QED
    BY <2>7, <2>8, Zenon DEF ProgressInv
<1>12. ASSUME NEW d \in Downlinks, NEW cnt \in 0..MaxDownLinkCounter, OnRadioRxDone(d, cnt)
      PROVE  ProgressInv'
  <2>1. /\ radio = "rx" /\ radio' = "idle" /\ suspended = "none" /\ suspended' = "none"
        /\ LoRaMacState' = LoRaMacState \cup If(AbortedDown(d, cnt), {"RX_ABORT"})
        /\ LoRaMacFlags' = LoRaMacFlags \cup {"MacDone"} \cup If(IndicatedDown(d, cnt), {"McpsInd"})
        /\ timers' = (timers \ ({"RxWindow2"} \cup If(AckTimeoutStopped(d, cnt), {"AckTimeout"})))
                     \cup {"MacStateCheck"}
        /\ AckTimeoutRetry' = (AckTimeoutRetry \/ AbortRetries(d, cnt))
        /\ deviceOff => deviceOff'
        /\ UNCHANGED <<NodeAckRequested, AckTimeoutRetries, AckTimeoutRetriesCounter, RxSlot>>
    BY <1>12, Zenon DEF OnRadioRxDone, RadioEventRuns
  <2>2. /\ McpsConfirm'.AckReceived <=> AcceptedDown(d, cnt) /\ d.ack
        /\ history'.silentAck <=>
              history.silentAck \/ (AcceptedDown(d, cnt) /\ d.ack /\ ~IndicatedDown(d, cnt))
    BY <1>12, ZenonT(60) DEF OnRadioRxDone, ConfirmTypes, FrameHistoryTypes, History
  <2>3. McpsConfirm.Status # "TX_TIMEOUT" /\ "McpsInd" \notin LoRaMacFlags
    BY <2>1, ZenonT(60) DEF RestInv, Quiet, CycleInv
  <2>4. CycleGoesOn'
    BY <2>1 DEF CycleGoesOn, CycleInv, If
  <2>5. AckTimeoutFollows'
    <3>1. SUFFICES ASSUME NodeAckRequested, McpsBusy, "TX_DELAYED" \notin LoRaMacState,
                          ~AckTimeoutRetry', ~history'.silentAck, ~deviceOff'
                   PROVE  \/ "AckTimeout" \in timers'
                          \/ "McpsInd" \in LoRaMacFlags' /\ McpsConfirm'.AckReceived
      BY <2>1, ZenonT(60) DEF AckTimeoutFollows, McpsBusy, If
    <3>2. "AckTimeout" \in timers
      BY <2>1, <2>2, <2>3, <3>1, SMTT(60) DEF AckTimeoutFollows
    <3>3. ~(AckTimeoutRetriesCounter > AckTimeoutRetries)
      BY <3>1, SMTT(60) DEF AckInv
    <3>4. CASE AckTimeoutStopped(d, cnt)
      <4>1. AcceptedDown(d, cnt) /\ d.ack
        BY <2>1, <3>1, <3>3, <3>4, ZenonT(60) DEF AckTimeoutStopped
      <4> QED
        BY <2>1, <2>2, <3>1, <4>1, ZenonT(60) DEF If
    <3> QED
      BY <2>1, <3>2, <3>4, ZenonT(60) DEF If
  <2> QED
    BY <2>4, <2>5, Zenon DEF ProgressInv
<1>13. CASE OnRxWindow1TimerEvent
  <2> USE <1>13 DEF OnRxWindow1TimerEvent, RxWindowSetup, serviceVars, exchangeVars, sessionVars,
      McpsBusy, CycleInv
  <2>1. CycleGoesOn'
    BY ZenonT(60) DEF CycleGoesOn
  <2>2. AckTimeoutFollows'
    BY DEF AckTimeoutFollows
  <2> QED
    BY <2>1, <2>2, ZenonT(60) DEF ProgressInv
<1>14. CASE OnRxWindow2TimerEvent \/ OnRxWindow2TimerEventSetup
  <2> USE <1>14 DEF OnRxWindow2TimerEvent, OnRxWindow2TimerEventSetup, RxWindowSetup, serviceVars,
      exchangeVars, sessionVars, McpsBusy, CycleInv
  <2>1. CycleGoesOn'
    BY DEF CycleGoesOn
  <2>2. AckTimeoutFollows'
    BY ZenonT(60) DEF AckTimeoutFollows
  <2> QED
    BY <2>1, <2>2, ZenonT(60) DEF ProgressInv
<1>15. CASE OnAckTimeoutTimerEvent
  <2> USE <1>15 DEF OnAckTimeoutTimerEvent, serviceVars, sessionVars, McpsBusy, AckInv
  <2>1. CycleGoesOn'
    BY DEF CycleGoesOn
  <2>2. AckTimeoutFollows'
    BY ZenonT(60) DEF AckTimeoutFollows
  <2> QED
    BY <2>1, <2>2, Zenon DEF ProgressInv
<1>16. ASSUME NEW o \in {"now", "later", "off"}, OnTxDelayedTimerEvent(o)
      PROVE  ProgressInv'
  <2> USE <1>16 DEF OnTxDelayedTimerEvent, ScheduleTx, sessionVars, ScheduledState,
      ScheduledTimers, ScheduledRadio, If, McpsBusy, RestInv, Quiet, WakeUpInv
  <2>1. CycleGoesOn'
    BY ZenonT(60) DEF CycleGoesOn
  <2>2. AckTimeoutFollows'
    BY DEF AckTimeoutFollows
  <2> QED
    BY <2>1, <2>2, ZenonT(60) DEF ProgressInv
<1>17. CASE OnMacStateCheckTimerEvent
  <2>1. CASE "MacDone" \notin LoRaMacFlags
    <3>1. /\ timers' = timers \ {"MacStateCheck"}
          /\ suspended = "none" /\ suspended' = "MacStateCheck"
          /\ UNCHANGED <<serviceVars, exchangeVars, sessionVars, RxSlot, radio, history>>
      BY <1>17, <2>1, ZenonT(60) DEF OnMacStateCheckTimerEvent, TimerEventRuns
    <3> USE <2>1, <3>1 DEF McpsBusy, CycleInv, serviceVars, exchangeVars, sessionVars
    <3>2. CycleGoesOn'
      BY ZenonT(60) DEF CycleGoesOn
    <3>3. AckTimeoutFollows'
      BY DEF AckTimeoutFollows
    <3> QED
      BY <3>2, <3>3, ZenonT(60) DEF ProgressInv
  <2>2. CASE "MacDone" \in LoRaMacFlags
    <3>1. PICK o \in IF SendsAgain THEN ScheduleTx ELSE {"off"} :
             /\ LoRaMacState' = ScheduledState(LoRaMacState \ ClearedState, o)
             /\ McpsConfirm' = SentConfirm(CheckedConfirm, o)
             /\ timers' = ScheduledTimers(timers \ {"MacStateCheck"}, o)
             /\ radio' = ScheduledRadio(o)
             /\ history' = SentHistory(history, o)
      BY <1>17, <2>2, ZenonT(60) DEF OnMacStateCheckTimerEvent
    <3>2. /\ suspended = "none" /\ suspended' = "MacStateCheck"
          /\ LoRaMacFlags' = LoRaMacFlags \ If(SendsAgain, {"MacDone"})
          /\ NodeAckRequested' = (NodeAckRequested /\ ~AckEndsExchange /\ ~RetryGivesUp)
          /\ AckTimeoutRetry' = (AckTimeoutRetry /\ ~AckEndsExchange /\ ~RetryDue)
          /\ UNCHANGED <<AckTimeoutRetries, deviceOff, RxSlot>>
      BY <1>17, <2>2 DEF OnMacStateCheckTimerEvent, TimerEventRuns
    <3>3. AckTimeoutRetry /\ RetryDue => SendsAgain \/ RetryGivesUp
      BY DEF RetryNow, RetryGivesUp, SendsAgain
    <3>4. /\ ~SendsAgain => o = "off"
          /\ SendsAgain => o # "off" \/ deviceOff
      BY DEF ScheduleTx
    <3>5. McpsConfirm'.Status # "TX_TIMEOUT" => o = "now" \/ McpsConfirm.Status # "TX_TIMEOUT"
      BY <3>1 DEF SentConfirm, CheckedConfirm, ConfirmTypes
    <3>6. "McpsInd" \in LoRaMacFlags /\ McpsConfirm.AckReceived /\ ~TxTimedOut => AckEndsExchange
      BY ZenonT(60) DEF AckEndsExchange
    <3>7. /\ radio = "idle" /\ timers \cap {"RxWindow1", "RxWindow2"} = {}
          /\ "TX_RUNNING" \in LoRaMacState /\ "TX_DELAYED" \notin LoRaMacState
      BY <2>2, <3>2, SMTT(60) DEF CycleInv, RestInv
    <3>8. CycleGoesOn'
      <4>1. "MacDone" \notin LoRaMacFlags' => SendsAgain
        BY <2>2, <3>2, ZenonT(60) DEF If
      <4>2. timers' \cap {"RxWindow1", "RxWindow2"} = {} /\ radio' # "rx"
        BY <3>1, <3>7 DEF ScheduledTimers, ScheduledRadio, If
      <4>3. o = "now" => radio' = "tx"
        BY <3>1 DEF ScheduledRadio
      <4>4. o = "later" => "TxDelayed" \in timers'
        BY <3>1 DEF ScheduledTimers, If
      <4>5. SendsAgain => o = "now" \/ o = "later" \/ deviceOff
        BY ZenonT(60) DEF ScheduleTx
      <4> QED
        BY <3>2, <4>1, <4>2, <4>3, <4>4, <4>5 DEF CycleGoesOn
    <3>9. AckTimeoutFollows'
      <4>1. SUFFICES ASSUME NodeAckRequested', McpsBusy', radio' # "tx", "TX_DELAYED" \notin LoRaMacState',
                            ~deviceOff
                     PROVE  \/ "AckTimeout" \in timers' \/ history'.silentAck
                            \/ McpsConfirm'.Status = "TX_TIMEOUT"
        BY <3>2, ZenonT(60) DEF AckTimeoutFollows
      <4>2. o = "off" /\ ~SendsAgain
        BY <3>1, <3>4, <4>1 DEF ScheduledRadio, ScheduledState, If, ScheduleTx
      <4>3. LoRaMacState' = LoRaMacState \ ClearedState /\ history' = history
            /\ timers' = timers \ {"MacStateCheck"}
        BY <3>1, <4>2, ZenonT(60) DEF ScheduledState, SentHistory, ScheduledTimers, If
      <4>4. ~TxTimedOut /\ ~AckEndsExchange /\ ~RetryGivesUp
        BY <3>7, <4>1, <4>3, ZenonT(60) DEF ClearedState, If, McpsBusy
      <4>5. ~AckTimeoutRetry
        BY <3>7, <4>2, <4>4 DEF RetryDue, RetryNow, RetryGivesUp, SendsAgain
      <4>6. McpsConfirm'.Status = McpsConfirm.Status
        BY <3>1, <4>2, Zenon DEF SentConfirm, CheckedConfirm, ConfirmTypes
      <4> QED
        BY <3>2, <3>6, <3>7, <4>1, <4>3, <4>4, <4>5, <4>6, ZenonT(60) DEF AckTimeoutFollows, McpsBusy
    <3> QED
      BY <3>8, <3>9, ZenonT(60) DEF ProgressInv
  <2> QED
    BY <2>1, <2>2
<1>18. CASE OnMacStateCheckTimerEventReport
  <2> USE <1>18 DEF OnMacStateCheckTimerEventReport, exchangeVars, sessionVars, If, McpsBusy,
      CycleInv, AckInv
  <2>1. CycleGoesOn'
    BY ZenonT(60) DEF CycleGoesOn
  <2>2. AckTimeoutFollows'
    BY DEF AckTimeoutFollows
  <2> QED
    BY <2>1, <2>2, ZenonT(60) DEF ProgressInv
<1>19. CASE UNCHANGED vars
  <2> USE <1>19 DEF vars, serviceVars, exchangeVars, sessionVars, hardwareVars, McpsBusy
  <2>1. CycleGoesOn'
    BY ZenonT(60) DEF CycleGoesOn
  <2>2. AckTimeoutFollows'
    BY DEF AckTimeoutFollows
  <2> QED
    BY <2>1, <2>2, ZenonT(60) DEF ProgressInv
<1> QED
  BY <1>3, <1>4, <1>5, <1>6, <1>7, <1>8, <1>9, <1>10, <1>11, <1>12, <1>13, <1>14,
     <1>15, <1>16, <1>17, <1>18, <1>19, ZenonT(60) DEF Next, Requests, RadioEvents, TimerEvents

(* Unless radio events preempt timer events, a pending data request always *)
(* waits for the radio, a timer, a handler or a decision that is due, but  *)
(* for the two exceptions NeverStranded names.                             *)
THEOREM NotStranded == ASSUME ~Preemption PROVE Spec => []NeverStranded
<1>1. Init => ProgressInv
  BY DEF Init, ProgressInv, CycleGoesOn, AckTimeoutFollows, McpsBusy
<1>2. Types /\ Types' /\ ExchangeInv /\ ProgressInv /\ [Next]_vars => ProgressInv'
  BY ProgressStep, Zenon
<1>3. ASSUME Types, ExchangeInv, ProgressInv PROVE NeverStranded
  <2>1. /\ SetTypes /\ McpsConfirm.AckReceived \in BOOLEAN
        /\ WakeUpInv /\ PendingMeansBusy /\ CycleGoesOn /\ AckTimeoutFollows
    BY <1>3, Zenon DEF Types, ConfirmTypes, ExchangeInv, ProgressInv
  <2>2. SUFFICES ASSUME "McpsReq" \in LoRaMacFlags, suspended = "none", radio = "idle",
                        timers \cap {"TxDelayed", "RxWindow1", "RxWindow2", "AckTimeout"} = {},
                        ~AckTimeoutRetry, ~history.silentAck, ~deviceOff
                 PROVE  "MacDone" \in LoRaMacFlags /\ (~NodeAckRequested \/ TxTimedOut \/ AckEndsExchange)
    BY <2>1 DEF NeverStranded, SetTypes
  <2>3. McpsBusy /\ "TX_DELAYED" \notin LoRaMacState /\ "TX_RUNNING" \in LoRaMacState
    BY <2>1, <2>2 DEF PendingMeansBusy, WakeUpInv, McpsBusy
  <2>4. "MacDone" \in LoRaMacFlags
    BY <2>1, <2>2, <2>3 DEF CycleGoesOn
  <2>5. ~NodeAckRequested \/ TxTimedOut \/ AckEndsExchange
    BY <2>1, <2>2, <2>3 DEF AckTimeoutFollows, TxTimedOut, AckEndsExchange, RequestPending
  <2> QED
    BY <2>4, <2>5
<1>4. Spec => []Types
  BY TypeCorrect, TypeGroups, PTL
<1> QED
  BY <1>1, <1>2, <1>3, <1>4, ExchangeSafe, PTL DEF Spec

-----------------------------------------------------------------------------

(* What every step may use. *)
StepPre == Types /\ Types' /\ ExchangeInv /\ HistoryInv

(* The types of the record fields the proofs speak of. *)
LEMMA Fields ==
    ASSUME Types
    PROVE  /\ FlagTypes /\ SetTypes
           /\ McpsConfirm.AckReceived \in BOOLEAN
           /\ history.trials \in Nat /\ history.used \in Nat /\ LoRaMacBuffer.cnt \in Nat
           /\ history.aired \in BOOLEAN /\ history.timedOut \in BOOLEAN
           /\ history.acked \in BOOLEAN /\ history.silentAck \in BOOLEAN
           /\ history.afterTimeout \in BOOLEAN
BY Zenon DEF Types, ConfirmTypes, FrameHistoryTypes, History, Frame

(* The parts of StepPre. *)
LEMMA StepFacts ==
    ASSUME StepPre
    PROVE  /\ WakeUpInv /\ RestInv /\ CycleInv /\ AckInv /\ PendingMeansBusy
           /\ BufferInv /\ CycleEndInv /\ CounterInv /\ TrialsInv /\ RepetitionsInv /\ AckedInv /\ ReportInv
           /\ FlagTypes /\ SetTypes /\ FlagTypes' /\ SetTypes'
BY Zenon DEF StepPre, ExchangeInv, HistoryInv, Types

(* LoRaMacMcpsRequest starts a frame whose history is new. *)
LEMMA HistoryMcpsRequest ==
    ASSUME StepPre, NEW type \in McpsTypes, NEW n, McpsRequest(type, n)
    PROVE  HistoryInv'
<1>1. PICK o \in ScheduleTx :
        /\ LoRaMacState' = ScheduledState(LoRaMacState, o)
        /\ LoRaMacFlags' = LoRaMacFlags \cup If(o # "off", {"McpsReq"})
        /\ McpsConfirm' = [ClearedMcpsConfirm EXCEPT !.UpLinkCounter = UpLinkCounter]
        /\ MlmeConfirm' = SentConfirm(MlmeConfirm, o)
        /\ NodeAckRequested' = (type = "CONFIRMED_UP" /\ o # "off")
        /\ timers' = ScheduledTimers(timers, o)
        /\ radio' = ScheduledRadio(o)
        /\ history' = SentHistory(PreparedHistory, o)
  BY Zenon DEF McpsRequest
<1>2. /\ suspended = "none" /\ ~McpsBusy
      /\ AckTimeoutRetriesCounter' = IF type = "CONFIRMED_UP" THEN 1 ELSE AckTimeoutRetriesCounter
      /\ LoRaMacBuffer'.type = type /\ LoRaMacBuffer'.cnt = UpLinkCounter
      /\ UNCHANGED <<AckTimeoutRetry, ChannelsNbRepCounter, UpLinkCounter, ChannelsNbRep, deviceOff,
                     suspended>>
  BY Zenon DEF McpsRequest, McpsReset, MainLoopRuns, PreparedFrame
<1>3. /\ type \in {"CONFIRMED_UP", "UNCONFIRMED_UP", "PROPRIETARY"}
      /\ MAX_ACK_RETRIES \in Nat
  BY ConstantsAssumption
<1>4. McpsConfirm'.Status = "ERROR" /\ ~McpsConfirm'.AckReceived
  BY <1>1, Zenon DEF ClearedMcpsConfirm
<1>5. /\ MlmeConfirm'.MlmeRequest = MlmeConfirm.MlmeRequest
      /\ o = "now" => MlmeConfirm'.Status = "ERROR"
  BY <1>1, StepFacts, Zenon DEF SentConfirm, StepPre, Types, ConfirmTypes
<1>6. /\ PreparedHistory \in History /\ PreparedHistory.trials = 0
      /\ ~PreparedHistory.aired /\ ~PreparedHistory.acked /\ ~PreparedHistory.timedOut
      /\ PreparedHistory.used = LastAired /\ PreparedHistory.afterTimeout = history.timedOut
  BY PreparedHistoryType, Zenon DEF StepPre, Types, PreparedHistory, NewHistory
<1>7. /\ history'.trials = IF o = "now" THEN 1 ELSE 0
      /\ ~history'.aired /\ ~history'.acked /\ ~history'.timedOut
      /\ history'.used = LastAired /\ history'.afterTimeout = history.timedOut
  <2>1. 0 < MAX_ACK_RETRIES + 2 /\ 0 + 1 = 1
    BY <1>3
  <2> HIDE DEF PreparedHistory
  <2> QED
    BY <1>1, <1>6, <2>1, Zenon DEF SentHistory, History
<1>8. o \in {"now", "later", "off"} /\ (o = "off" <=> deviceOff)
  BY StepFacts, ZenonT(60) DEF ScheduleTx, FlagTypes
<1>9. LoRaMacState = {} /\ radio = "idle" /\ timers \cap {"RxWindow1", "RxWindow2"} = {} /\ ~JoinPending
  BY <1>2, StepFacts DEF RestInv, McpsBusy, SetTypes, StateBits, Quiet, BufferInv
<1>10. /\ "TX_RUNNING" \in LoRaMacState' <=> o = "now"
       /\ "TX_DELAYED" \in LoRaMacState' <=> o = "later"
       /\ "RX_ABORT" \notin LoRaMacState'
       /\ McpsBusy' <=> o # "off"
  BY <1>1, <1>8, <1>9 DEF ScheduledState, If, McpsBusy
<1>11. /\ o # "off" => "McpsReq" \in LoRaMacFlags'
       /\ "MlmeReq" \in LoRaMacFlags' <=> "MlmeReq" \in LoRaMacFlags
  BY <1>1 DEF If
<1>12. /\ o # "now" => radio' = "idle" 
       /\ o = "now" => radio' = "tx"
       /\ timers' \cap {"RxWindow1", "RxWindow2"} = {}
  BY <1>1, <1>9 DEF ScheduledTimers, ScheduledRadio, If
<1>13. ~JoinPending'
  BY <1>5, <1>9, <1>11, Zenon DEF JoinPending
<1>14. BufferInv'
  BY <1>1, <1>2, <1>3, <1>10, <1>11, <1>13, ZenonT(60) DEF BufferInv
<1>15. CycleEndInv'
  BY <1>2, <1>4, <1>5, <1>8, <1>10, <1>12 DEF CycleEndInv
<1>16. LastAired' = LastAired
  BY <1>7, ZenonT(60) DEF LastAired
<1>17. CounterInv'
  <2>1. LastAired \in Nat /\ UpLinkCounter \in Nat
    BY Fields, StepFacts, ZenonT(60) DEF StepPre, LastAired, SetTypes
  <2>2. \/ LastAired < UpLinkCounter
        \/ LastAired = UpLinkCounter /\ (history.timedOut \/ deviceOff)
    BY <1>2, StepFacts DEF CounterInv
  <2>3. UpLinkCounter > 0
    BY StepFacts DEF CounterInv
  <2> QED
    BY <1>2, <1>3, <1>7, <1>8, <1>10, <1>16, <2>1, <2>2, <2>3, SMTT(60) DEF CounterInv
<1>18. TrialsInv'
  <2>1. NodeAckRequested' => AckTimeoutRetriesCounter' = 1
    BY <1>1, <1>2, ZenonT(60)
  <2>2. CASE o = "now"
    BY <1>3, <1>7, <1>10, <2>1, <2>2, SMTT(60) DEF TrialsInv
  <2>3. CASE o = "later"
    BY <1>3, <1>7, <1>10, <2>1, <2>3 DEF TrialsInv
  <2>4. CASE o = "off"
    BY <1>10, <2>4, ZenonT(60) DEF TrialsInv
  <2> QED
    BY <1>8, <2>2, <2>3, <2>4
<1>19. RepetitionsInv'
  <2>1. ChannelsNbRepCounter' = ChannelsNbRepCounter /\ ChannelsNbRepCounter \in Nat
    BY <1>2, StepFacts DEF SetTypes
  <2>2. CASE o = "now"
    <3>1. history'.trials = 1 /\ radio' = "tx" /\ "TX_DELAYED" \notin LoRaMacState'
      BY <1>7, <1>10, <1>12, <2>2, Zenon
    <3>2. 1 <= ChannelsNbRepCounter' \/ 1 = ChannelsNbRepCounter' + 1
      BY <2>1
    <3> QED
      BY <3>1, <3>2, Zenon DEF RepetitionsInv
  <2>3. CASE o = "later"
    <3>1. history'.trials = 0 /\ 0 <= ChannelsNbRepCounter' /\ ~(0 > 0)
      BY <1>7, <2>1, <2>3
    <3> QED
      BY <3>1, ZenonT(60) DEF RepetitionsInv
  <2>4. CASE o = "off"
    BY <1>10, <2>4, ZenonT(60) DEF RepetitionsInv
  <2> QED
    BY <1>8, <2>2, <2>3, <2>4
<1>20. AckedInv' /\ ReportInv'
  BY <1>2, <1>4, <1>7, ZenonT(60) DEF AckedInv, ReportInv
<1> QED
  BY <1>14, <1>15, <1>17, <1>18, <1>19, <1>20, Zenon DEF HistoryInv

(* The other requests leave the frame alone or replace it by a join        *)
(* request.                                                                *)
LEMMA HistoryOtherRequests ==
    ASSUME StepPre,
           \/ \E type \in McpsTypes : \E n \in IF type = "CONFIRMED_UP" THEN NbTrials ELSE {1} :
                McpsRequestRefused(type, n)
           \/ MlmeJoinRequest \/ MlmeJoinRequestBusy \/ MlmeLinkCheckRequest
           \/ MibSetNetworkJoined \/ MibSetChannelsNbRep
    PROVE  HistoryInv'
<1> USE StepFacts
<1>1. ASSUME NEW type \in McpsTypes, NEW n, McpsRequestRefused(type, n)
      PROVE  HistoryInv'
  <2>1. /\ suspended = "none" /\ ~McpsBusy
        /\ UNCHANGED <<LoRaMacState, LoRaMacFlags, MlmeConfirm, AckTimeoutRetry, ChannelsNbRepCounter,
                       LoRaMacBuffer, UpLinkCounter, ChannelsNbRep, deviceOff, timers, radio, suspended,
                       history>>
    BY <1>1 DEF McpsRequestRefused, MainLoopRuns, sessionVars, hardwareVars
  <2>2. ~McpsBusy' /\ (JoinPending' <=> JoinPending) /\ LastAired' = LastAired
    BY <2>1, Zenon DEF McpsBusy, JoinPending, LastAired, IsData
  <2>3. "TX_RUNNING" \notin LoRaMacState /\ "RX_ABORT" \notin LoRaMacState
    BY <2>1, ZenonT(60) DEF McpsBusy, RestInv
  <2>4. BufferInv'
    BY <2>1, <2>2, ZenonT(60) DEF BufferInv
  <2>5. CycleEndInv'
    BY <2>1, <2>3 DEF CycleEndInv
  <2>6. CounterInv'
    BY <2>1, <2>2, ZenonT(60) DEF CounterInv
  <2>7. TrialsInv' /\ RepetitionsInv' /\ AckedInv' /\ ReportInv'
    BY <2>1, <2>2 DEF TrialsInv, RepetitionsInv, AckedInv, ReportInv
  <2> QED
    BY <2>4, <2>5, <2>6, <2>7, ZenonT(60) DEF HistoryInv
<1>2. CASE MlmeJoinRequest
  <2>1. PICK o \in {"now", "later"} :
          /\ LoRaMacState' = ScheduledState(LoRaMacState, o)
          /\ McpsConfirm' = SentConfirm([McpsConfirm EXCEPT !.NbRetries = 0, !.AckReceived = FALSE,
                                                            !.UpLinkCounter = 1], o)
          /\ history' = SentHistory(NewHistory, o)
    BY <1>2, Zenon DEF MlmeJoinRequest
  <2>2. /\ suspended = "none" /\ suspended' = "none" /\ ~McpsBusy /\ ~NodeAckRequested' /\ ~deviceOff'
        /\ UpLinkCounter' = 1 /\ LoRaMacBuffer'.type = "JOIN_REQ" /\ MlmeConfirm'.Status = "ERROR"
    BY <1>2 DEF MlmeJoinRequest, MainLoopRuns, JoinBusy, ResetMacParameters, McpsBusy
  <2>3. history'.used = 0
    BY <2>1, Zenon DEF SentHistory, NewHistory
  <2>4. o = "now" => McpsConfirm'.Status = "ERROR"
    BY <2>1, Zenon DEF SentConfirm, Types, StepPre, ConfirmTypes
  <2>5. McpsBusy' /\ (o = "later" => "TX_DELAYED" \in LoRaMacState') /\ "RX_ABORT" \notin LoRaMacState'
    BY <2>1, <2>2, ZenonT(60) DEF McpsBusy, ScheduledState, If, RestInv
  <2>6. BufferInv'
    BY <2>2, <2>5, ZenonT(60) DEF BufferInv
  <2>7. CycleEndInv'
    BY <2>2, <2>4, <2>5, ZenonT(60) DEF CycleEndInv
  <2>8. CounterInv'
    BY <2>2, <2>3, <2>5 DEF CounterInv, IsData
  <2>9. TrialsInv' /\ RepetitionsInv' /\ AckedInv' /\ ReportInv'
    BY <2>2, Zenon DEF TrialsInv, RepetitionsInv, AckedInv, ReportInv
  <2> QED
    BY <2>6, <2>7, <2>8, <2>9, Zenon DEF HistoryInv
<1>3. CASE MlmeJoinRequestBusy \/ MlmeLinkCheckRequest
  <2>1. /\ "TX_RUNNING" \notin LoRaMacState /\ suspended = "none"
        /\ "McpsReq" \in LoRaMacFlags' <=> "McpsReq" \in LoRaMacFlags
        /\ "McpsInd" \in LoRaMacFlags' <=> "McpsInd" \in LoRaMacFlags
        /\ "MacDone" \in LoRaMacFlags' <=> "MacDone" \in LoRaMacFlags
        /\ UNCHANGED <<LoRaMacState, McpsConfirm, NodeAckRequested, AckTimeoutRetriesCounter,
             AckTimeoutRetry, ChannelsNbRepCounter, LoRaMacBuffer, UpLinkCounter, ChannelsNbRep,
             deviceOff, timers, radio, suspended, history>>
    BY <1>3, ZenonT(60)
       DEF MlmeJoinRequestBusy, MlmeLinkCheckRequest, MainLoopRuns, exchangeVars, sessionVars,
       hardwareVars
  <2>2. JoinPending' => "TX_DELAYED" \in LoRaMacState
    BY <1>3 DEF MlmeJoinRequestBusy, MlmeLinkCheckRequest, JoinPending, JoinBusy
  <2>3. (McpsBusy' <=> McpsBusy) /\ LastAired' = LastAired
    BY <2>1, Zenon DEF McpsBusy, LastAired, IsData
  <2>4. BufferInv'
    <3>1. "TX_DELAYED" \in LoRaMacState => McpsBusy
      BY ZenonT(60) DEF McpsBusy
    <3> QED
      BY <2>1, <2>2, <2>3, <3>1, Zenon DEF BufferInv
  <2>5. CycleEndInv'
    BY <2>1 DEF CycleEndInv
  <2>6. CounterInv'
    BY <2>1, <2>3, Zenon DEF CounterInv, IsData
  <2>7. TrialsInv' /\ RepetitionsInv' /\ AckedInv' /\ ReportInv'
    BY <2>1, <2>3, ZenonT(60) DEF TrialsInv, RepetitionsInv, AckedInv, ReportInv
  <2> QED
    BY <2>4, <2>5, <2>6, <2>7, ZenonT(60) DEF HistoryInv
<1>4. CASE MibSetNetworkJoined \/ MibSetChannelsNbRep
  <2>1. /\ "TX_RUNNING" \notin LoRaMacState /\ suspended = "none"
        /\ UNCHANGED <<LoRaMacState, LoRaMacFlags, McpsConfirm, MlmeConfirm, NodeAckRequested,
             AckTimeoutRetriesCounter, AckTimeoutRetry, ChannelsNbRepCounter, LoRaMacBuffer,
             UpLinkCounter, deviceOff, timers, radio, suspended, history>>
    BY <1>4 DEF MibSetNetworkJoined, MibSetChannelsNbRep, MainLoopRuns, serviceVars, exchangeVars,
       hardwareVars
  <2>2. (McpsBusy' <=> McpsBusy) /\ LastAired' = LastAired /\ (JoinPending' <=> JoinPending)
    BY <2>1, Zenon DEF McpsBusy, LastAired, IsData, JoinPending
  <2>3. BufferInv' /\ CycleEndInv' /\ CounterInv'
    BY <2>1, <2>2, Zenon DEF BufferInv, CycleEndInv, CounterInv, IsData
  <2>4. RepetitionsInv'
    BY <2>1, <2>2, Zenon DEF RepetitionsInv
  <2>5. TrialsInv' /\ AckedInv' /\ ReportInv'
    BY <2>1, <2>2, Zenon DEF TrialsInv, AckedInv, ReportInv
  <2> QED
    BY <2>3, <2>4, <2>5, Zenon DEF HistoryInv
<1> QED
  BY <1>1, <1>2, <1>3, <1>4

(* The end of a transmission: OnRadioTxDone counts a repetition,           *)
(* OnRadioTxTimeout ends the cycle.                                        *)
LEMMA HistoryTx ==
    ASSUME ~Preemption, StepPre, OnRadioTxDone \/ OnRadioTxTimeout PROVE HistoryInv'
<1> USE StepFacts
<1>1. /\ radio = "tx" /\ radio' = "idle" /\ suspended = "none"
      /\ UNCHANGED <<LoRaMacState, NodeAckRequested, AckTimeoutRetriesCounter, AckTimeoutRetry,
                     LoRaMacBuffer, UpLinkCounter, ChannelsNbRep, deviceOff, suspended>>
  BY ZenonT(60) DEF OnRadioTxDone, OnRadioTxTimeout, RadioEventRuns, exchangeVars, sessionVars
<1>2. /\ McpsBusy /\ "TX_DELAYED" \notin LoRaMacState /\ "TX_RUNNING" \in LoRaMacState
      /\ ~deviceOff /\ "RX_ABORT" \notin LoRaMacState
      /\ McpsConfirm.Status # "TX_TIMEOUT" /\ MlmeConfirm.Status # "TX_TIMEOUT"
  BY <1>1 DEF RestInv, Quiet, McpsBusy, CycleEndInv, CycleInv
<1>3. /\ UNCHANGED history.trials /\ UNCHANGED history.used /\ UNCHANGED history.acked
      /\ UNCHANGED history.afterTimeout /\ UNCHANGED McpsConfirm.AckReceived
      /\ UNCHANGED MlmeConfirm.MlmeRequest
      /\ OnRadioTxTimeout => history'.timedOut /\ McpsConfirm'.Status = "TX_TIMEOUT"
      /\ OnRadioTxDone => McpsConfirm'.Status # "TX_TIMEOUT" /\ MlmeConfirm'.Status # "TX_TIMEOUT"
  BY <1>2, ZenonT(180) DEF OnRadioTxDone, OnRadioTxTimeout, StepPre, Types, ConfirmTypes, FrameHistoryTypes,
     History
<1>4. /\ "McpsReq" \in LoRaMacFlags' <=> "McpsReq" \in LoRaMacFlags
      /\ "MlmeReq" \in LoRaMacFlags' <=> "MlmeReq" \in LoRaMacFlags
      /\ "McpsInd" \in LoRaMacFlags' <=> "McpsInd" \in LoRaMacFlags
  BY DEF OnRadioTxDone, OnRadioTxTimeout
<1>5. McpsBusy' /\ (JoinPending' <=> JoinPending)
  BY <1>1, <1>2, <1>3, <1>4, Zenon DEF McpsBusy, JoinPending
<1>6. BufferInv'
  BY <1>1, <1>2, <1>4, <1>5, Zenon DEF BufferInv
<1>7. CycleEndInv'
  BY <1>1, <1>2, <1>3 DEF CycleEndInv
<1>8. CounterInv'
  BY <1>1, <1>2, <1>3, <1>5, Zenon DEF CounterInv, IsData
<1>9. TrialsInv'
  BY <1>1, <1>2, <1>3, Zenon DEF TrialsInv
<1>10. RepetitionsInv'
  <2>1. history.trials \in Nat /\ ChannelsNbRepCounter \in Nat
    BY Fields DEF SetTypes, StepPre
  <2>2. CASE OnRadioTxTimeout
    <3>1. UNCHANGED ChannelsNbRepCounter
      BY <2>2, Zenon DEF OnRadioTxTimeout, exchangeVars
    <3> QED
      BY <1>1, <1>2, <1>3, <2>2, <3>1, Zenon DEF RepetitionsInv
  <2>3. CASE OnRadioTxDone
    <3>1. ~NodeAckRequested => ChannelsNbRepCounter' = ChannelsNbRepCounter + 1
      BY <2>3, Zenon DEF OnRadioTxDone
    <3>2. ~NodeAckRequested /\ LoRaMacBuffer.type # "JOIN_REQ" => history.trials <= ChannelsNbRepCounter'
      BY <1>2, <2>1, <3>1 DEF RepetitionsInv
    <3> QED
      BY <1>1, <1>2, <1>3, <3>2, Zenon DEF RepetitionsInv
  <2> QED
    BY <2>2, <2>3
<1>11. AckedInv'
  BY <1>1, <1>2, <1>3, <1>4, Zenon DEF AckedInv
<1>12. ReportInv'
  BY <1>1 DEF ReportInv
<1> QED
  BY <1>6, <1>7, <1>8, <1>9, <1>10, <1>11, <1>12, Zenon DEF HistoryInv

(* A receive window that ends without a frame changes no history. *)
LEMMA HistoryRxFailure ==
    ASSUME ~Preemption, StepPre, OnRadioRxError \/ OnRadioRxTimeout PROVE HistoryInv'
<1> USE StepFacts
<1>1. PICK status \in {"RX2_ERROR", "RX2_TIMEOUT"} : OnRadioRxFailure(status)
  BY DEF OnRadioRxError, OnRadioRxTimeout
<1>2. /\ radio = "rx" /\ radio' = "idle" /\ suspended = "none"
      /\ LoRaMacFlags' = LoRaMacFlags \cup If(RxSlot = 1, {"MacDone"})
      /\ UNCHANGED <<LoRaMacState, NodeAckRequested, AckTimeoutRetriesCounter, AckTimeoutRetry,
                     LoRaMacBuffer, UpLinkCounter, ChannelsNbRep, ChannelsNbRepCounter, deviceOff,
                     suspended, timers, history>>
  BY <1>1, Zenon DEF OnRadioRxFailure, RadioEventRuns, exchangeVars, sessionVars
<1>3. /\ McpsBusy /\ "TX_DELAYED" \notin LoRaMacState /\ "TX_RUNNING" \in LoRaMacState
      /\ ~deviceOff /\ "RX_ABORT" \notin LoRaMacState
      /\ McpsConfirm.Status # "TX_TIMEOUT" /\ MlmeConfirm.Status # "TX_TIMEOUT"
  BY <1>2 DEF RestInv, Quiet, McpsBusy, CycleEndInv, CycleInv
<1>4. status # "TX_TIMEOUT"
  OBVIOUS
<1>5. /\ UNCHANGED McpsConfirm.AckReceived /\ UNCHANGED MlmeConfirm.MlmeRequest
      /\ McpsConfirm'.Status # "TX_TIMEOUT" /\ MlmeConfirm'.Status # "TX_TIMEOUT"
  BY <1>1, <1>3, <1>4, ZenonT(60) DEF OnRadioRxFailure, StepPre, Types, ConfirmTypes
<1>6. /\ "McpsReq" \in LoRaMacFlags' <=> "McpsReq" \in LoRaMacFlags
      /\ "MlmeReq" \in LoRaMacFlags' <=> "MlmeReq" \in LoRaMacFlags
      /\ "McpsInd" \in LoRaMacFlags' <=> "McpsInd" \in LoRaMacFlags
  BY <1>2 DEF If
<1>7. McpsBusy' /\ (JoinPending' <=> JoinPending)
  BY <1>2, <1>3, <1>5, <1>6, Zenon DEF McpsBusy, JoinPending
<1>8. BufferInv'
  BY <1>2, <1>3, <1>6, <1>7, Zenon DEF BufferInv
<1>9. CycleEndInv'
  BY <1>2, <1>3, <1>5, Zenon DEF CycleEndInv
<1>10. CounterInv'
  BY <1>2, <1>3, <1>7, Zenon DEF CounterInv, IsData
<1>11. TrialsInv'
  BY <1>2, <1>3, Zenon DEF TrialsInv
<1>12. RepetitionsInv'
  BY <1>2, <1>3, Zenon DEF RepetitionsInv
<1>13. AckedInv'
  BY <1>2, <1>3, <1>5, <1>6, ZenonT(60) DEF AckedInv
<1>14. ReportInv'
  BY <1>2 DEF ReportInv
<1> QED
  BY <1>8, <1>9, <1>10, <1>11, <1>12, <1>13, <1>14, Zenon DEF HistoryInv

(* OnRadioRxDone records an acknowledgement in AckReceived, McpsInd and    *)
(* the history alike.                                                      *)
LEMMA HistoryRxDone ==
    ASSUME ~Preemption, StepPre, NEW d \in Downlinks, NEW cnt, OnRadioRxDone(d, cnt)
    PROVE  HistoryInv'
<1> USE StepFacts
<1>1. /\ radio = "rx" /\ radio' = "idle" /\ suspended = "none"
      /\ LoRaMacState' = LoRaMacState \cup If(AbortedDown(d, cnt), {"RX_ABORT"})
      /\ LoRaMacFlags' = LoRaMacFlags \cup {"MacDone"} \cup If(IndicatedDown(d, cnt), {"McpsInd"})
      /\ timers' = (timers \ ({"RxWindow2"} \cup If(AckTimeoutStopped(d, cnt), {"AckTimeout"})))
                   \cup {"MacStateCheck"}
      /\ AckTimeoutRetry' = (AckTimeoutRetry \/ AbortRetries(d, cnt))
      /\ deviceOff' = (deviceOff \/ ProcessedCommand(d, cnt) = "DUTY_CYCLE_OFF")
      /\ UNCHANGED <<NodeAckRequested, AckTimeoutRetriesCounter, LoRaMacBuffer, UpLinkCounter,
                     ChannelsNbRepCounter, suspended>>
  BY ZenonT(60) DEF OnRadioRxDone, RadioEventRuns
<1>2. /\ McpsBusy /\ "TX_DELAYED" \notin LoRaMacState /\ "TX_RUNNING" \in LoRaMacState
      /\ ~deviceOff /\ "RX_ABORT" \notin LoRaMacState /\ "RxWindow1" \notin timers
      /\ "MacDone" \notin LoRaMacFlags /\ "McpsInd" \notin LoRaMacFlags
      /\ McpsConfirm.Status # "TX_TIMEOUT" /\ MlmeConfirm.Status # "TX_TIMEOUT"
  BY <1>1, ZenonT(60) DEF RestInv, Quiet, McpsBusy, CycleEndInv, CycleInv
<1>3. /\ UNCHANGED history.trials /\ UNCHANGED history.used /\ UNCHANGED history.afterTimeout
      /\ history'.acked <=> history.acked \/ (AcceptedDown(d, cnt) /\ d.ack /\ IndicatedDown(d, cnt))
  BY ZenonT(60) DEF OnRadioRxDone, StepPre, Types, FrameHistoryTypes, History
<1>4. /\ McpsConfirm'.AckReceived <=> AcceptedDown(d, cnt) /\ d.ack
      /\ McpsConfirm'.Status # "TX_TIMEOUT" /\ MlmeConfirm'.Status # "TX_TIMEOUT"
      /\ UNCHANGED MlmeConfirm.MlmeRequest
  BY <1>2, Zenon DEF OnRadioRxDone, StepPre, Types, ConfirmTypes
<1>5. /\ "McpsReq" \in LoRaMacFlags' <=> "McpsReq" \in LoRaMacFlags
      /\ "MlmeReq" \in LoRaMacFlags' <=> "MlmeReq" \in LoRaMacFlags
      /\ "McpsInd" \in LoRaMacFlags' <=> IndicatedDown(d, cnt)
  BY <1>1, <1>2, ZenonT(60) DEF If
<1>6. /\ McpsBusy' /\ "TX_DELAYED" \notin LoRaMacState'
      /\ "RX_ABORT" \in LoRaMacState' <=> AbortedDown(d, cnt)
      /\ timers' \cap {"RxWindow1", "RxWindow2"} = {}
  BY <1>1, <1>2 DEF If, McpsBusy
<1>7. JoinPending' <=> JoinPending
  BY <1>4, <1>5, ZenonT(60) DEF JoinPending
<1>8. /\ AbortedDown(d, cnt) => IndicatedDown(d, cnt) /\ (NodeAckRequested => AbortRetries(d, cnt))
      /\ ProcessedCommand(d, cnt) = "DUTY_CYCLE_OFF" => ~AbortedDown(d, cnt)
  BY ZenonT(60) DEF IndicatedDown, AbortRetries, ProcessedCommand, AbortedDown, AcceptedDown, ValidDown, IsDataDown
<1>9. BufferInv'
  BY <1>1, <1>2, <1>5, <1>6, <1>7, Zenon DEF BufferInv
<1>10. CycleEndInv'
  BY <1>1, <1>2, <1>4, <1>5, <1>6, <1>8, Zenon DEF CycleEndInv
<1>11. CounterInv'
  BY <1>1, <1>2, <1>3, <1>6, Zenon DEF CounterInv, IsData
<1>12. TrialsInv'
  BY <1>1, <1>2, <1>3, <1>6, Zenon DEF TrialsInv
<1>13. RepetitionsInv'
  BY <1>1, <1>2, <1>3, <1>6, Zenon DEF RepetitionsInv
<1>14. AckedInv'
  BY <1>1, <1>2, <1>3, <1>4, <1>5, ZenonT(60) DEF AckedInv
<1>15. ReportInv'
  BY <1>1 DEF ReportInv
<1> QED
  BY <1>9, <1>10, <1>11, <1>12, <1>13, <1>14, <1>15, Zenon DEF HistoryInv

(* The receive windows and the acknowledgement timeout change no history. *)
LEMMA HistoryTimers ==
    ASSUME StepPre, \/ OnRxWindow1TimerEvent \/ OnRxWindow2TimerEvent \/ OnRxWindow2TimerEventSetup
                    \/ OnAckTimeoutTimerEvent
    PROVE  HistoryInv'
<1> USE StepFacts
<1> USE DEF OnRxWindow1TimerEvent, OnRxWindow2TimerEvent, OnRxWindow2TimerEventSetup,
    OnAckTimeoutTimerEvent
<1>1. UNCHANGED <<LoRaMacState, LoRaMacFlags, McpsConfirm, MlmeConfirm, NodeAckRequested,
             AckTimeoutRetriesCounter, ChannelsNbRepCounter, LoRaMacBuffer,
             UpLinkCounter, ChannelsNbRep, deviceOff, history>>
  BY ZenonT(60) DEF serviceVars, exchangeVars, sessionVars
<1>2. AckTimeoutRetry => AckTimeoutRetry'
  BY ZenonT(60) DEF exchangeVars
<1>3. /\ suspended # "MacStateCheck" /\ suspended' # "MacStateCheck"
      /\ radio' = "tx" <=> radio = "tx"
  BY ZenonT(60) DEF RxWindowSetup, TimerEventRuns
<1>4. \/ ~deviceOff
      \/ radio' = radio /\ suspended' = suspended /\ timers' \subseteq timers
  BY DEF CycleEndInv
<1> HIDE DEF OnRxWindow1TimerEvent, OnRxWindow2TimerEvent, OnRxWindow2TimerEventSetup,
    OnAckTimeoutTimerEvent
<1>5. (McpsBusy' <=> McpsBusy) /\ LastAired' = LastAired /\ (JoinPending' <=> JoinPending)
  BY <1>1, <1>2, <1>3, Zenon DEF McpsBusy, LastAired, IsData, JoinPending
<1>6. BufferInv' /\ CounterInv'
  BY <1>1, <1>2, <1>3, <1>5, ZenonT(60) DEF BufferInv, CounterInv, IsData
<1>7. CycleEndInv'
  BY <1>1, <1>2, <1>3, <1>4 DEF CycleEndInv
<1>8. TrialsInv' /\ RepetitionsInv'
  BY <1>1, <1>2, <1>3, <1>5, Zenon DEF TrialsInv, RepetitionsInv
<1>9. AckedInv' /\ ReportInv'
  BY <1>1, <1>2, <1>3, <1>5, Zenon DEF AckedInv, ReportInv
<1> QED
  BY <1>6, <1>7, <1>8, <1>9, ZenonT(60) DEF HistoryInv

(* What ScheduleTx changes in the history of a frame: the number of its    *)
(* transmissions.                                                          *)
LEMMA SentFields ==
    ASSUME NEW h \in History, NEW o
    PROVE  /\ SentHistory(h, o).used = h.used /\ SentHistory(h, o).aired = h.aired
           /\ SentHistory(h, o).afterTimeout = h.afterTimeout
           /\ SentHistory(h, o).timedOut = h.timedOut
           /\ SentHistory(h, o).acked = h.acked /\ SentHistory(h, o).silentAck = h.silentAck
           /\ SentHistory(h, o).trials = IF o = "now" /\ h.trials < MAX_ACK_RETRIES + 2
                                         THEN h.trials + 1 ELSE h.trials
BY Zenon DEF SentHistory, History

(* OnTxDelayedTimerEvent sends the frame it delayed, or a new join         *)
(* request.                                                                *)
LEMMA HistoryTxDelayed ==
    ASSUME StepPre, NEW o \in {"now", "later", "off"}, OnTxDelayedTimerEvent(o)
    PROVE  HistoryInv'
<1> USE StepFacts
<1>1. /\ suspended = "none" /\ "TxDelayed" \in timers /\ o \in ScheduleTx
      /\ LoRaMacState' = ScheduledState(LoRaMacState \ {"TX_DELAYED"}, o)
      /\ timers' = ScheduledTimers(timers \ {"TxDelayed"}, o)
      /\ radio' = ScheduledRadio(o)
      /\ McpsConfirm' = SentConfirm(McpsConfirm, o)
      /\ MlmeConfirm' = SentConfirm(MlmeConfirm, o)
      /\ UNCHANGED <<LoRaMacFlags, AckTimeoutRetriesCounter, AckTimeoutRetry,
                     ChannelsNbRepCounter, UpLinkCounter, ChannelsNbRep, deviceOff, suspended>>
  BY ZenonT(60) DEF OnTxDelayedTimerEvent, TimerEventRuns, sessionVars
<1>2. /\ "TX_DELAYED" \in LoRaMacState /\ McpsBusy /\ ~deviceOff /\ radio = "idle"
      /\ timers \cap {"RxWindow1", "RxWindow2"} = {} /\ "RX_ABORT" \notin LoRaMacState
  BY <1>1, ZenonT(60) DEF WakeUpInv, RestInv, Quiet, McpsBusy
<1>3. o \in {"now", "later"}
  BY <1>1, <1>2, ZenonT(60) DEF ScheduleTx
<1>4. /\ McpsBusy' /\ "RX_ABORT" \notin LoRaMacState'
      /\ "TX_DELAYED" \in LoRaMacState' <=> o = "later"
      /\ o = "now" => radio' = "tx"
      /\ o # "now" /\ "TX_RUNNING" \in LoRaMacState => "TX_RUNNING" \in LoRaMacState'
  BY <1>1, <1>2, <1>3 DEF ScheduledState, ScheduledRadio, If, McpsBusy
<1>5. /\ UNCHANGED MlmeConfirm.MlmeRequest /\ UNCHANGED McpsConfirm.AckReceived
      /\ o = "now" => McpsConfirm'.Status = "ERROR" /\ MlmeConfirm'.Status = "ERROR"
  BY <1>1, Zenon DEF SentConfirm, StepPre, Types, ConfirmTypes
<1>6. JoinPending' <=> JoinPending
  BY <1>1, <1>5, ZenonT(60) DEF JoinPending
<1>7. CycleEndInv'
  BY <1>1, <1>2, <1>3, <1>4, <1>5, ZenonT(60) DEF CycleEndInv
<1>8. ReportInv'
  BY <1>1 DEF ReportInv
<1>9. history \in History /\ NewHistory \in History
  BY PreparedHistoryType, Zenon DEF StepPre, Types, FrameHistoryTypes
<1>10. CASE JoinPending
  <2>1. /\ ~NodeAckRequested' /\ LoRaMacBuffer'.type = "JOIN_REQ"
        /\ history' = SentHistory(NewHistory, o)
    BY <1>10 DEF OnTxDelayedTimerEvent
  <2>2. history'.used = 0
    BY <1>9, <2>1, SentFields, ZenonT(60) DEF NewHistory
  <2>3. BufferInv'
    BY <1>4, <2>1, ZenonT(60) DEF BufferInv
  <2>4. CounterInv'
    BY <1>1, <1>4, <2>1, <2>2 DEF CounterInv, IsData, SetTypes
  <2>5. TrialsInv' /\ RepetitionsInv' /\ AckedInv'
    BY <2>1, Zenon DEF TrialsInv, RepetitionsInv, AckedInv
  <2> QED
    BY <1>7, <1>8, <2>3, <2>4, <2>5, ZenonT(60) DEF HistoryInv
<1>11. CASE ~JoinPending
  <2>1. UNCHANGED <<NodeAckRequested, LoRaMacBuffer>> /\ history' = SentHistory(history, o)
    BY <1>11, Zenon DEF OnTxDelayedTimerEvent
  <2>2. /\ UNCHANGED history.used /\ UNCHANGED history.afterTimeout /\ UNCHANGED history.acked
        /\ history'.trials = IF o = "now" /\ history.trials < MAX_ACK_RETRIES + 2
                             THEN history.trials + 1 ELSE history.trials
    BY <1>9, <2>1, SentFields, ZenonT(60)
  <2>3. BufferInv'
    BY <1>1, <1>2, <1>4, <1>6, <1>11, <2>1, Zenon DEF BufferInv
  <2>4. CounterInv'
    BY <1>1, <1>2, <1>4, <2>1, <2>2, Zenon DEF CounterInv, IsData
  <2>5. AckedInv'
    BY <1>1, <1>2, <1>5, <2>1, <2>2, ZenonT(60) DEF AckedInv
  <2>6. /\ history.trials \in Nat /\ MAX_ACK_RETRIES \in Nat /\ ChannelsNbRepCounter \in Nat
        /\ AckTimeoutRetriesCounter \in Nat
    BY Fields, ConstantsAssumption, ZenonT(60) DEF SetTypes, StepPre
  <2>7. TrialsInv'
    <3>1. SUFFICES ASSUME NodeAckRequested
                   PROVE  /\ AckTimeoutRetriesCounter <= MAX_ACK_RETRIES + 1
                          /\ o = "later" => AckTimeoutRetriesCounter = history'.trials + 1
                          /\ o = "now" => AckTimeoutRetriesCounter = history'.trials
      BY <1>1, <1>3, <1>4, <2>1, Zenon DEF TrialsInv
    <3>2. /\ AckTimeoutRetriesCounter <= MAX_ACK_RETRIES + 1
          /\ AckTimeoutRetriesCounter = history.trials + 1
      BY <1>2, <3>1, ZenonT(60) DEF TrialsInv
    <3> QED
      BY <2>2, <2>6, <3>2
  <2>8. RepetitionsInv'
    <3>1. SUFFICES ASSUME ~NodeAckRequested, LoRaMacBuffer.type # "JOIN_REQ"
                   PROVE  /\ \/ history'.trials <= ChannelsNbRepCounter
                             \/ o = "now" /\ history'.trials = ChannelsNbRepCounter + 1
                          /\ o = "later" /\ history'.trials > 0 =>
                                "TX_RUNNING" \in LoRaMacState /\ history'.trials < ChannelsNbRep
      BY <1>1, <1>3, <1>4, <2>1 DEF RepetitionsInv
    <3>2. /\ history.trials <= ChannelsNbRepCounter
          /\ history.trials > 0 => "TX_RUNNING" \in LoRaMacState /\ history.trials < ChannelsNbRep
      BY <1>2, <3>1, Zenon DEF RepetitionsInv
    <3> QED
      BY <2>2, <2>6, <3>2, SMTT(60)
  <2> QED
    BY <1>7, <1>8, <2>3, <2>4, <2>5, <2>7, <2>8, Zenon DEF HistoryInv
<1> QED
  BY <1>10, <1>11

(* The report of a state check ends the pending requests of an idle MAC. *)
LEMMA HistoryReport ==
    ASSUME StepPre, OnMacStateCheckTimerEventReport PROVE HistoryInv'
<1> USE StepFacts
<1>1. /\ suspended = "MacStateCheck" /\ suspended' = "none"
      /\ LoRaMacFlags' = (LoRaMacFlags \ If(LoRaMacState = {}, {"McpsReq", "MlmeReq", "MacDone"}))
                         \ {"McpsInd"}
      /\ timers' = timers \cup If(LoRaMacState # {}, {"MacStateCheck"})
      /\ UNCHANGED <<LoRaMacState, McpsConfirm, MlmeConfirm, NodeAckRequested, AckTimeoutRetry,
             AckTimeoutRetriesCounter, ChannelsNbRepCounter, LoRaMacBuffer,
             UpLinkCounter, ChannelsNbRep, deviceOff, radio, history>>
  BY Zenon DEF OnMacStateCheckTimerEventReport, exchangeVars, sessionVars
<1>2. (McpsBusy' <=> McpsBusy) /\ LastAired' = LastAired
  BY <1>1, ZenonT(60) DEF McpsBusy, LastAired, IsData
<1>3. /\ "RX_ABORT" \notin LoRaMacState
      /\ LoRaMacState = {} <=> ~McpsBusy
  BY <1>1, SMTT(60) DEF CycleInv, McpsBusy, SetTypes, StateBits
<1>4. /\ McpsBusy => ("McpsReq" \in LoRaMacFlags' <=> "McpsReq" \in LoRaMacFlags)
      /\ "MlmeReq" \in LoRaMacFlags' => "MlmeReq" \in LoRaMacFlags /\ McpsBusy
      /\ "MacDone" \in LoRaMacFlags' => "MacDone" \in LoRaMacFlags
      /\ "McpsInd" \notin LoRaMacFlags'
      /\ timers' \cap {"RxWindow1", "RxWindow2"} = timers \cap {"RxWindow1", "RxWindow2"}
  BY <1>1, <1>3 DEF If
<1>5. JoinPending' => JoinPending /\ McpsBusy
  BY <1>1, <1>4, Zenon DEF JoinPending
<1>6. BufferInv'
  BY <1>1, <1>2, <1>4, <1>5, ZenonT(60) DEF BufferInv
<1>7. CycleEndInv'
  BY <1>1, <1>3, <1>4 DEF CycleEndInv
<1>8. CounterInv'
  BY <1>1, <1>2, Zenon DEF CounterInv, IsData
<1>9. TrialsInv' /\ RepetitionsInv'
  <2>1. CASE McpsBusy
    <3>1. "MacDone" \in LoRaMacFlags => "MacDone" \in LoRaMacFlags'
      BY <1>1, <1>3, <2>1 DEF If
    <3> QED
      BY <1>1, <1>2, <1>4, <3>1, ZenonT(60) DEF TrialsInv, RepetitionsInv
  <2>2. CASE ~McpsBusy
    BY <1>2, <2>2, ZenonT(60) DEF TrialsInv, RepetitionsInv
  <2> QED
    BY <2>1, <2>2
<1>10. AckedInv' /\ ReportInv'
  BY <1>1, <1>2, <1>4 DEF AckedInv, ReportInv
<1> QED
  BY <1>6, <1>7, <1>8, <1>9, <1>10, Zenon DEF HistoryInv

(* A stuttering step. *)
LEMMA HistoryStutter == ASSUME StepPre, UNCHANGED vars PROVE HistoryInv'
<1> USE StepFacts DEF vars, serviceVars, exchangeVars, sessionVars, hardwareVars
<1>1. BufferInv' /\ CycleEndInv' /\ CounterInv'
  BY ZenonT(180) DEF BufferInv, CycleEndInv, CounterInv, JoinPending, McpsBusy, IsData, LastAired
<1>2. TrialsInv' /\ RepetitionsInv' /\ AckedInv'
  BY Zenon DEF TrialsInv, RepetitionsInv, AckedInv, McpsBusy
<1>3. ReportInv'
  BY Zenon DEF ReportInv, Exchanging, TrialLimit
<1> QED
  BY <1>1, <1>2, <1>3, Zenon DEF HistoryInv

(* A state check before the cycle is over changes nothing but its timer. *)
LEMMA HistoryCheckNotDone ==
    ASSUME StepPre, OnMacStateCheckTimerEvent, "MacDone" \notin LoRaMacFlags PROVE HistoryInv'
<1> USE StepFacts
<1>1. /\ suspended = "none" /\ suspended' = "MacStateCheck" /\ timers' = timers \ {"MacStateCheck"}
      /\ UNCHANGED <<LoRaMacState, LoRaMacFlags, McpsConfirm, MlmeConfirm, NodeAckRequested,
             AckTimeoutRetry, AckTimeoutRetriesCounter, ChannelsNbRepCounter, LoRaMacBuffer,
             UpLinkCounter, ChannelsNbRep, deviceOff, radio, history>>
  BY DEF OnMacStateCheckTimerEvent, TimerEventRuns, serviceVars, exchangeVars, sessionVars
<1>2. (McpsBusy' <=> McpsBusy) /\ LastAired' = LastAired /\ (JoinPending' <=> JoinPending)
  BY <1>1, Zenon DEF McpsBusy, LastAired, IsData, JoinPending
<1>3. "McpsInd" \notin LoRaMacFlags
  BY <1>1 DEF CycleInv
<1>4. BufferInv' /\ CounterInv'
  BY <1>1, <1>2, Zenon DEF BufferInv, CounterInv, IsData
<1>5. CycleEndInv'
  BY <1>1 DEF CycleEndInv
<1>6. TrialsInv' /\ RepetitionsInv'
  BY <1>1, <1>2, Zenon DEF TrialsInv, RepetitionsInv
<1>7. AckedInv'
  BY <1>1, <1>2, <1>3, Zenon DEF AckedInv
<1>8. ReportInv'
  BY <1>1 DEF ReportInv, Exchanging, PendingMeansBusy, McpsBusy
<1> QED
  BY <1>4, <1>5, <1>6, <1>7, <1>8, Zenon DEF HistoryInv

(* Where a state check finds the MAC once the cycle is over. *)
CheckFacts ==
    /\ radio = "idle" /\ timers \cap {"RxWindow1", "RxWindow2"} = {}
    /\ "TX_RUNNING" \in LoRaMacState /\ "TX_DELAYED" \notin LoRaMacState
    /\ JoinPending => LoRaMacBuffer.type = "JOIN_REQ"
    /\ AckTimeoutRetry => NodeAckRequested
    /\ TxTimedOut => ~AckTimeoutRetry /\ McpsConfirm.Status = "TX_TIMEOUT" /\ history.timedOut
    /\ UnconfirmedRepeats =>
          ~NodeAckRequested /\ ~TxTimedOut /\ ~UnconfirmedDone /\ ~AckEndsExchange /\ ~RetryDue
    /\ RetryNow => NodeAckRequested /\ ~TxTimedOut /\ ~AckEndsExchange /\ ~RetryGivesUp
    /\ UnconfirmedDone => ~NodeAckRequested
    /\ RetryGivesUp => NodeAckRequested /\ ~TxTimedOut /\ ~AckEndsExchange
    /\ NodeAckRequested =>
          (AckEndsExchange <=> "McpsInd" \in LoRaMacFlags /\ McpsConfirm.AckReceived /\ ~TxTimedOut)

(* The decisions of OnMacStateCheckTimerEvent exclude one another although *)
(* the code tests them one after the other.                                *)
LEMMA CheckDecisions ==
    ASSUME StepPre, suspended = "none", "MacDone" \in LoRaMacFlags PROVE CheckFacts
<1> USE StepFacts
<1>1. /\ radio = "idle" /\ timers \cap {"RxWindow1", "RxWindow2"} = {}
      /\ "TX_RUNNING" \in LoRaMacState /\ "TX_DELAYED" \notin LoRaMacState
  BY DEF CycleInv, RestInv
<1>2. /\ JoinPending => LoRaMacBuffer.type = "JOIN_REQ"
      /\ AckTimeoutRetry => NodeAckRequested
  BY <1>1, ZenonT(60) DEF BufferInv, AckInv
<1>3. TxTimedOut => ~AckTimeoutRetry /\ McpsConfirm.Status = "TX_TIMEOUT" /\ history.timedOut
  BY <1>1 DEF TxTimedOut, RestInv, Quiet, CycleEndInv
<1>4. UnconfirmedRepeats =>
        ~NodeAckRequested /\ ~TxTimedOut /\ ~UnconfirmedDone /\ ~AckEndsExchange /\ ~RetryDue
  BY <1>2, Zenon DEF UnconfirmedRepeats, UnconfirmedDone, UnconfirmedChecked, AckEndsExchange, RetryDue
<1>5. RetryNow => NodeAckRequested /\ ~TxTimedOut /\ ~AckEndsExchange /\ ~RetryGivesUp
  BY <1>2, <1>3, Zenon DEF RetryNow, RetryDue, RetryGivesUp
<1>6. /\ UnconfirmedDone => ~NodeAckRequested
      /\ RetryGivesUp => NodeAckRequested /\ ~TxTimedOut /\ ~AckEndsExchange
  BY <1>2, <1>3, Zenon DEF UnconfirmedDone, UnconfirmedChecked, RetryGivesUp, RetryDue
<1>7. NodeAckRequested =>
        (AckEndsExchange <=> "McpsInd" \in LoRaMacFlags /\ McpsConfirm.AckReceived /\ ~TxTimedOut)
  <2>1. NodeAckRequested => ~(AckTimeoutRetriesCounter > AckTimeoutRetries)
    BY <1>1 DEF AckInv, McpsBusy, SetTypes
  <2> QED
    BY <2>1, ZenonT(60) DEF AckEndsExchange
<1> QED
  BY <1>1, <1>2, <1>3, <1>4, <1>5, <1>6, <1>7, ZenonT(60) DEF CheckFacts

(* A state check after the cycle: one trial more, or the end of the        *)
(* exchange with the counters and the confirm that belong to it.           *)
LEMMA HistoryCheckDone ==
    ASSUME StepPre, OnMacStateCheckTimerEvent, "MacDone" \in LoRaMacFlags PROVE HistoryInv'
<1> USE StepFacts
<1>1. PICK o \in IF SendsAgain THEN ScheduleTx ELSE {"off"} :
        /\ LoRaMacState' = ScheduledState(LoRaMacState \ ClearedState, o)
        /\ McpsConfirm' = SentConfirm(CheckedConfirm, o)
        /\ MlmeConfirm' = SentConfirm(MlmeConfirm, o)
        /\ timers' = ScheduledTimers(timers \ {"MacStateCheck"}, o)
        /\ radio' = ScheduledRadio(o)
        /\ history' = SentHistory(history, o)
  BY ZenonT(60) DEF OnMacStateCheckTimerEvent
<1>2. /\ suspended = "none" /\ suspended' = "MacStateCheck"
      /\ LoRaMacFlags' = LoRaMacFlags \ If(SendsAgain, {"MacDone"})
      /\ NodeAckRequested' = (NodeAckRequested /\ ~AckEndsExchange /\ ~RetryGivesUp)
      /\ AckTimeoutRetriesCounter' = AckTimeoutRetriesCounter + (IF RetryNow THEN 1 ELSE 0)
      /\ ChannelsNbRepCounter' = CheckedNbRepCounter
      /\ UpLinkCounter' = CountedUpLink
      /\ UNCHANGED <<AckTimeoutRetries, LoRaMacBuffer, ChannelsNbRep, deviceOff>>
  BY DEF OnMacStateCheckTimerEvent, TimerEventRuns
<1>3. CheckFacts
  BY <1>2, CheckDecisions, ZenonT(60)
<1>4. /\ o \in {"now", "later", "off"}
      /\ ~SendsAgain => o = "off"
      /\ SendsAgain => (o = "off" <=> deviceOff)
      /\ SendsAgain <=> UnconfirmedRepeats \/ RetryNow
  BY DEF ScheduleTx, FlagTypes, SendsAgain
<1>5. /\ UNCHANGED McpsConfirm.Status \/ o = "now"
      /\ UNCHANGED MlmeConfirm.Status \/ o = "now"
      /\ o = "now" => McpsConfirm'.Status = "ERROR" /\ MlmeConfirm'.Status = "ERROR"
      /\ UNCHANGED MlmeConfirm.MlmeRequest
      /\ McpsConfirm'.AckReceived <=> McpsConfirm.AckReceived /\ ~TxTimedOut /\ ~RetryGivesUp
      /\ TxTimedOut \/ AckEndsExchange \/ RetryGivesUp =>
            McpsConfirm'.NbRetries = AckTimeoutRetriesCounter
  BY <1>1, Zenon DEF SentConfirm, CheckedConfirm, StepPre, Types, ConfirmTypes
<1>6. /\ UNCHANGED history.used /\ UNCHANGED history.aired /\ UNCHANGED history.afterTimeout
      /\ UNCHANGED history.timedOut /\ UNCHANGED history.acked
      /\ history'.trials = IF o = "now" /\ history.trials < MAX_ACK_RETRIES + 2
                           THEN history.trials + 1 ELSE history.trials
  BY <1>1, SentFields, ZenonT(60) DEF StepPre, Types, FrameHistoryTypes
<1>7. /\ "TX_DELAYED" \in LoRaMacState' <=> o = "later"
      /\ "RX_ABORT" \notin LoRaMacState'
      /\ "TX_RUNNING" \in LoRaMacState' <=>
            o = "now" \/ ~("RX_ABORT" \in LoRaMacState \/ TxTimedOut \/ UnconfirmedDone
                           \/ AckEndsExchange \/ RetryGivesUp)
  <2>1. /\ "RX_ABORT" \in LoRaMacState => "RX_ABORT" \in ClearedState
        /\ "TX_RUNNING" \in ClearedState <=>
             "RX_ABORT" \in LoRaMacState \/ TxTimedOut \/ UnconfirmedDone
             \/ AckEndsExchange \/ RetryGivesUp
    BY DEF ClearedState, If
  <2>2. "TX_RUNNING" \in LoRaMacState /\ "TX_DELAYED" \notin LoRaMacState
    BY <1>3, Zenon DEF CheckFacts
  <2> QED
    BY <1>1, <1>4, <2>1, <2>2 DEF ScheduledState, If
<1>8. McpsBusy' <=> "TX_RUNNING" \in LoRaMacState' \/ "TX_DELAYED" \in LoRaMacState'
  BY ZenonT(60) DEF McpsBusy
<1>9. /\ "McpsReq" \in LoRaMacFlags' <=> "McpsReq" \in LoRaMacFlags
      /\ "MlmeReq" \in LoRaMacFlags' <=> "MlmeReq" \in LoRaMacFlags
      /\ "McpsInd" \in LoRaMacFlags' <=> "McpsInd" \in LoRaMacFlags
      /\ "MacDone" \in LoRaMacFlags' <=> ~SendsAgain
  BY <1>2 DEF If
<1>10. McpsBusy /\ (JoinPending' <=> JoinPending)
  <2>1. McpsBusy
    BY <1>3, ZenonT(60) DEF CheckFacts, McpsBusy
  <2> QED
    BY <1>5, <1>9, <2>1, ZenonT(60) DEF JoinPending
<1>11. LoRaMacBuffer.type # "JOIN_REQ" => RequestPending
  BY <1>10 DEF BufferInv, RequestPending
(* The exchange goes on exactly when no decision ends it. *)
<1>12. McpsBusy' => ~TxTimedOut /\ ~UnconfirmedDone /\ ~AckEndsExchange /\ ~RetryGivesUp
  BY <1>3, <1>4, <1>7, <1>8, ZenonT(60) DEF CheckFacts, RetryGivesUp
(* When it ends, one did, a join request aside. *)
<1>13. LoRaMacBuffer.type # "JOIN_REQ" /\ ~McpsBusy' =>
         TxTimedOut \/ UnconfirmedDone \/ AckEndsExchange \/ RetryGivesUp
  <2>1. SUFFICES ASSUME LoRaMacBuffer.type # "JOIN_REQ", "RX_ABORT" \in LoRaMacState, ~McpsBusy',
                        ~TxTimedOut, ~UnconfirmedDone, ~AckEndsExchange, ~RetryGivesUp
                 PROVE  FALSE
    BY <1>7, <1>8, Zenon
  <2>2. "McpsInd" \in LoRaMacFlags /\ (NodeAckRequested => AckTimeoutRetry) /\ ~deviceOff
    BY <2>1, Zenon DEF CycleEndInv
  <2>3. NodeAckRequested
    BY <1>11, <2>1, <2>2, Zenon DEF UnconfirmedDone, UnconfirmedChecked
  <2>4. SendsAgain
    BY <1>3, <1>4, <2>1, <2>2, <2>3, Zenon DEF RetryNow, RetryGivesUp, RetryDue, CheckFacts
  <2> QED
    BY <1>4, <1>7, <1>8, <2>1, <2>2, <2>4
<1>14. BufferInv'
  <2>1. McpsBusy' => (NodeAckRequested' <=> NodeAckRequested)
    BY <1>2, <1>12, Zenon
  <2> QED
    BY <1>2, <1>3, <1>9, <1>10, <2>1, Zenon DEF BufferInv, CheckFacts
<1>15. CycleEndInv'
  <2>1. timers' \cap {"RxWindow1", "RxWindow2"} = {}
    BY <1>1, <1>3, ZenonT(60) DEF CheckFacts, ScheduledTimers, If
  <2>2. deviceOff => radio' = "idle"
    BY <1>1, <1>3, <1>4 DEF CheckFacts, ScheduledRadio
  <2>3. o = "off" \/ o = "later" \/ o = "now"
    BY <1>4
  <2>4. "TX_RUNNING" \in LoRaMacState /\ "TX_DELAYED" \notin LoRaMacState
    BY <1>3, Zenon DEF CheckFacts
  <2>5. "ERROR" # "TX_TIMEOUT" /\ "MacStateCheck" # "RxWindow2"
    BY ZenonT(60)
  <2> QED
    BY <1>2, <1>5, <1>6, <1>7, <2>1, <2>2, <2>3, <2>4, <2>5, ZenonT(60) DEF CycleEndInv
<1>16. UpLinkCounter \in Nat /\ history.used \in Nat /\ LoRaMacBuffer.cnt \in Nat
  BY Fields, ZenonT(60) DEF StepPre, SetTypes
<1>17. /\ CountedUpLink \in Nat \ {0}
       /\ JoinPending \/ CountedUpLink >= UpLinkCounter
       /\ McpsBusy' /\ ~JoinPending => CountedUpLink = UpLinkCounter
       /\ ~JoinPending /\ (UnconfirmedDone \/ AckEndsExchange \/ RetryGivesUp) =>
             CountedUpLink > UpLinkCounter
  <2>1. UpLinkCounter > 0
    BY Zenon DEF CounterInv
  <2>2. JoinPending /\ MlmeConfirm.Status = "OK" /\ ~NodeAckRequested /\ ~TxTimedOut => UnconfirmedDone
    BY Zenon DEF UnconfirmedDone, UnconfirmedChecked, RepetitionsDone, RequestPending, JoinPending
  <2> QED
    BY <1>12, <1>16, <2>1, <2>2 DEF CountedUpLink
<1>18. CounterInv'
  <2>1. LastAired' = LastAired /\ LastAired \in Nat
    BY <1>2, <1>6, <1>16, ZenonT(60) DEF LastAired, IsData
  <2>2. IsData(LoRaMacBuffer) => LoRaMacBuffer.type # "JOIN_REQ" /\ ~JoinPending
    BY <1>3, ZenonT(60) DEF IsData, CheckFacts
  <2>3. LoRaMacBuffer.type = "JOIN_REQ" => history.used = 0 /\ LastAired = 0
    BY <2>2, ZenonT(60) DEF CounterInv, LastAired
  <2>4. LoRaMacBuffer.type # "JOIN_REQ" => LastAired <= UpLinkCounter /\ ~JoinPending
    BY <1>3, <1>10, <1>16, SMTT(60) DEF CounterInv, LastAired, CheckFacts
  <2>5. history.used <= CountedUpLink
    BY <1>3, <1>16, <1>17, <2>3, SMTT(60) DEF CounterInv, CheckFacts
  <2>6. ~McpsBusy' => LastAired < CountedUpLink \/ (LastAired = CountedUpLink /\ history.timedOut)
    BY <1>3, <1>13, <1>16, <1>17, <2>1, <2>3, <2>4 DEF CheckFacts
  <2>7. McpsBusy' /\ IsData(LoRaMacBuffer) =>
          /\ LoRaMacBuffer.cnt = CountedUpLink
          /\ LoRaMacBuffer.cnt > history.used \/ history.afterTimeout
    BY <1>10, <1>17, <2>2, Zenon DEF CounterInv
  <2>8. CountedUpLink > 0
    BY <1>17, SMTT(60)
  <2> QED
    BY <1>2, <1>6, <2>8, <2>1, <2>3, <2>5, <2>6, <2>7, ZenonT(60) DEF CounterInv, IsData
<1>19. /\ history.trials \in Nat /\ MAX_ACK_RETRIES \in Nat /\ ChannelsNbRepCounter \in Nat
       /\ AckTimeoutRetriesCounter \in Nat \ {0} /\ AckTimeoutRetries \in Nat /\ ChannelsNbRep \in Nat
  BY Fields, ConstantsAssumption DEF SetTypes, StepPre
<1>20. NodeAckRequested =>
         /\ AckTimeoutRetriesCounter = history.trials
         /\ AckTimeoutRetriesCounter <= MAX_ACK_RETRIES + 1
         /\ AckTimeoutRetriesCounter <= AckTimeoutRetries
  BY <1>3, <1>10, ZenonT(60) DEF TrialsInv, AckInv, CheckFacts
<1>21. TrialsInv'
  <2>1. SUFFICES ASSUME McpsBusy', NodeAckRequested'
                 PROVE  /\ AckTimeoutRetriesCounter' <= MAX_ACK_RETRIES + 1
                        /\ o = "later" => AckTimeoutRetriesCounter' = history'.trials + 1
                        /\ o # "later" =>
                              AckTimeoutRetriesCounter' = history'.trials \/ (deviceOff /\ SendsAgain)
    BY <1>2, <1>7, <1>9, Zenon DEF TrialsInv
  <2>2. NodeAckRequested /\ (SendsAgain <=> RetryNow)
    BY <1>2, <1>3, <1>4, <2>1, Zenon DEF CheckFacts
  <2>3. RetryNow => AckTimeoutRetriesCounter <= MAX_ACK_RETRIES
    BY ZenonT(60) DEF RetryNow, MayRetry
  <2> QED
    BY <1>2, <1>4, <1>6, <1>19, <1>20, <2>2, <2>3
<1>22. RepetitionsInv'
  <2>1. SUFFICES ASSUME McpsBusy', ~NodeAckRequested', LoRaMacBuffer.type # "JOIN_REQ"
                 PROVE  /\ \/ history'.trials <= ChannelsNbRepCounter'
                           \/ history'.trials = ChannelsNbRepCounter' + 1 /\ o = "now"
                        /\ o = "later" =>
                              "TX_RUNNING" \in LoRaMacState' /\ history'.trials < ChannelsNbRep
    BY <1>1, <1>2, <1>7 DEF RepetitionsInv, ScheduledRadio
  <2>2. ~NodeAckRequested /\ ~JoinPending /\ ~TxTimedOut /\ ~UnconfirmedDone
    BY <1>2, <1>3, <1>12, <2>1, Zenon DEF CheckFacts
  <2>3. ChannelsNbRepCounter' = ChannelsNbRepCounter
    BY <1>2, <2>2, Zenon DEF CheckedNbRepCounter
  <2>4. "McpsInd" \notin LoRaMacFlags /\ ~(ChannelsNbRepCounter >= ChannelsNbRep)
    BY <1>11, <2>1, <2>2, Zenon DEF UnconfirmedDone, UnconfirmedChecked, RepetitionsDone
  <2>5. McpsConfirm.Status # "TX_TIMEOUT"
    BY <1>11, <2>1, <2>2, ZenonT(60) DEF TxTimedOut
  <2>6. history.trials <= ChannelsNbRepCounter
    BY <1>3, <1>10, <2>1, <2>2, <2>5 DEF RepetitionsInv, CheckFacts
  <2>7. "TX_RUNNING" \in LoRaMacState'
    BY <1>7, <1>12, <2>1, <2>4, Zenon DEF CycleEndInv
  <2> QED
    BY <1>6, <1>19, <2>3, <2>4, <2>6, <2>7, SMTT(60)
<1>23. AckedInv'
  BY <1>2, <1>3, <1>5, <1>6, <1>9, <1>10, <1>12, Zenon DEF AckedInv, CheckFacts
<1>24. ReportInv'
  <2>1. SUFFICES ASSUME ~McpsBusy', LoRaMacBuffer.type = "CONFIRMED_UP"
                 PROVE  /\ McpsConfirm'.NbRetries = history'.trials
                        /\ history'.trials \in 1..TrialLimit
                        /\ \/ McpsConfirm'.AckReceived /\ history'.acked
                           \/ /\ ~McpsConfirm'.AckReceived
                              /\ McpsConfirm'.Status = "TX_TIMEOUT" /\ history'.timedOut
                           \/ /\ ~McpsConfirm'.AckReceived /\ ~history'.acked
                              /\ history'.trials = TrialLimit
    <3>1. LoRaMacState' = {} => ~McpsBusy'
      BY DEF McpsBusy
    <3>2. TrialLimit' = TrialLimit
      BY <1>2, Zenon DEF TrialLimit
    <3> QED
      BY <1>2, <3>1, <3>2, ZenonT(60) DEF ReportInv, Exchanging
  <2>2. NodeAckRequested
    BY <1>10, <2>1, Zenon DEF BufferInv
  <2>3. o # "now"
    BY <1>7, <1>8, <2>1, Zenon
  <2>4. history'.trials = AckTimeoutRetriesCounter
    BY <1>6, <1>20, <2>2, <2>3, ZenonT(60)
  <2>5. AckTimeoutRetriesCounter \in 1..TrialLimit
    BY <1>19, <1>20, <2>2, SMTT(60) DEF TrialLimit
  <2>6. TxTimedOut \/ AckEndsExchange \/ RetryGivesUp
    BY <1>3, <1>13, <2>1, <2>2 DEF CheckFacts
  <2>7. CASE TxTimedOut
    BY <1>3, <1>5, <1>6, <2>3, <2>4, <2>5, <2>7, Zenon DEF CheckFacts
  <2>8. CASE AckEndsExchange /\ ~TxTimedOut
    BY <1>3, <1>5, <1>6, <1>10, <2>2, <2>4, <2>5, <2>8, Zenon DEF CheckFacts, AckedInv
  <2>9. CASE RetryGivesUp
    <3>1. AckTimeoutRetriesCounter = TrialLimit
      BY <1>19, <1>20, <2>2, <2>9 DEF RetryGivesUp, MayRetry, TrialLimit
    <3> QED
      BY <1>3, <1>5, <1>6, <1>10, <2>2, <2>4, <2>5, <2>9, <3>1, ZenonT(60) DEF CheckFacts, AckedInv
  <2> QED
    BY <1>5, <2>4, <2>5, <2>6, <2>7, <2>8, <2>9, Zenon
<1> QED
  BY <1>14, <1>15, <1>18, <1>21, <1>22, <1>23, <1>24, ZenonT(60) DEF HistoryInv

(* Every step keeps HistoryInv. *)
LEMMA HistoryStep ==
    ASSUME ~Preemption, "LINK_CHECK_FULL" \notin MlmeTypes, StepPre, [Next]_vars
    PROVE  HistoryInv'
<1>1. CASE Requests
  <2>1. ~MlmeLinkCheckRequestFull
    BY Zenon DEF MlmeLinkCheckRequestFull
  <2> QED
    BY <1>1, <2>1, HistoryMcpsRequest, HistoryOtherRequests, Zenon DEF Requests
<1>2. CASE RadioEvents
  BY <1>2, HistoryTx, HistoryRxFailure, HistoryRxDone, Zenon DEF RadioEvents
<1>3. CASE TimerEvents
  BY <1>3, HistoryTimers, HistoryTxDelayed, HistoryCheckNotDone, HistoryCheckDone, HistoryReport, Zenon
  DEF TimerEvents
<1>4. CASE UNCHANGED vars
  BY <1>4, HistoryStutter, Zenon
<1> QED
  BY <1>1, <1>2, <1>3, <1>4, Zenon DEF Next

(* The counters of the code always tell how often the frame in             *)
(* LoRaMacBuffer was sent, with which uplink counter, and whether it was   *)
(* acknowledged.                                                           *)
THEOREM HistorySafe ==
    ASSUME ~Preemption, "LINK_CHECK_FULL" \notin MlmeTypes PROVE Spec => []HistoryInv
<1>1. Init => HistoryInv
  <2> SUFFICES ASSUME Init PROVE HistoryInv
    BY ZenonT(60)
  <2> USE DEF Init, McpsBusy, NewHistory
  <2>1. BufferInv /\ CycleEndInv
    BY ZenonT(60) DEF BufferInv, CycleEndInv, JoinPending
  <2>2. CounterInv
    BY SMTT(60) DEF CounterInv, LastAired, IsData
  <2>3. TrialsInv /\ RepetitionsInv /\ AckedInv /\ ReportInv
    BY DEF TrialsInv, RepetitionsInv, AckedInv, ReportInv
  <2> QED
    BY <2>1, <2>2, <2>3, Zenon DEF HistoryInv
<1>2. Types /\ Types' /\ ExchangeInv /\ HistoryInv /\ [Next]_vars => HistoryInv'
  BY HistoryStep, Zenon DEF StepPre
<1>3. Spec => []Types
  BY TypeCorrect, TypeGroups, PTL
<1> QED
  BY <1>1, <1>2, <1>3, ExchangeSafe, PTL DEF Spec

(* A confirmed frame is on air only while its acknowledgement is awaited. *)
THEOREM AckIsAwaited ==
    ASSUME ~Preemption, "LINK_CHECK_FULL" \notin MlmeTypes PROVE Spec => []ConfirmedFrameAwaitsAck
<1>1. ExchangeInv /\ HistoryInv => ConfirmedFrameAwaitsAck
  BY DEF ExchangeInv, HistoryInv, RestInv, Quiet, BufferInv, McpsBusy, ConfirmedFrameAwaitsAck
<1> QED
  BY <1>1, ExchangeSafe, HistorySafe, PTL

(* An uplink counter that was on air is used for another frame only after  *)
(* a transmit timeout.                                                     *)
THEOREM CounterReuse ==
    ASSUME ~Preemption, "LINK_CHECK_FULL" \notin MlmeTypes
    PROVE  Spec => []CounterReusedOnlyAfterTimeout
<1>1. ASSUME Types, ExchangeInv, HistoryInv PROVE CounterReusedOnlyAfterTimeout
  <2>1. UpLinkCounter \in Nat /\ history.used \in Nat
    BY <1>1, Fields DEF SetTypes
  <2> QED
    BY <1>1, <2>1, SMTT(60) DEF ExchangeInv, HistoryInv, RestInv, Quiet, CounterInv, McpsBusy,
       CounterReusedOnlyAfterTimeout
<1>2. Spec => []Types
  BY TypeCorrect, TypeGroups, PTL
<1> QED
  BY <1>1, <1>2, ExchangeSafe, HistorySafe, PTL

(* The confirm of a confirmed frame reports the number of its trials, and  *)
(* an acknowledgement exactly when one was indicated.                      *)
THEOREM ConfirmIsTrue ==
    ASSUME ~Preemption, "LINK_CHECK_FULL" \notin MlmeTypes PROVE Spec => ConfirmTellsTruth
<1> DEFINE Truth ==
      McpsConfirmed /\ LoRaMacBuffer.type = "CONFIRMED_UP" =>
        /\ McpsConfirm.NbRetries = history.trials
        /\ \/ McpsConfirm.AckReceived /\ history.acked
           \/ ~McpsConfirm.AckReceived /\ McpsConfirm.Status = "TX_TIMEOUT"
           \/ /\ ~McpsConfirm.AckReceived /\ ~history.acked
              /\ history.trials >= AckTimeoutRetries \/ history.trials > MAX_ACK_RETRIES
<1>1. ASSUME Types, HistoryInv, [Next]_vars PROVE Truth \/ UNCHANGED vars
  <2>1. McpsConfirmed /\ Next => OnMacStateCheckTimerEventReport
    <3> USE DEF McpsConfirmed
    <3>1. CASE Requests
      BY <3>1, ZenonT(60) DEF Requests, McpsRequest, McpsRequestRefused, MlmeJoinRequest, MlmeJoinRequestBusy,
         MlmeLinkCheckRequest, MlmeLinkCheckRequestFull, MibSetNetworkJoined, MibSetChannelsNbRep,
         serviceVars
    <3>2. CASE RadioEvents
      BY <3>2, ZenonT(60)
         DEF RadioEvents, OnRadioTxDone, OnRadioTxTimeout, OnRadioRxError, OnRadioRxTimeout,
         OnRadioRxFailure, OnRadioRxDone
    <3>3. CASE TimerEvents
      BY <3>3 DEF TimerEvents, OnRxWindow1TimerEvent, OnRxWindow2TimerEvent, OnRxWindow2TimerEventSetup,
         OnAckTimeoutTimerEvent, OnTxDelayedTimerEvent, OnMacStateCheckTimerEvent, serviceVars, If
    <3> QED
      BY <3>1, <3>2, <3>3 DEF Next
  <2>2. ASSUME McpsConfirmed, OnMacStateCheckTimerEventReport, LoRaMacBuffer.type = "CONFIRMED_UP"
        PROVE  /\ McpsConfirm.NbRetries = history.trials
               /\ history.trials \in 1..TrialLimit
               /\ \/ McpsConfirm.AckReceived /\ history.acked
                  \/ ~McpsConfirm.AckReceived /\ McpsConfirm.Status = "TX_TIMEOUT"
                  \/ ~McpsConfirm.AckReceived /\ ~history.acked /\ history.trials = TrialLimit
    <3>1. suspended = "MacStateCheck" /\ LoRaMacState = {} /\ Exchanging
      BY <2>2, ZenonT(60) DEF OnMacStateCheckTimerEventReport, McpsConfirmed, Exchanging, If
    <3> QED
      BY <1>1, <3>1, ZenonT(60) DEF HistoryInv, ReportInv
  <2>3. MAX_ACK_RETRIES \in Nat /\ AckTimeoutRetries \in Nat
    BY <1>1, ConstantsAssumption DEF Types, SetTypes
  <2>4. TrialLimit >= AckTimeoutRetries \/ TrialLimit > MAX_ACK_RETRIES
    BY <2>3 DEF TrialLimit
  <2> QED
    BY <1>1, <2>1, <2>2, <2>4, Zenon
<1>2. Spec => []Types
  BY TypeCorrect, TypeGroups, PTL
<1> QED
  BY <1>1, <1>2, HistorySafe, PTL DEF Spec, ConfirmTellsTruth

(* No frame is sent more often than its request and the network allow. *)
THEOREM TrialsAreBounded ==
    ASSUME ~Preemption, "LINK_CHECK_FULL" \notin MlmeTypes PROVE Spec => TrialsBounded
<1> DEFINE Bounded ==
      Transmits /\ history'.trials > 1 =>
         \/ LoRaMacBuffer'.type = "JOIN_REQ"
         \/ NodeAckRequested /\ history.trials < AckTimeoutRetries
                             /\ history.trials <= MAX_ACK_RETRIES
         \/ ~NodeAckRequested /\ history.trials < ChannelsNbRep
<1>1. ASSUME StepPre, [Next]_vars PROVE Bounded \/ UNCHANGED vars
  <2> USE <1>1, StepFacts
  <2>0. /\ MAX_ACK_RETRIES \in Nat /\ AckTimeoutRetries \in Nat /\ AckTimeoutRetriesCounter \in Nat
        /\ history.trials \in Nat /\ history \in History /\ PreparedHistory \in History
        /\ ChannelsNbRepCounter \in Nat /\ ChannelsNbRep \in Nat
    BY ConstantsAssumption, Fields, PreparedHistoryType DEF StepPre, SetTypes, Types, FrameHistoryTypes
  <2>1. CASE Requests
    <3>1. \A h \in History : \A o : h.trials = 0 => ~(SentHistory(h, o).trials > 1)
      BY <2>0, SentFields
    <3>2. NewHistory \in History /\ NewHistory.trials = 0 /\ PreparedHistory.trials = 0
      BY PreparedHistoryType, ZenonT(60) DEF StepPre, Types, NewHistory, PreparedHistory
    <3>3. Transmits => \E h \in {NewHistory, PreparedHistory} : \E o : history' = SentHistory(h, o)
      BY <2>1 DEF Requests, McpsRequest, McpsRequestRefused, MlmeJoinRequest, MlmeJoinRequestBusy,
         MlmeLinkCheckRequest, MlmeLinkCheckRequestFull, MibSetNetworkJoined, MibSetChannelsNbRep,
         hardwareVars, Transmits
    <3> HIDE DEF PreparedHistory, NewHistory
    <3>4. ~(Transmits /\ history'.trials > 1)
      <4> SUFFICES ASSUME Transmits PROVE ~(history'.trials > 1)
        OBVIOUS
      <4>1. PICK h \in {NewHistory, PreparedHistory} : \E o : history' = SentHistory(h, o)
        BY <3>3, Zenon
      <4>2. PICK o : history' = SentHistory(h, o)
        BY <4>1, Zenon
      <4>3. h \in History /\ h.trials = 0
        BY <4>1, <3>2, <2>0, ZenonT(60)
      <4> QED
        BY <3>1, <4>2, <4>3, Zenon
    <3> QED
      BY <3>4, ZenonT(60)
  <2>2. CASE RadioEvents
    BY <2>2, ZenonT(60) DEF RadioEvents, OnRadioTxDone, OnRadioTxTimeout, OnRadioRxError, OnRadioRxTimeout,
       OnRadioRxFailure, OnRadioRxDone, Transmits
  <2>3. CASE OnRxWindow1TimerEvent \/ OnRxWindow2TimerEvent \/ OnRxWindow2TimerEventSetup
             \/ OnAckTimeoutTimerEvent \/ OnMacStateCheckTimerEventReport
    BY <2>3 DEF OnRxWindow1TimerEvent, OnRxWindow2TimerEvent, OnRxWindow2TimerEventSetup,
       RxWindowSetup, OnAckTimeoutTimerEvent, OnMacStateCheckTimerEventReport, Transmits
  <2>4. ASSUME NEW o \in {"now", "later", "off"}, OnTxDelayedTimerEvent(o) PROVE Bounded
    <3>1. SUFFICES ASSUME history'.trials > 1, LoRaMacBuffer'.type # "JOIN_REQ"
                   PROVE  \/ NodeAckRequested /\ history.trials < AckTimeoutRetries
                                              /\ history.trials <= MAX_ACK_RETRIES
                          \/ ~NodeAckRequested /\ history.trials < ChannelsNbRep
      BY ZenonT(60)
    <3>2. history' = SentHistory(history, o) /\ LoRaMacBuffer' = LoRaMacBuffer
      BY <2>4, <3>1, SMTT(60) DEF OnTxDelayedTimerEvent
    <3>3. history.trials > 0
      BY <2>0, <3>1, <3>2, SentFields, SMTT(60)
    <3>4. "TX_DELAYED" \in LoRaMacState /\ McpsBusy
      BY <2>4 DEF OnTxDelayedTimerEvent, WakeUpInv, McpsBusy
    <3>5. NodeAckRequested => /\ AckTimeoutRetriesCounter <= AckTimeoutRetries
                              /\ AckTimeoutRetriesCounter <= MAX_ACK_RETRIES + 1
                              /\ AckTimeoutRetriesCounter = history.trials + 1
      BY <3>4, Zenon DEF AckInv, TrialsInv
    <3>6. ~NodeAckRequested => history.trials < ChannelsNbRep
      BY <3>1, <3>2, <3>3, <3>4, Zenon DEF RepetitionsInv
    <3> QED
      BY <2>0, <3>5, <3>6, SMTT(60)
  <2>5. CASE OnMacStateCheckTimerEvent
    <3>1. CASE ~SendsAgain \/ "MacDone" \notin LoRaMacFlags
      BY <2>5, <3>1 DEF OnMacStateCheckTimerEvent, ScheduledRadio, Transmits
    <3>2. CASE SendsAgain /\ "MacDone" \in LoRaMacFlags
      <4>1. suspended = "none" /\ LoRaMacBuffer' = LoRaMacBuffer
        BY <2>5, <3>2, ZenonT(60) DEF OnMacStateCheckTimerEvent, TimerEventRuns
      <4>2. CheckFacts /\ McpsBusy
        <5>1. CheckFacts
          BY <3>2, <4>1, CheckDecisions, ZenonT(60)
        <5> QED
          BY <5>1 DEF CheckFacts, McpsBusy
      <4>3. CASE RetryNow
        <5>1. NodeAckRequested /\ AckTimeoutRetriesCounter = history.trials
          BY <3>2, <4>2, <4>3, ZenonT(60) DEF CheckFacts, TrialsInv
        <5> QED
          BY <2>0, <4>3, <5>1 DEF RetryNow, MayRetry
      <4>4. CASE UnconfirmedRepeats /\ LoRaMacBuffer.type # "JOIN_REQ"
        <5>1. ~NodeAckRequested /\ ~TxTimedOut /\ ~RepetitionsDone /\ RequestPending /\ ~JoinPending
          BY <4>2, <4>4, Zenon DEF CheckFacts, UnconfirmedRepeats, UnconfirmedChecked, UnconfirmedDone
        <5>2. ~(ChannelsNbRepCounter >= ChannelsNbRep) /\ McpsConfirm.Status # "TX_TIMEOUT"
          BY <5>1, ZenonT(60) DEF RepetitionsDone, TxTimedOut
        <5>3. history.trials <= ChannelsNbRepCounter
          BY <4>2, <4>4, <5>1, <5>2 DEF RepetitionsInv, CheckFacts
        <5> QED
          BY <2>0, <5>1, <5>2, <5>3
      <4>5. CASE LoRaMacBuffer.type = "JOIN_REQ"
        BY <4>1, <4>5
      <4> QED
        BY <3>2, <4>3, <4>4, <4>5, ZenonT(60) DEF SendsAgain
    <3> QED
      BY <3>1, <3>2, ZenonT(60)
  <2> QED
    BY <1>1, <2>1, <2>2, <2>3, <2>4, <2>5, ZenonT(60) DEF Next, TimerEvents
<1>2. Types /\ Types' /\ ExchangeInv /\ HistoryInv => StepPre
  BY Zenon DEF StepPre
<1>3. Spec => []Types
  BY TypeCorrect, TypeGroups, PTL
<1> QED
  BY <1>1, <1>2, <1>3, ExchangeSafe, HistorySafe, PTL DEF Spec, TrialsBounded

-----------------------------------------------------------------------------
(***************************************************************************)
(* What the application relies on: the exchange of a confirmed request     *)
(* implements MacService, a data request and a join do not meet, and a     *)
(* join starts a new session. The hypotheses on the constants are the two  *)
(* ways the code is used: personalized, or joined over the air.            *)
(***************************************************************************)
(* Every step keeps data and join requests apart: each refuses to start    *)
(* while the other is pending.                                             *)
LEMMA OneServiceStep ==
    ASSUME ~Preemption, ~({"JOIN", "LINK_CHECK"} \subseteq MlmeTypes), "LINK_CHECK_FULL" \notin MlmeTypes,
           StepPre, OneServiceInv, [Next]_vars
    PROVE  OneServiceInv'
<1> USE StepFacts DEF OneServiceInv, JoinPending
<1>1. ASSUME NEW type \in McpsTypes, NEW n, McpsRequest(type, n)
      PROVE  OneServiceInv'
  <2>1. PICK o \in ScheduleTx :
          /\ LoRaMacFlags' = LoRaMacFlags \cup If(o # "off", {"McpsReq"})
          /\ MlmeConfirm' = SentConfirm(MlmeConfirm, o)
    BY <1>1, Zenon DEF McpsRequest
  <2>2. ~McpsBusy /\ suspended = "none" /\ LoRaMacBuffer'.type = type
    BY <1>1, Zenon DEF McpsRequest, PreparedFrame, MainLoopRuns
  <2>3. "McpsReq" \notin LoRaMacFlags /\ ~("MlmeReq" \in LoRaMacFlags /\ MlmeConfirm.MlmeRequest = "JOIN")
    BY <2>2 DEF PendingMeansBusy, BufferInv
  <2>4. MlmeConfirm'.MlmeRequest = MlmeConfirm.MlmeRequest
    BY <2>1, Zenon DEF SentConfirm, StepPre, Types, ConfirmTypes
  <2>5. type # "JOIN_REQ"
    BY ConstantsAssumption
  <2> QED
    BY <2>1, <2>2, <2>3, <2>4, <2>5 DEF If
<1>2. ASSUME NEW type \in McpsTypes, NEW n, McpsRequestRefused(type, n)
      PROVE  OneServiceInv'
  BY <1>2, Zenon DEF McpsRequestRefused
<1>3. CASE MlmeJoinRequest
  <2>1. "McpsReq" \notin LoRaMacFlags
    BY <1>3 DEF MlmeJoinRequest, MainLoopRuns, JoinBusy, PendingMeansBusy, McpsBusy
  <2> QED
    BY <1>3, <2>1 DEF MlmeJoinRequest
<1>4. CASE MlmeJoinRequestBusy
  BY <1>4 DEF MlmeJoinRequestBusy, exchangeVars
<1>5. CASE MlmeLinkCheckRequest
  BY <1>5 DEF MlmeLinkCheckRequest, exchangeVars
<1>6. CASE MlmeLinkCheckRequestFull
  BY <1>6 DEF MlmeLinkCheckRequestFull
<1>7. CASE MibSetNetworkJoined \/ MibSetChannelsNbRep
  BY <1>7, ZenonT(60) DEF MibSetNetworkJoined, MibSetChannelsNbRep, serviceVars, exchangeVars
<1>8. CASE OnRadioTxDone \/ OnRadioTxTimeout
  <2>1. MlmeConfirm'.MlmeRequest = MlmeConfirm.MlmeRequest /\ LoRaMacBuffer' = LoRaMacBuffer
    BY <1>8, ZenonT(60) DEF OnRadioTxDone, OnRadioTxTimeout, exchangeVars, StepPre, Types, ConfirmTypes
  <2> QED
    BY <1>8, <2>1 DEF OnRadioTxDone, OnRadioTxTimeout
<1>9. CASE OnRadioRxError \/ OnRadioRxTimeout
  <2>1. PICK status : OnRadioRxFailure(status)
    BY <1>9, Zenon DEF OnRadioRxError, OnRadioRxTimeout
  <2>2. MlmeConfirm'.MlmeRequest = MlmeConfirm.MlmeRequest /\ LoRaMacBuffer' = LoRaMacBuffer
    BY <2>1, Zenon DEF OnRadioRxFailure, exchangeVars, StepPre, Types, ConfirmTypes
  <2>3. LoRaMacFlags' = LoRaMacFlags \cup If(RxSlot = 1, {"MacDone"})
    BY <2>1, Zenon DEF OnRadioRxFailure
  <2> QED
    BY <2>2, <2>3 DEF If
<1>10. ASSUME NEW d \in Downlinks, NEW cnt, OnRadioRxDone(d, cnt)
       PROVE  OneServiceInv'
  <2>1. MlmeConfirm'.MlmeRequest = MlmeConfirm.MlmeRequest /\ LoRaMacBuffer' = LoRaMacBuffer
    BY <1>10, Zenon DEF OnRadioRxDone, StepPre, Types, ConfirmTypes
  <2>2. LoRaMacFlags' = LoRaMacFlags \cup {"MacDone"} \cup If(IndicatedDown(d, cnt), {"McpsInd"})
    BY <1>10, Zenon DEF OnRadioRxDone
  <2> QED
    BY <2>1, <2>2 DEF If
<1>11. CASE OnRxWindow1TimerEvent \/ OnRxWindow2TimerEvent \/ OnRxWindow2TimerEventSetup
            \/ OnAckTimeoutTimerEvent
  BY <1>11, ZenonT(60) DEF OnRxWindow1TimerEvent, OnRxWindow2TimerEvent, OnRxWindow2TimerEventSetup,
     OnAckTimeoutTimerEvent, serviceVars, exchangeVars
<1>12. ASSUME NEW o \in {"now", "later", "off"}, OnTxDelayedTimerEvent(o)
       PROVE  OneServiceInv'
  <2>1. MlmeConfirm'.MlmeRequest = MlmeConfirm.MlmeRequest
    BY <1>12, Zenon DEF OnTxDelayedTimerEvent, SentConfirm, StepPre, Types, ConfirmTypes
  <2>2. LoRaMacFlags' = LoRaMacFlags /\ (LoRaMacBuffer' = LoRaMacBuffer \/ JoinPending)
    BY <1>12, Zenon DEF OnTxDelayedTimerEvent
  <2> QED
    BY <2>1, <2>2
<1>13. CASE OnMacStateCheckTimerEvent
  <2>1. MlmeConfirm'.MlmeRequest = MlmeConfirm.MlmeRequest /\ LoRaMacBuffer' = LoRaMacBuffer
    BY <1>13, ZenonT(60) DEF OnMacStateCheckTimerEvent, SentConfirm, StepPre, Types, ConfirmTypes,
       serviceVars, exchangeVars
  <2>2. /\ "McpsReq" \in LoRaMacFlags' <=> "McpsReq" \in LoRaMacFlags
        /\ "MlmeReq" \in LoRaMacFlags' <=> "MlmeReq" \in LoRaMacFlags
    BY <1>13, ZenonT(60) DEF OnMacStateCheckTimerEvent, If, serviceVars
  <2> QED
    BY <2>1, <2>2, ZenonT(60)
<1>14. CASE OnMacStateCheckTimerEventReport
  BY <1>14 DEF OnMacStateCheckTimerEventReport, exchangeVars, If
<1>15. CASE UNCHANGED vars
  BY <1>15, Zenon DEF vars, serviceVars, exchangeVars
<1> QED
  BY <1>1, <1>2, <1>3, <1>4, <1>5, <1>6, <1>7, <1>8, <1>9, <1>10, <1>11, <1>12, <1>13, <1>14, <1>15,
     ZenonT(60) DEF Next, Requests, RadioEvents, TimerEvents

(* Nothing the service sees has changed. *)
SameExchange ==
    /\ Exchanging' <=> Exchanging
    /\ Exchanging => /\ AckTimeoutRetries' = AckTimeoutRetries
                     /\ history'.trials = history.trials
                     /\ history'.acked = history.acked
                     /\ history'.timedOut = history.timedOut

(* What the service cannot see is a stuttering step of it. *)
LEMMA ServiceStutters == ASSUME SameExchange PROVE UNCHANGED Service!vars
<1>1. Exchanging' = Exchanging
  BY DEF SameExchange, Exchanging
<1>2. CASE Exchanging
  <2>1. TrialLimit' = TrialLimit
    BY <1>2, Zenon DEF SameExchange, TrialLimit
  <2> QED
    BY <1>1, <1>2, <2>1, Zenon DEF SameExchange, Service!vars
<1>3. CASE ~Exchanging
  BY <1>1, <1>3, Zenon DEF Service!vars
<1> QED
  BY <1>2, <1>3

(* A trial of the exchange is a transmission of the service. *)
LEMMA ServiceTransmits ==
    ASSUME Exchanging, Exchanging', AckTimeoutRetries' = AckTimeoutRetries,
           history.trials < TrialLimit, history'.trials = history.trials + 1,
           ~history.acked, ~history'.acked, history'.timedOut = history.timedOut
    PROVE  Service!Next
<1>1. TrialLimit' = TrialLimit
  BY Zenon DEF TrialLimit
<1>2. Service!Transmit
  BY <1>1, Zenon DEF Service!Transmit
<1> QED
  BY <1>2, Zenon DEF Service!Next

(* Every step of the MAC is a step of MacService or leaves it alone. *)
LEMMA ServiceStep ==
    ASSUME ~Preemption, "LINK_CHECK_FULL" \notin MlmeTypes, StepPre, OneServiceInv, [Next]_vars
    PROVE  [Service!Next]_(Service!vars)
<1> USE StepFacts
<1>0. /\ MAX_ACK_RETRIES \in Nat /\ AckTimeoutRetries \in Nat /\ AckTimeoutRetriesCounter \in Nat \ {0}
      /\ history.trials \in Nat /\ history \in History
  BY ConstantsAssumption, Fields DEF StepPre, SetTypes, Types, FrameHistoryTypes
<1>1. ASSUME NEW type \in McpsTypes, NEW n \in IF type = "CONFIRMED_UP" THEN NbTrials ELSE {1},
             McpsRequest(type, n)
      PROVE  [Service!Next]_(Service!vars)
  <2>1. PICK o \in ScheduleTx :
          /\ LoRaMacFlags' = LoRaMacFlags \cup If(o # "off", {"McpsReq"})
          /\ history' = SentHistory(PreparedHistory, o)
    BY <1>1, Zenon DEF McpsRequest
  <2>2. /\ ~McpsBusy /\ suspended = "none" /\ LoRaMacBuffer'.type = type
        /\ type = "CONFIRMED_UP" => AckTimeoutRetries' = n
    BY <1>1, Zenon DEF McpsRequest, PreparedFrame, MainLoopRuns, McpsReset
  <2>3. ~Exchanging
    BY <2>2 DEF PendingMeansBusy, Exchanging
  <2>4. CASE ~Exchanging'
    BY <2>3, <2>4, ServiceStutters, Zenon DEF SameExchange
  <2>5. CASE Exchanging'
    <3>1. type = "CONFIRMED_UP" /\ n \in Nat \ {0}
      BY <2>2, <2>5, ConstantsAssumption DEF Exchanging
    <3>2. TrialLimit' \in Nat \ {0}
      BY <1>0, <2>2, <3>1 DEF TrialLimit
    <3>3. /\ PreparedHistory \in History /\ PreparedHistory.trials = 0
          /\ ~PreparedHistory.acked /\ ~PreparedHistory.timedOut
      BY PreparedHistoryType, ZenonT(60) DEF StepPre, Types, PreparedHistory, NewHistory
    <3>4. /\ history'.trials = IF o = "now" /\ PreparedHistory.trials < MAX_ACK_RETRIES + 2
                               THEN PreparedHistory.trials + 1 ELSE PreparedHistory.trials
          /\ history'.acked = PreparedHistory.acked /\ history'.timedOut = PreparedHistory.timedOut
      BY <2>1, <3>3, SentFields, SMTT(60)
    <3>5. history'.trials \in {0, 1} /\ ~history'.acked /\ ~history'.timedOut
      BY <3>3, <3>4
    <3>6. Service!Request
      BY <2>3, <2>5, <3>2, <3>4, <3>5, ZenonT(60) DEF Service!Request
    <3> QED
      BY <3>6, Zenon DEF Service!Next
  <2> QED
    BY <2>4, <2>5
<1>2. ASSUME NEW type \in McpsTypes, NEW n, McpsRequestRefused(type, n)
      PROVE  SameExchange
  BY <1>2 DEF McpsRequestRefused, MainLoopRuns, SameExchange, Exchanging, PendingMeansBusy
<1>3. CASE MlmeJoinRequest
  <2>1. "McpsReq" \notin LoRaMacFlags /\ "McpsReq" \notin LoRaMacFlags'
    BY <1>3 DEF MlmeJoinRequest, MainLoopRuns, JoinBusy, PendingMeansBusy, McpsBusy
  <2>2. SameExchange
    BY <2>1, ZenonT(60) DEF SameExchange, Exchanging
  <2> QED
    BY <2>2, ServiceStutters, Zenon
<1>4. CASE MlmeJoinRequestBusy \/ MlmeLinkCheckRequest \/ MibSetNetworkJoined \/ MibSetChannelsNbRep
           \/ OnRadioRxError \/ OnRadioRxTimeout \/ OnRxWindow1TimerEvent \/ OnRxWindow2TimerEvent
           \/ OnRxWindow2TimerEventSetup \/ OnAckTimeoutTimerEvent
  <2>1. /\ UNCHANGED <<LoRaMacBuffer, AckTimeoutRetries, history>>
        /\ "McpsReq" \in LoRaMacFlags' <=> "McpsReq" \in LoRaMacFlags
    BY <1>4, ZenonT(60) DEF MlmeJoinRequestBusy, MlmeLinkCheckRequest, MibSetNetworkJoined, MibSetChannelsNbRep,
       OnRadioRxError, OnRadioRxTimeout, OnRadioRxFailure, OnRxWindow1TimerEvent, OnRxWindow2TimerEvent,
       OnRxWindow2TimerEventSetup, OnAckTimeoutTimerEvent, serviceVars, exchangeVars, If
  <2>2. SameExchange
    BY <2>1, Zenon DEF SameExchange, Exchanging
  <2> QED
    BY <2>2, ServiceStutters, Zenon
<1>5. CASE OnRadioTxDone
  <2>1. /\ UNCHANGED history.trials /\ UNCHANGED history.acked /\ UNCHANGED history.timedOut
        /\ UNCHANGED <<LoRaMacFlags, LoRaMacBuffer, AckTimeoutRetries>>
    BY <1>0, <1>5, Zenon DEF OnRadioTxDone, History
  <2>2. SameExchange
    BY <2>1, Zenon DEF SameExchange, Exchanging
  <2> QED
    BY <2>2, ServiceStutters, Zenon
(* While the radio is busy the frame was sent at least once. *)
<1>6. radio # "idle" /\ Exchanging => history.trials > 0
  <2>1. radio # "idle" =>
          McpsBusy /\ "TX_DELAYED" \notin LoRaMacState /\ ~deviceOff
    BY DEF RestInv, Quiet, McpsBusy, CycleEndInv
  <2>2. radio # "idle" /\ Exchanging => AckTimeoutRetriesCounter = history.trials
    BY <2>1, Zenon DEF BufferInv, TrialsInv, Exchanging
  <2> QED
    BY <1>0, <2>2
<1>7. CASE OnRadioTxTimeout
  <2>1. /\ UNCHANGED history.trials /\ UNCHANGED history.acked /\ history'.timedOut
        /\ UNCHANGED <<LoRaMacBuffer, AckTimeoutRetries>> /\ radio = "tx"
    BY <1>0, <1>7, Zenon DEF OnRadioTxTimeout, History, exchangeVars
  <2>2. Exchanging' <=> Exchanging
    BY <1>7, <2>1 DEF OnRadioTxTimeout, Exchanging
  <2>3. CASE ~Exchanging
    BY <2>2, <2>3, ServiceStutters, Zenon DEF SameExchange
  <2>4. CASE Exchanging
    <3>1. TrialLimit' = TrialLimit
      BY <2>1, Zenon DEF TrialLimit
    <3>2. history.trials > 0
      BY <1>6, <2>1, <2>4
    <3>3. Service!Fail
      BY <2>1, <2>2, <2>4, <3>1, <3>2, Zenon DEF Service!Fail
    <3> QED
      BY <3>3, Zenon DEF Service!Next
  <2> QED
    BY <2>3, <2>4
<1>8. ASSUME NEW d \in Downlinks, NEW cnt, OnRadioRxDone(d, cnt)
      PROVE  [Service!Next]_(Service!vars)
  <2>1. /\ UNCHANGED history.trials /\ UNCHANGED history.timedOut
        /\ history'.acked <=> history.acked \/ (AcceptedDown(d, cnt) /\ d.ack /\ IndicatedDown(d, cnt))
        /\ UNCHANGED <<LoRaMacBuffer, AckTimeoutRetries>> /\ radio = "rx"
        /\ LoRaMacFlags' = LoRaMacFlags \cup {"MacDone"} \cup If(IndicatedDown(d, cnt), {"McpsInd"})
    BY <1>0, <1>8, ZenonT(60) DEF OnRadioRxDone, History
  <2>2. Exchanging' <=> Exchanging
    BY <2>1 DEF Exchanging, If
  <2>3. history.acked \in BOOLEAN /\ history'.acked \in BOOLEAN
    BY Fields, Zenon DEF StepPre, Types, FrameHistoryTypes, History
  <2>4. CASE ~Exchanging \/ (history'.acked <=> history.acked)
    <3>1. SameExchange
      BY <2>1, <2>2, <2>3, <2>4, Zenon DEF SameExchange
    <3> QED
      BY <3>1, ServiceStutters, Zenon
  <2>5. CASE Exchanging /\ history'.acked
    <3>1. TrialLimit' = TrialLimit
      BY <2>1, Zenon DEF TrialLimit
    <3>2. history.trials > 0
      BY <1>6, <2>1, <2>5
    <3>3. Service!Acknowledge
      BY <2>1, <2>2, <2>5, <3>1, <3>2, Zenon DEF Service!Acknowledge
    <3> QED
      BY <3>3, Zenon DEF Service!Next
  <2> QED
    BY <2>1, <2>4, <2>5, Zenon
<1>9. ASSUME NEW o \in {"now", "later", "off"}, OnTxDelayedTimerEvent(o)
      PROVE  [Service!Next]_(Service!vars)
  <2>1. /\ suspended = "none" /\ "TxDelayed" \in timers
        /\ UNCHANGED <<LoRaMacFlags, AckTimeoutRetries>>
        /\ JoinPending \/ (UNCHANGED LoRaMacBuffer /\ history' = SentHistory(history, o))
    BY <1>9, Zenon DEF OnTxDelayedTimerEvent, TimerEventRuns
  <2>2. "TX_DELAYED" \in LoRaMacState /\ McpsBusy /\ "McpsInd" \notin LoRaMacFlags
    BY <2>1 DEF WakeUpInv, McpsBusy, RestInv, CycleInv
  <2>3. CASE "McpsReq" \notin LoRaMacFlags
    <3>1. SameExchange
      BY <2>1, <2>3, Zenon DEF SameExchange, Exchanging
    <3> QED
      BY <3>1, ServiceStutters, Zenon
  <2>4. CASE "McpsReq" \in LoRaMacFlags
    <3>1. UNCHANGED LoRaMacBuffer /\ history' = SentHistory(history, o)
      BY <2>1, <2>4, Zenon DEF OneServiceInv
    <3>2. /\ UNCHANGED history.acked /\ UNCHANGED history.timedOut
          /\ history'.trials = IF o = "now" /\ history.trials < MAX_ACK_RETRIES + 2
                               THEN history.trials + 1 ELSE history.trials
      BY <1>0, <3>1, SentFields, ZenonT(60)
    <3>3. Exchanging' <=> Exchanging
      BY <2>1, <3>1, Zenon DEF Exchanging
    <3>4. CASE ~Exchanging \/ history'.trials = history.trials
      <4>1. SameExchange
        BY <2>1, <3>2, <3>3, <3>4, Zenon DEF SameExchange
      <4> QED
        BY <4>1, ServiceStutters, Zenon
    <3>5. CASE Exchanging /\ history'.trials = history.trials + 1
      <4>1. NodeAckRequested
        BY <2>2, <3>5, Zenon DEF BufferInv, Exchanging
      <4>2. /\ AckTimeoutRetriesCounter <= AckTimeoutRetries
            /\ AckTimeoutRetriesCounter <= MAX_ACK_RETRIES + 1
            /\ AckTimeoutRetriesCounter = history.trials + 1
        BY <2>2, <4>1, Zenon DEF AckInv, TrialsInv
      <4>3. history.trials < TrialLimit
        BY <1>0, <4>2 DEF TrialLimit
      <4>4. ~history.acked
        BY <2>2, <4>1, Zenon DEF AckedInv
      <4>5. ~history'.acked
        BY <3>2, <4>4, Zenon
      <4> QED
        BY <2>1, <3>2, <3>3, <3>5, <4>3, <4>4, <4>5, ServiceTransmits, ZenonT(60)
    <3> QED
      BY <3>2, <3>4, <3>5, Zenon
  <2> QED
    BY <2>3, <2>4
<1>10. CASE OnMacStateCheckTimerEvent
  <2>1. /\ suspended = "none" /\ UNCHANGED <<LoRaMacBuffer, AckTimeoutRetries>>
        /\ "McpsReq" \in LoRaMacFlags' <=> "McpsReq" \in LoRaMacFlags
        /\ ~("MacDone" \in LoRaMacFlags /\ SendsAgain) => history' \in {history, SentHistory(history, "off")}
    BY <1>10 DEF OnMacStateCheckTimerEvent, TimerEventRuns, serviceVars, exchangeVars, If
  <2>2. Exchanging' <=> Exchanging
    BY <2>1, Zenon DEF Exchanging
  <2>3. "off" # "now"
    OBVIOUS
  <2>4. CASE ~Exchanging \/ history' = history
    <3>1. SameExchange
      BY <2>1, <2>2, <2>4, Zenon DEF SameExchange
    <3> QED
      BY <3>1, ServiceStutters, Zenon
  <2>5. CASE Exchanging /\ history' # history
    <3>1. "MacDone" \in LoRaMacFlags /\ SendsAgain
      BY <2>1, <2>3, <2>5, Zenon DEF SentHistory
    <3>2. PICK o : history' = SentHistory(history, o)
      BY <1>10, <3>1, Zenon DEF OnMacStateCheckTimerEvent
    <3>3. /\ UNCHANGED history.acked /\ UNCHANGED history.timedOut
          /\ history'.trials = history.trials + 1
      BY <1>0, <2>5, <3>2, SentFields, Zenon DEF SentHistory
    <3>4. CheckFacts
      BY <2>1, <3>1, CheckDecisions, Zenon
    <3>5. McpsBusy
      BY <3>4 DEF CheckFacts, McpsBusy
    <3>6. NodeAckRequested /\ RetryNow
      BY <2>5, <3>1, <3>4, <3>5, Zenon DEF BufferInv, Exchanging, CheckFacts, SendsAgain
    <3>7. AckTimeoutRetriesCounter = history.trials
      BY <3>1, <3>4, <3>5, <3>6, Zenon DEF TrialsInv, CheckFacts
    <3>8. history.trials < TrialLimit
      BY <1>0, <3>6, <3>7 DEF RetryNow, MayRetry, TrialLimit
    <3>9. ~history.acked
      BY <3>4, <3>5, <3>6, Zenon DEF AckedInv, CheckFacts
    <3>10. ~history'.acked
      BY <3>3, <3>9, Zenon
    <3> QED
      BY <2>1, <2>2, <2>5, <3>3, <3>8, <3>9, <3>10, ServiceTransmits, Zenon
  <2> QED
    BY <2>4, <2>5, ZenonT(60)
<1>11. CASE OnMacStateCheckTimerEventReport
  <2>1. /\ suspended = "MacStateCheck" /\ UNCHANGED <<LoRaMacBuffer, AckTimeoutRetries, history>>
        /\ LoRaMacState # {} => ("McpsReq" \in LoRaMacFlags' <=> "McpsReq" \in LoRaMacFlags)
        /\ LoRaMacState = {} => "McpsReq" \notin LoRaMacFlags'
    BY <1>11 DEF OnMacStateCheckTimerEventReport, exchangeVars, If
  <2>2. CASE LoRaMacState # {} \/ ~Exchanging
    <3>1. SameExchange
      BY <2>1, <2>2, Zenon DEF SameExchange, Exchanging
    <3> QED
      BY <3>1, ServiceStutters, Zenon
  <2>3. CASE LoRaMacState = {} /\ Exchanging
    <3>1. ~Exchanging'
      BY <2>1, <2>3, Zenon DEF Exchanging
    <3>2. history.acked \/ history.timedOut \/ history.trials = TrialLimit
      BY <2>1, <2>3, Zenon DEF ReportInv
    <3>3. Service!Confirm
      BY <2>3, <3>1, <3>2, Zenon DEF Service!Confirm, Service!NoExchange
    <3> QED
      BY <3>3, Zenon DEF Service!Next
  <2> QED
    BY <2>2, <2>3
<1>12. CASE UNCHANGED vars
  <2>1. SameExchange
    BY <1>12, Zenon DEF SameExchange, Exchanging, vars, serviceVars, exchangeVars
  <2> QED
    BY <2>1, ServiceStutters, Zenon
<1>13. ~MlmeLinkCheckRequestFull
  BY Zenon DEF MlmeLinkCheckRequestFull
<1> QED
  BY <1>1, <1>2, <1>3, <1>4, <1>5, <1>7, <1>8, <1>9, <1>10, <1>11, <1>12, <1>13, ServiceStutters, ZenonT(60)
  DEF Next, Requests, RadioEvents, TimerEvents

(* A data request and a join request are never pending together, when the  *)
(* application does not mix joins with link checks.                        *)
THEOREM OneService ==
    ASSUME ~Preemption, "LINK_CHECK_FULL" \notin MlmeTypes, ~({"JOIN", "LINK_CHECK"} \subseteq MlmeTypes)
    PROVE  Spec => []OneServiceInv
<1>1. Init => OneServiceInv
  BY DEF Init, OneServiceInv
<1>2. Types /\ Types' /\ ExchangeInv /\ HistoryInv /\ OneServiceInv /\ [Next]_vars => OneServiceInv'
  BY OneServiceStep, Zenon DEF StepPre
<1>3. Spec => []Types
  BY TypeCorrect, TypeGroups, PTL
<1> QED
  BY <1>1, <1>2, <1>3, ExchangeSafe, HistorySafe, PTL DEF Spec

(* The confirmed exchange implements MacService for every number of        *)
(* trials: the interleaving of state checks, receive windows, delayed      *)
(* transmissions and timeouts is invisible to the application.             *)
THEOREM Refinement ==
    ASSUME ~Preemption, "LINK_CHECK_FULL" \notin MlmeTypes, ~({"JOIN", "LINK_CHECK"} \subseteq MlmeTypes)
    PROVE  Spec => ImplementsMacService
<1>1. Init => Service!Init
  BY Zenon DEF Init, Service!Init, Service!NoExchange, Exchanging
<1>2. Types /\ Types' /\ ExchangeInv /\ HistoryInv /\ OneServiceInv /\ [Next]_vars =>
        [Service!Next]_(Service!vars)
  BY ServiceStep, Zenon DEF StepPre
<1>3. Spec => []Types
  BY TypeCorrect, TypeGroups, PTL
<1> QED
  BY <1>1, <1>2, <1>3, ExchangeSafe, HistorySafe, OneService, PTL
  DEF Spec, ImplementsMacService, Service!Spec

-----------------------------------------------------------------------------

(* Every step keeps JoinInv: the status of a pending join and              *)
(* IsLoRaMacNetworkJoined change together, in OnRadioRxDone, and nothing   *)
(* overwrites the status before it is reported.                            *)
LEMMA JoinStep ==
    ASSUME ~Preemption, ~({"JOIN", "LINK_CHECK"} \subseteq MlmeTypes), "LINK_CHECK_FULL" \notin MlmeTypes,
           "NETWORK_JOINED" \notin MibTypes, StepPre, OneServiceInv, JoinInv, [Next]_vars
    PROVE  JoinInv'
<1> USE StepFacts DEF JoinInv, JoinPending
<1>1. ASSUME NEW type \in McpsTypes, NEW n, McpsRequest(type, n)
      PROVE  JoinInv'
  <2>1. ~McpsBusy /\ suspended = "none"
    BY <1>1, Zenon DEF McpsRequest, MainLoopRuns
  <2>2. ~JoinPending
    BY <2>1 DEF BufferInv
  <2>3. PICK o \in ScheduleTx :
          /\ LoRaMacFlags' = LoRaMacFlags \cup If(o # "off", {"McpsReq"})
          /\ MlmeConfirm' = SentConfirm(MlmeConfirm, o)
    BY <1>1, Zenon DEF McpsRequest
  <2>4. MlmeConfirm'.MlmeRequest = MlmeConfirm.MlmeRequest
    BY <2>3, Zenon DEF SentConfirm, StepPre, Types, ConfirmTypes
  <2> QED
    BY <2>2, <2>3, <2>4 DEF If
<1>2. ASSUME NEW type \in McpsTypes, NEW n, McpsRequestRefused(type, n)
      PROVE  JoinInv'
  BY <1>2, Zenon DEF McpsRequestRefused, sessionVars
<1>3. CASE MlmeJoinRequest
  <2>1. /\ "MacDone" \notin LoRaMacFlags /\ MlmeConfirm'.Status = "ERROR"
        /\ LoRaMacBuffer'.type = "JOIN_REQ" /\ ~NodeAckRequested' /\ ~IsLoRaMacNetworkJoined'
    BY <1>3 DEF MlmeJoinRequest, MainLoopRuns, RestInv, ResetMacParameters
  <2> QED
    BY <2>1
<1>4. CASE MlmeJoinRequestBusy
  <2>1. /\ "TX_DELAYED" \in LoRaMacState /\ suspended = "none" /\ LoRaMacFlags' = LoRaMacFlags
        /\ MlmeConfirm'.Status = "ERROR"
        /\ UNCHANGED <<LoRaMacBuffer, NodeAckRequested, IsLoRaMacNetworkJoined>>
    BY <1>4, ZenonT(60) DEF MlmeJoinRequestBusy, MainLoopRuns, JoinBusy, exchangeVars, sessionVars
  <2>2. "MlmeReq" \in LoRaMacFlags /\ "JOIN" \in MlmeTypes => JoinPending
    BY ZenonT(60) DEF OneServiceInv
  <2>3. "MacDone" \notin LoRaMacFlags /\ "JOIN" \in MlmeTypes
    BY <2>1, <1>4, ZenonT(60) DEF RestInv, MlmeJoinRequestBusy
  <2> QED
    BY <2>1, <2>2, <2>3
<1>5. CASE MlmeLinkCheckRequest
  BY <1>5, ZenonT(60) DEF MlmeLinkCheckRequest
<1>6. CASE MlmeLinkCheckRequestFull
  BY <1>6 DEF MlmeLinkCheckRequestFull
<1>7. CASE MibSetNetworkJoined \/ MibSetChannelsNbRep
  BY <1>7, Zenon DEF MibSetNetworkJoined, MibSetChannelsNbRep, serviceVars, exchangeVars
<1>8. CASE OnRadioTxDone \/ OnRadioTxTimeout
  <2>1. /\ MlmeConfirm'.MlmeRequest = MlmeConfirm.MlmeRequest
        /\ MlmeConfirm'.Status \in {MlmeConfirm.Status, "TX_TIMEOUT"}
        /\ UNCHANGED <<LoRaMacBuffer, NodeAckRequested, IsLoRaMacNetworkJoined>>
        /\ radio = "tx"
    BY <1>8, ZenonT(60) DEF OnRadioTxDone, OnRadioTxTimeout, exchangeVars, sessionVars, StepPre, Types,
       ConfirmTypes
  <2>2. LoRaMacFlags' = LoRaMacFlags \/ LoRaMacFlags' = LoRaMacFlags \cup {"MacDone"}
    BY <1>8, Zenon DEF OnRadioTxDone, OnRadioTxTimeout
  <2>3. "MacDone" \notin LoRaMacFlags
    BY <2>1 DEF CycleInv
  <2> QED
    BY <2>1, <2>2, <2>3
<1>9. CASE OnRadioRxError \/ OnRadioRxTimeout
  <2>1. PICK status \in {"RX2_ERROR", "RX2_TIMEOUT"} : OnRadioRxFailure(status)
    BY <1>9, Zenon DEF OnRadioRxError, OnRadioRxTimeout
  <2>2. /\ MlmeConfirm'.MlmeRequest = MlmeConfirm.MlmeRequest
        /\ MlmeConfirm'.Status \in {MlmeConfirm.Status, status}
        /\ UNCHANGED <<LoRaMacBuffer, NodeAckRequested, IsLoRaMacNetworkJoined>>
        /\ radio = "rx"
    BY <2>1, Zenon DEF OnRadioRxFailure, exchangeVars, sessionVars, StepPre, Types, ConfirmTypes
  <2>3. LoRaMacFlags' = LoRaMacFlags \cup If(RxSlot = 1, {"MacDone"})
    BY <2>1, ZenonT(60) DEF OnRadioRxFailure
  <2>4. "MacDone" \notin LoRaMacFlags
    BY <2>2 DEF CycleInv
  <2> QED
    BY <2>2, <2>3, <2>4 DEF If
<1>10. ASSUME NEW d \in Downlinks, NEW cnt, OnRadioRxDone(d, cnt)
       PROVE  JoinInv'
  <2>1. /\ MlmeConfirm'.MlmeRequest = MlmeConfirm.MlmeRequest
        /\ MlmeConfirm'.Status =
             IF JoinAccepted(d) \/ ProcessedCommand(d, cnt) = "LINK_CHECK_ANS" THEN "OK"
             ELSE IF d.mtype = "JOIN_ACCEPT" /\ ~IsLoRaMacNetworkJoined
                  THEN "JOIN_FAIL" ELSE MlmeConfirm.Status
    BY <1>10, Zenon DEF OnRadioRxDone, StepPre, Types, ConfirmTypes
  <2>2. /\ UNCHANGED <<LoRaMacBuffer, NodeAckRequested>>
        /\ IsLoRaMacNetworkJoined' = (IsLoRaMacNetworkJoined \/ JoinAccepted(d))
        /\ LoRaMacFlags' = LoRaMacFlags \cup {"MacDone"} \cup If(IndicatedDown(d, cnt), {"McpsInd"})
        /\ radio = "rx" /\ NetworkSends(d) /\ suspended = "none"
    BY <1>10, ZenonT(60) DEF OnRadioRxDone, RadioEventRuns
  <2>3. "MacDone" \notin LoRaMacFlags /\ "McpsInd" \notin LoRaMacFlags
    BY <2>2, ZenonT(60) DEF CycleInv
  <2>4. SUFFICES ASSUME JoinPending PROVE JoinInv'
    BY <2>1, <2>2, ZenonT(60) DEF If
  <2>5. ~IsLoRaMacNetworkJoined /\ MlmeConfirm.Status # "OK"
    BY <2>3, <2>4
  <2>6. ~AcceptedDown(d, cnt) /\ ProcessedCommand(d, cnt) = "none"
    BY <2>2, <2>5, ZenonT(60) DEF NetworkSends, AcceptedDown, ValidDown, ProcessedCommand
  <2>7. JoinAccepted(d) => ~IndicatedDown(d, cnt)
    BY <2>6 DEF JoinAccepted, IndicatedDown, AbortedDown, IsDataDown
  <2>8. MlmeConfirm'.Status = "OK" <=> JoinAccepted(d)
    BY <2>1, <2>5, <2>6
  <2> QED
    BY <2>1, <2>2, <2>3, <2>4, <2>5, <2>7, <2>8, ZenonT(60) DEF If
<1>11. CASE OnRxWindow1TimerEvent \/ OnRxWindow2TimerEvent \/ OnRxWindow2TimerEventSetup
            \/ OnAckTimeoutTimerEvent
  BY <1>11, ZenonT(60) DEF OnRxWindow1TimerEvent, OnRxWindow2TimerEvent, OnRxWindow2TimerEventSetup,
     OnAckTimeoutTimerEvent, serviceVars, exchangeVars, sessionVars
<1>12. ASSUME NEW o \in {"now", "later", "off"}, OnTxDelayedTimerEvent(o)
       PROVE  JoinInv'
  <2>1. /\ MlmeConfirm'.MlmeRequest = MlmeConfirm.MlmeRequest
        /\ MlmeConfirm'.Status = MlmeConfirm.Status \/ MlmeConfirm'.Status = "ERROR"
    BY <1>12, ZenonT(60) DEF OnTxDelayedTimerEvent, SentConfirm, StepPre, Types, ConfirmTypes
  <2>2. /\ UNCHANGED <<LoRaMacFlags, IsLoRaMacNetworkJoined>>
        /\ JoinPending => LoRaMacBuffer'.type = "JOIN_REQ" /\ ~NodeAckRequested'
        /\ suspended = "none" /\ "TxDelayed" \in timers
    BY <1>12 DEF OnTxDelayedTimerEvent, sessionVars, TimerEventRuns
  <2>3. "MacDone" \notin LoRaMacFlags
    BY <2>2 DEF WakeUpInv, RestInv
  <2> QED
    BY <2>1, <2>2, <2>3
<1>13. CASE OnMacStateCheckTimerEvent /\ "MacDone" \notin LoRaMacFlags
  BY <1>13, ZenonT(60) DEF OnMacStateCheckTimerEvent, serviceVars, exchangeVars, sessionVars
<1>14. CASE OnMacStateCheckTimerEvent /\ "MacDone" \in LoRaMacFlags
  <2>1. CheckFacts
    BY <1>14, CheckDecisions, Zenon DEF OnMacStateCheckTimerEvent, TimerEventRuns
  <2>2. PICK o \in IF SendsAgain THEN ScheduleTx ELSE {"off"} : MlmeConfirm' = SentConfirm(MlmeConfirm, o)
    BY <1>14, Zenon DEF OnMacStateCheckTimerEvent
  <2>3. /\ LoRaMacFlags' = LoRaMacFlags \ If(SendsAgain, {"MacDone"})
        /\ UNCHANGED <<LoRaMacBuffer, IsLoRaMacNetworkJoined>>
        /\ NodeAckRequested' => NodeAckRequested
    BY <1>14, Zenon DEF OnMacStateCheckTimerEvent
  <2>4. /\ MlmeConfirm'.MlmeRequest = MlmeConfirm.MlmeRequest
        /\ MlmeConfirm'.Status = IF o = "now" THEN "ERROR" ELSE MlmeConfirm.Status
    BY <2>2, Zenon DEF SentConfirm, StepPre, Types, ConfirmTypes
  <2>5. ~SendsAgain => o = "off"
    BY <2>2
  <2>6. JoinPending /\ MlmeConfirm.Status = "OK" => ~SendsAgain
    BY <2>1, Zenon DEF CheckFacts, SendsAgain, RetryNow, RetryDue, UnconfirmedRepeats, UnconfirmedDone,
       RepetitionsDone
  <2> QED
    BY <2>3, <2>4, <2>5, <2>6 DEF If
<1>15. CASE OnMacStateCheckTimerEventReport
  <2>1. /\ LoRaMacFlags' = (LoRaMacFlags \ If(LoRaMacState = {}, {"McpsReq", "MlmeReq", "MacDone"}))
                       \ {"McpsInd"}
        /\ UNCHANGED <<MlmeConfirm, LoRaMacBuffer, NodeAckRequested, IsLoRaMacNetworkJoined>>
    BY <1>15, Zenon DEF OnMacStateCheckTimerEventReport, exchangeVars, sessionVars
  <2> QED
    BY <2>1 DEF If
<1>16. CASE UNCHANGED vars
  BY <1>16, Zenon DEF vars, serviceVars, exchangeVars, sessionVars
<1> QED
  BY <1>1, <1>2, <1>3, <1>4, <1>5, <1>6, <1>7, <1>8, <1>9, <1>10, <1>11, <1>12, <1>13, <1>14, <1>15, <1>16,
     ZenonT(60) DEF Next, Requests, RadioEvents, TimerEvents

(* Every step keeps AiredInv. *)
LEMMA AiredStep ==
    ASSUME ~Preemption, StepPre, AiredInv, [Next]_vars
    PROVE  AiredInv'
<1> USE StepFacts DEF AiredInv
<1>1. ASSUME NEW type \in McpsTypes, NEW n, McpsRequest(type, n)
      PROVE  AiredInv'
  <2>1. PICK o \in ScheduleTx :
          /\ LoRaMacState' = ScheduledState(LoRaMacState, o)
          /\ McpsConfirm' = [ClearedMcpsConfirm EXCEPT !.UpLinkCounter = UpLinkCounter]
          /\ radio' = ScheduledRadio(o)
    BY <1>1, Zenon DEF McpsRequest
  <2>2. McpsConfirm'.Status = "ERROR" /\ "TX_RUNNING" \notin LoRaMacState
    BY <1>1, <2>1 DEF McpsRequest, McpsBusy, ClearedMcpsConfirm
  <2> QED
    BY <2>1, <2>2 DEF ScheduledState, ScheduledRadio, If
<1>2. ASSUME NEW type \in McpsTypes, NEW n, McpsRequestRefused(type, n)
      PROVE  AiredInv'
  <2>1. McpsConfirm'.Status = "ERROR" /\ "TX_RUNNING" \notin LoRaMacState'
    BY <1>2 DEF McpsRequestRefused, McpsBusy, ClearedMcpsConfirm
  <2> QED
    BY <2>1
<1>3. CASE MlmeJoinRequest
  <2>1. PICK o \in {"now", "later"} :
          /\ LoRaMacState' = ScheduledState(LoRaMacState, o)
          /\ McpsConfirm' = SentConfirm([McpsConfirm EXCEPT !.NbRetries = 0, !.AckReceived = FALSE,
                                                            !.UpLinkCounter = 1], o)
          /\ radio' = ScheduledRadio(o)
    BY <1>3, Zenon DEF MlmeJoinRequest
  <2>2. McpsConfirm'.Status = IF o = "now" THEN "ERROR" ELSE McpsConfirm.Status
    BY <2>1, Zenon DEF SentConfirm, StepPre, Types, ConfirmTypes
  <2>3. "TX_RUNNING" \notin LoRaMacState /\ LoRaMacFlags' = LoRaMacFlags \cup {"MlmeReq"}
    BY <1>3, Zenon DEF MlmeJoinRequest
  <2> QED
    BY <2>1, <2>2, <2>3 DEF ScheduledState, ScheduledRadio, If
<1>4. CASE MlmeJoinRequestBusy
  BY <1>4, Zenon DEF MlmeJoinRequestBusy, hardwareVars
<1>5. CASE MlmeLinkCheckRequest
  BY <1>5 DEF MlmeLinkCheckRequest, hardwareVars
<1>6. CASE MlmeLinkCheckRequestFull
  BY <1>6 DEF MlmeLinkCheckRequestFull, hardwareVars
<1>7. CASE MibSetNetworkJoined \/ MibSetChannelsNbRep
  BY <1>7, Zenon DEF MibSetNetworkJoined, MibSetChannelsNbRep, serviceVars, hardwareVars
<1>8. CASE OnRadioTxDone
  <2>1. history'.aired /\ radio = "tx" /\ LoRaMacFlags' = LoRaMacFlags
    BY <1>8, Zenon DEF OnRadioTxDone, StepPre, Types, FrameHistoryTypes, History
  <2>2. McpsConfirm'.Status \in {McpsConfirm.Status, "OK"}
    BY <1>8, Zenon DEF OnRadioTxDone, StepPre, Types, ConfirmTypes
  <2> QED
    BY <2>1, <2>2
<1>9. CASE OnRadioTxTimeout
  <2>1. /\ McpsConfirm'.Status = "TX_TIMEOUT" /\ radio = "tx" /\ suspended = "none"
        /\ LoRaMacFlags' = LoRaMacFlags \cup {"MacDone"}
    BY <1>9, Zenon DEF OnRadioTxTimeout, RadioEventRuns, StepPre, Types, ConfirmTypes
  <2>2. "McpsInd" \notin LoRaMacFlags
    BY <2>1 DEF CycleInv
  <2> QED
    BY <2>1, <2>2
<1>10. CASE OnRadioRxError \/ OnRadioRxTimeout
  <2>1. PICK status \in {"RX2_ERROR", "RX2_TIMEOUT"} : OnRadioRxFailure(status)
    BY <1>10, Zenon DEF OnRadioRxError, OnRadioRxTimeout
  <2>2. /\ McpsConfirm'.Status \in {McpsConfirm.Status, status}
        /\ UNCHANGED <<LoRaMacState, history>>
        /\ radio = "rx" /\ LoRaMacFlags' = LoRaMacFlags \cup If(RxSlot = 1, {"MacDone"})
    BY <2>1, Zenon DEF OnRadioRxFailure, StepPre, Types, ConfirmTypes
  <2>3. McpsConfirm.Status # "TX_TIMEOUT"
    BY <2>2, ZenonT(60) DEF RestInv, Quiet
  <2> QED
    BY <2>2, <2>3 DEF If
<1>11. ASSUME NEW d \in Downlinks, NEW cnt, OnRadioRxDone(d, cnt)
       PROVE  AiredInv'
  <2>1. /\ McpsConfirm'.Status \in {McpsConfirm.Status, "OK"} /\ history'.aired = history.aired
        /\ radio = "rx" /\ LoRaMacState' = LoRaMacState \cup If(AbortedDown(d, cnt), {"RX_ABORT"})
    BY <1>11, ZenonT(60) DEF OnRadioRxDone, StepPre, Types, ConfirmTypes, FrameHistoryTypes, History
  <2>2. McpsConfirm.Status # "TX_TIMEOUT"
    BY <2>1 DEF RestInv, Quiet
  <2> QED
    BY <2>1, <2>2 DEF If
<1>12. CASE OnRxWindow1TimerEvent \/ OnRxWindow2TimerEvent \/ OnRxWindow2TimerEventSetup
            \/ OnAckTimeoutTimerEvent
  <2>1. UNCHANGED <<LoRaMacState, LoRaMacFlags, McpsConfirm, history>> /\ (radio = "tx" => radio' = "tx")
    BY <1>12, ZenonT(60) DEF OnRxWindow1TimerEvent, OnRxWindow2TimerEvent, OnRxWindow2TimerEventSetup,
       OnAckTimeoutTimerEvent, serviceVars, RxWindowSetup
  <2> QED
    BY <2>1, Zenon
<1>13. ASSUME NEW o \in {"now", "later", "off"}, OnTxDelayedTimerEvent(o)
       PROVE  AiredInv'
  <2>1. /\ McpsConfirm' = SentConfirm(McpsConfirm, o) /\ LoRaMacFlags' = LoRaMacFlags
        /\ LoRaMacState' = ScheduledState(LoRaMacState \ {"TX_DELAYED"}, o)
        /\ radio' = ScheduledRadio(o) /\ o \in ScheduleTx /\ "TxDelayed" \in timers
    BY <1>13, Zenon DEF OnTxDelayedTimerEvent
  <2>2. McpsConfirm'.Status = IF o = "now" THEN "ERROR" ELSE McpsConfirm.Status
    BY <2>1, Zenon DEF SentConfirm, StepPre, Types, ConfirmTypes
  <2>3. o # "off"
    BY <2>1 DEF WakeUpInv, RestInv, ScheduleTx
  <2> QED
    BY <2>1, <2>2, <2>3 DEF ScheduledState, ScheduledRadio, If
<1>14. CASE OnMacStateCheckTimerEvent /\ "MacDone" \notin LoRaMacFlags
  BY <1>14, ZenonT(60) DEF OnMacStateCheckTimerEvent, serviceVars
<1>15. CASE OnMacStateCheckTimerEvent /\ "MacDone" \in LoRaMacFlags
  <2>1. CheckFacts
    BY <1>15, CheckDecisions, Zenon DEF OnMacStateCheckTimerEvent, TimerEventRuns
  <2>2. PICK o \in IF SendsAgain THEN ScheduleTx ELSE {"off"} :
          /\ LoRaMacState' = ScheduledState(LoRaMacState \ ClearedState, o)
          /\ McpsConfirm' = SentConfirm(CheckedConfirm, o)
          /\ radio' = ScheduledRadio(o)
          /\ history' = SentHistory(history, o)
    BY <1>15, Zenon DEF OnMacStateCheckTimerEvent
  <2>3. McpsConfirm'.Status = IF o = "now" THEN "ERROR" ELSE McpsConfirm.Status
    BY <2>2, Zenon DEF SentConfirm, CheckedConfirm, StepPre, Types, ConfirmTypes
  <2>4. history'.aired = history.aired
    BY <2>2, SentFields, ZenonT(60) DEF StepPre, Types, FrameHistoryTypes
  <2>5. LoRaMacFlags' \subseteq LoRaMacFlags
    BY <1>15, ZenonT(60) DEF OnMacStateCheckTimerEvent
  <2> QED
    BY <2>1, <2>2, <2>3, <2>4, <2>5, ZenonT(60) DEF CheckFacts, ScheduledState, ScheduledRadio, If
<1>16. CASE OnMacStateCheckTimerEventReport
  BY <1>16 DEF OnMacStateCheckTimerEventReport
<1>17. CASE UNCHANGED vars
  BY <1>17, Zenon DEF vars, serviceVars, hardwareVars
<1> QED
  BY <1>1, <1>2, <1>3, <1>4, <1>5, <1>6, <1>7, <1>8, <1>9, <1>10, <1>11, <1>12, <1>13, <1>14, <1>15, <1>16,
     <1>17, ZenonT(60) DEF Next, Requests, RadioEvents, TimerEvents

(* What SessionInv speaks of has not changed. *)
SameSession ==
    /\ UNCHANGED <<LoRaMacState, IsLoRaMacNetworkJoined, UpLinkCounter, LoRaMacBuffer>>
    /\ UNCHANGED history.aired /\ UNCHANGED history.used
    /\ JoinPending' <=> JoinPending

(* A step that changes no counter, frame or join keeps SessionInv. *)
LEMMA SessionKept == ASSUME SessionInv, SameSession PROVE SessionInv'
BY Zenon DEF SessionInv, SameSession, LastAired, McpsBusy, IsData

(* A state check counts the uplink counter up only for a data frame that   *)
(* was on air, and restarts it for a join that succeeded.                  *)
LEMMA SessionCheckDone ==
    ASSUME StepPre, JoinInv, AiredInv, SessionInv, OnMacStateCheckTimerEvent, "MacDone" \in LoRaMacFlags
    PROVE  SessionInv'
<1> USE StepFacts
<1>1. PICK o \in IF SendsAgain THEN ScheduleTx ELSE {"off"} :
        /\ LoRaMacState' = ScheduledState(LoRaMacState \ ClearedState, o)
        /\ MlmeConfirm' = SentConfirm(MlmeConfirm, o)
        /\ history' = SentHistory(history, o)
  BY Zenon DEF OnMacStateCheckTimerEvent
<1>2. /\ suspended = "none" /\ UpLinkCounter' = CountedUpLink
      /\ LoRaMacFlags' = LoRaMacFlags \ If(SendsAgain, {"MacDone"})
      /\ UNCHANGED <<LoRaMacBuffer, IsLoRaMacNetworkJoined>>
  BY Zenon DEF OnMacStateCheckTimerEvent, TimerEventRuns
<1>3. CheckFacts
  BY <1>2, CheckDecisions, ZenonT(60)
<1>4. McpsBusy
  BY <1>3 DEF CheckFacts, McpsBusy
<1>5. UNCHANGED history.aired /\ UNCHANGED history.used /\ UNCHANGED MlmeConfirm.MlmeRequest
  BY <1>1, SentFields, ZenonT(60) DEF SentConfirm, StepPre, Types, FrameHistoryTypes, ConfirmTypes
<1>6. JoinPending' <=> JoinPending
  BY <1>2, <1>5 DEF JoinPending, If
<1>7. LastAired' = LastAired
  BY <1>2, <1>5, ZenonT(60) DEF LastAired, IsData
<1>8. McpsBusy' => ~TxTimedOut /\ ~UnconfirmedDone /\ ~AckEndsExchange /\ ~RetryGivesUp
  <2>1. TxTimedOut \/ UnconfirmedDone \/ AckEndsExchange \/ RetryGivesUp => ~SendsAgain
    BY <1>3, Zenon DEF CheckFacts, SendsAgain
  <2>2. TxTimedOut \/ UnconfirmedDone \/ AckEndsExchange \/ RetryGivesUp => "TX_RUNNING" \in ClearedState
    BY ZenonT(60) DEF ClearedState, If
  <2> QED
    BY <1>1, <1>3, <2>1, <2>2 DEF CheckFacts, McpsBusy, ScheduledState, If
<1>9. UpLinkCounter \in Nat /\ LoRaMacBuffer.cnt \in Nat /\ UpLinkCounter > 0
  BY Fields DEF StepPre, SetTypes, CounterInv
<1>10. CASE JoinPending
  <2>1. UpLinkCounter = 1 /\ ~NodeAckRequested
    BY <1>4, <1>10, Zenon DEF SessionInv, JoinInv
  <2>2. MlmeConfirm.Status = "OK" => ~AckEndsExchange /\ IsLoRaMacNetworkJoined
    BY <1>10, Zenon DEF JoinInv, AckEndsExchange
  <2>3. ~RetryGivesUp
    BY <1>3, <2>1, Zenon DEF CheckFacts
  <2>4. UnconfirmedChecked /\ MlmeConfirm.Status = "OK" => UnconfirmedDone
    BY <1>10, Zenon DEF UnconfirmedDone, RepetitionsDone
  <2>5. UnconfirmedChecked <=> ~TxTimedOut
    BY <1>10, <2>1 DEF UnconfirmedChecked, JoinPending, RequestPending
  <2>6. UnconfirmedDone => UnconfirmedChecked
    BY Zenon DEF UnconfirmedDone
  <2>7. MlmeConfirm.Status = "OK" => CountedUpLink = 1
    BY <1>10, <2>1, <2>2, <2>3, <2>4, <2>5, <2>6, SMTT(60) DEF CountedUpLink
  <2>8. McpsBusy' => CountedUpLink = 1
    BY <1>8, <2>1, <2>4, <2>5 DEF CountedUpLink
  <2>9. MlmeConfirm.Status = "OK" <=> IsLoRaMacNetworkJoined
    BY <1>10, Zenon DEF JoinInv
  <2> QED
    BY <1>2, <1>6, <1>10, <2>7, <2>8, <2>9, Zenon DEF SessionInv
<1>11. CASE ~JoinPending
  <2>1. IsLoRaMacNetworkJoined /\ IsData(LoRaMacBuffer)
    BY <1>4, <1>11, ZenonT(60) DEF SessionInv
  <2>2. LoRaMacBuffer.cnt = UpLinkCounter /\ RequestPending
    BY <1>4, <2>1, ZenonT(60) DEF CounterInv, BufferInv, IsData, RequestPending
  <2>3. history.aired \/ McpsConfirm.Status = "TX_TIMEOUT"
    BY <1>3 DEF AiredInv, CheckFacts
  <2>4. UnconfirmedDone \/ AckEndsExchange \/ RetryGivesUp => history.aired
    BY <1>3, <2>2, <2>3, ZenonT(60) DEF UnconfirmedDone, UnconfirmedChecked, AckEndsExchange, TxTimedOut,
       CheckFacts, AiredInv
  <2>5. history.aired => LastAired # 0
    BY <1>9, <2>1, <2>2, SMTT(60) DEF LastAired
  <2>6. ~UnconfirmedDone /\ ~AckEndsExchange /\ ~RetryGivesUp => CountedUpLink = UpLinkCounter
    BY <1>9, <1>11 DEF CountedUpLink
  <2>7. LastAired = 0 => CountedUpLink = UpLinkCounter
    BY <2>4, <2>5, <2>6, Zenon
  <2>8. IsData(LoRaMacBuffer)'
    BY <1>2, <2>1, Zenon DEF IsData
  <2> QED
    BY <1>2, <1>4, <1>5, <1>6, <1>7, <1>8, <1>11, <2>1, <2>6, <2>7, <2>8, ZenonT(60) DEF SessionInv
<1> QED
  BY <1>10, <1>11

(* Every step keeps SessionInv. *)
LEMMA SessionStep ==
    ASSUME ~Preemption, ~({"JOIN", "LINK_CHECK"} \subseteq MlmeTypes), "LINK_CHECK_FULL" \notin MlmeTypes,
           "NETWORK_JOINED" \notin MibTypes, "PROPRIETARY" \notin McpsTypes,
           StepPre, OneServiceInv, JoinInv, AiredInv, SessionInv, [Next]_vars
    PROVE  SessionInv'
<1> USE StepFacts
<1>1. ASSUME NEW type \in McpsTypes, NEW n, McpsRequest(type, n)
      PROVE  SessionInv'
  <2>1. /\ ~McpsBusy /\ suspended = "none" /\ type # "PROPRIETARY" /\ IsLoRaMacNetworkJoined
        /\ LoRaMacBuffer'.type = type /\ UNCHANGED <<IsLoRaMacNetworkJoined, UpLinkCounter>>
    BY <1>1, ZenonT(60) DEF McpsRequest, MainLoopRuns, PreparedFrame
  <2>2. ~JoinPending
    BY <2>1 DEF BufferInv
  <2>3. PICK o \in ScheduleTx :
          /\ LoRaMacFlags' = LoRaMacFlags \cup If(o # "off", {"McpsReq"})
          /\ MlmeConfirm' = SentConfirm(MlmeConfirm, o)
          /\ history' = SentHistory(PreparedHistory, o)
    BY <1>1, Zenon DEF McpsRequest
  <2>4. MlmeConfirm'.MlmeRequest = MlmeConfirm.MlmeRequest
    BY <2>3, ZenonT(60) DEF SentConfirm, StepPre, Types, ConfirmTypes
  <2>5. ~JoinPending'
    BY <2>2, <2>3, <2>4 DEF JoinPending, If
  <2>6. PreparedHistory \in History /\ ~PreparedHistory.aired /\ PreparedHistory.used = LastAired
    BY PreparedHistoryType, ZenonT(60) DEF StepPre, Types, PreparedHistory, NewHistory
  <2>7. ~history'.aired /\ history'.used = LastAired
    <3> HIDE DEF PreparedHistory
    <3>1. /\ SentHistory(PreparedHistory, o).used = PreparedHistory.used
          /\ SentHistory(PreparedHistory, o).aired = PreparedHistory.aired
      BY <2>6, SentFields, ZenonT(60)
    <3> QED
      BY <2>3, <2>6, <3>1, ZenonT(60)
  <2>8. LastAired' = LastAired
    BY <2>7, Zenon DEF LastAired
  <2>9. IsData(LoRaMacBuffer)'
    <3>1. type \in {"CONFIRMED_UP", "UNCONFIRMED_UP"}
      BY <2>1, ConstantsAssumption
    <3> QED
      BY <2>1, <3>1, ZenonT(60) DEF IsData
  <2> QED
    BY <2>1, <2>5, <2>7, <2>8, <2>9, ZenonT(60) DEF SessionInv
<1>2. ASSUME NEW type \in McpsTypes, NEW n, McpsRequestRefused(type, n)
      PROVE  SessionInv'
  BY <1>2, SessionKept, Zenon DEF McpsRequestRefused, sessionVars, SameSession, JoinPending
<1>3. CASE MlmeJoinRequest
  <2>1. /\ UpLinkCounter' = 1 /\ ~IsLoRaMacNetworkJoined' /\ MlmeConfirm'.MlmeRequest = "JOIN"
        /\ LoRaMacFlags' = LoRaMacFlags \cup {"MlmeReq"}
    BY <1>3, Zenon DEF MlmeJoinRequest, ResetMacParameters
  <2>2. JoinPending'
    BY <2>1 DEF JoinPending
  <2> QED
    BY <2>1, <2>2, Zenon DEF SessionInv
<1>4. CASE MlmeJoinRequestBusy
  <2>1. "MlmeReq" \in LoRaMacFlags => JoinPending
    BY <1>4 DEF MlmeJoinRequestBusy, OneServiceInv, JoinPending
  <2>2. MlmeConfirm'.MlmeRequest = "JOIN" /\ LoRaMacFlags' = LoRaMacFlags
    BY <1>4, Zenon DEF MlmeJoinRequestBusy
  <2> QED
    BY <1>4, <2>1, <2>2, SessionKept, ZenonT(60)
    DEF MlmeJoinRequestBusy, exchangeVars, sessionVars, SameSession, JoinPending
<1>5. CASE MlmeLinkCheckRequest
  <2>1. ~JoinPending
    BY <1>5, ZenonT(60) DEF MlmeLinkCheckRequest, OneServiceInv, JoinPending
  <2>2. ~JoinPending'
    BY <1>5 DEF MlmeLinkCheckRequest, JoinPending
  <2> QED
    BY <1>5, <2>1, <2>2, SessionKept, ZenonT(60)
    DEF MlmeLinkCheckRequest, exchangeVars, sessionVars, SameSession
<1>6. CASE MlmeLinkCheckRequestFull
  BY <1>6, Zenon DEF MlmeLinkCheckRequestFull
<1>7. CASE MibSetNetworkJoined \/ MibSetChannelsNbRep
  BY <1>7, SessionKept, Zenon
  DEF MibSetNetworkJoined, MibSetChannelsNbRep, serviceVars, exchangeVars, SameSession, JoinPending
<1>8. CASE OnRadioTxDone
  <2>1. /\ history'.used = history.used /\ history'.aired /\ radio = "tx"
        /\ UNCHANGED <<LoRaMacState, LoRaMacFlags, MlmeConfirm, LoRaMacBuffer,
                       IsLoRaMacNetworkJoined, UpLinkCounter>>
    BY <1>8, Zenon DEF OnRadioTxDone, sessionVars, StepPre, Types, FrameHistoryTypes, History
  <2>2. (JoinPending' <=> JoinPending) /\ (McpsBusy' <=> McpsBusy)
    BY <2>1, ZenonT(60) DEF JoinPending, McpsBusy
  <2>3. McpsBusy
    BY <2>1 DEF RestInv, Quiet, McpsBusy
  <2>4. IsData(LoRaMacBuffer) => LoRaMacBuffer.cnt # 0
    <3>1. McpsBusy /\ IsData(LoRaMacBuffer) => LoRaMacBuffer.cnt = UpLinkCounter
      BY ZenonT(60) DEF CounterInv
    <3>2. UpLinkCounter # 0
      BY DEF CounterInv, SetTypes
    <3> QED
      BY <2>3, <3>1, <3>2, Zenon
  <2>5. LastAired' = 0 => LastAired = 0
    BY <2>1, <2>4, Zenon DEF LastAired, IsData
  <2>6. IsData(LoRaMacBuffer)' <=> IsData(LoRaMacBuffer)
    BY <2>1, Zenon DEF IsData
  <2> QED
    BY <2>1, <2>2, <2>5, <2>6, Zenon DEF SessionInv
<1>9. CASE OnRadioTxTimeout
  <2>1. /\ UNCHANGED history.aired /\ UNCHANGED history.used /\ UNCHANGED MlmeConfirm.MlmeRequest
        /\ UNCHANGED <<LoRaMacState, LoRaMacBuffer, IsLoRaMacNetworkJoined, UpLinkCounter>>
    BY <1>9, Zenon DEF OnRadioTxTimeout, exchangeVars, sessionVars, StepPre, Types, ConfirmTypes,
       FrameHistoryTypes, History
  <2>2. "MlmeReq" \in LoRaMacFlags' <=> "MlmeReq" \in LoRaMacFlags
    BY <1>9 DEF OnRadioTxTimeout
  <2> QED
    BY <2>1, <2>2, SessionKept, Zenon DEF SameSession, JoinPending
<1>10. CASE OnRadioRxError \/ OnRadioRxTimeout
  <2>1. PICK status : OnRadioRxFailure(status)
    BY <1>10, Zenon DEF OnRadioRxError, OnRadioRxTimeout
  <2>2. /\ UNCHANGED MlmeConfirm.MlmeRequest
        /\ UNCHANGED <<LoRaMacState, LoRaMacBuffer, IsLoRaMacNetworkJoined, UpLinkCounter, history>>
    BY <2>1, Zenon DEF OnRadioRxFailure, exchangeVars, sessionVars, StepPre, Types, ConfirmTypes
  <2>3. "MlmeReq" \in LoRaMacFlags' <=> "MlmeReq" \in LoRaMacFlags
    BY <2>1 DEF OnRadioRxFailure, If
  <2> QED
    BY <2>2, <2>3, SessionKept, Zenon DEF SameSession, JoinPending
<1>11. ASSUME NEW d \in Downlinks, NEW cnt, OnRadioRxDone(d, cnt)
       PROVE  SessionInv'
  <2>1. /\ UNCHANGED history.aired /\ UNCHANGED history.used /\ UNCHANGED MlmeConfirm.MlmeRequest
        /\ UNCHANGED <<LoRaMacBuffer, UpLinkCounter>>
        /\ IsLoRaMacNetworkJoined' <=> IsLoRaMacNetworkJoined \/ JoinAccepted(d)
        /\ radio = "rx"
    BY <1>11, ZenonT(60) DEF OnRadioRxDone, StepPre, Types, ConfirmTypes, FrameHistoryTypes, History
  <2>2. "MlmeReq" \in LoRaMacFlags' <=> "MlmeReq" \in LoRaMacFlags
    BY <1>11 DEF OnRadioRxDone, If
  <2>3. McpsBusy' <=> McpsBusy
    BY <1>11 DEF OnRadioRxDone, If, McpsBusy
  <2>4. McpsBusy
    BY <2>1 DEF RestInv, Quiet, McpsBusy
  <2>5. /\ JoinPending' <=> JoinPending
        /\ LastAired' = LastAired
        /\ IsData(LoRaMacBuffer)' <=> IsData(LoRaMacBuffer)
    BY <2>1, <2>2, Zenon DEF JoinPending, LastAired, IsData
  <2> QED
    BY <2>1, <2>3, <2>4, <2>5, Zenon DEF SessionInv
<1>12. CASE OnRxWindow1TimerEvent \/ OnRxWindow2TimerEvent \/ OnRxWindow2TimerEventSetup
            \/ OnAckTimeoutTimerEvent
  BY <1>12, SessionKept, ZenonT(60)
  DEF OnRxWindow1TimerEvent, OnRxWindow2TimerEvent, OnRxWindow2TimerEventSetup,
      OnAckTimeoutTimerEvent, serviceVars, exchangeVars, sessionVars, SameSession, JoinPending
<1>13. ASSUME NEW o \in {"now", "later", "off"}, OnTxDelayedTimerEvent(o)
       PROVE  SessionInv'
  <2>1. /\ MlmeConfirm' = SentConfirm(MlmeConfirm, o) /\ suspended = "none" /\ "TxDelayed" \in timers
        /\ UNCHANGED <<LoRaMacFlags, IsLoRaMacNetworkJoined, UpLinkCounter>>
    BY <1>13, Zenon DEF OnTxDelayedTimerEvent, sessionVars, TimerEventRuns
  <2>2. UNCHANGED MlmeConfirm.MlmeRequest
    BY <2>1, Zenon DEF SentConfirm, StepPre, Types, ConfirmTypes
  <2>3. JoinPending' <=> JoinPending
    BY <2>1, <2>2, ZenonT(60) DEF JoinPending
  <2>4. "MacDone" \notin LoRaMacFlags /\ McpsBusy
    BY <2>1 DEF WakeUpInv, RestInv, McpsBusy
  <2>5. CASE JoinPending
    <3>1. ~IsLoRaMacNetworkJoined /\ UpLinkCounter = 1
      BY <2>4, <2>5, Zenon DEF JoinInv, SessionInv
    <3> QED
      BY <2>1, <2>3, <2>5, <3>1, Zenon DEF SessionInv
  <2>6. CASE ~JoinPending
    <3>1. history' = SentHistory(history, o) /\ LoRaMacBuffer' = LoRaMacBuffer
      BY <1>13, <2>6, Zenon DEF OnTxDelayedTimerEvent
    <3>2. UNCHANGED history.aired /\ UNCHANGED history.used
      BY <3>1, SentFields, ZenonT(60) DEF StepPre, Types, FrameHistoryTypes
    <3>3. LastAired' = LastAired /\ (IsData(LoRaMacBuffer)' <=> IsData(LoRaMacBuffer))
      BY <3>1, <3>2, Zenon DEF LastAired, IsData
    <3> QED
      BY <2>1, <2>3, <2>4, <2>6, <3>2, <3>3, ZenonT(60) DEF SessionInv
  <2> QED
    BY <2>5, <2>6
<1>14. CASE OnMacStateCheckTimerEvent /\ "MacDone" \notin LoRaMacFlags
  BY <1>14, SessionKept, Zenon
  DEF OnMacStateCheckTimerEvent, serviceVars, exchangeVars, sessionVars, SameSession, JoinPending
<1>15. CASE OnMacStateCheckTimerEvent /\ "MacDone" \in LoRaMacFlags
  BY <1>15, SessionCheckDone, Zenon
<1>16. CASE OnMacStateCheckTimerEventReport
  <2>1. /\ UNCHANGED <<LoRaMacState, MlmeConfirm, LoRaMacBuffer, IsLoRaMacNetworkJoined, UpLinkCounter,
                       history>>
        /\ LoRaMacFlags' = (LoRaMacFlags \ If(LoRaMacState = {}, {"McpsReq", "MlmeReq", "MacDone"}))
                           \ {"McpsInd"}
    BY <1>16, ZenonT(60) DEF OnMacStateCheckTimerEventReport, exchangeVars, sessionVars
  <2>2. /\ LoRaMacState # {} => (JoinPending' <=> JoinPending)
        /\ LoRaMacState = {} => ~McpsBusy
    BY <2>1 DEF JoinPending, If, McpsBusy
  <2>3. /\ LastAired' = LastAired /\ (IsData(LoRaMacBuffer)' <=> IsData(LoRaMacBuffer))
        /\ McpsBusy' <=> McpsBusy
    BY <2>1, Zenon DEF LastAired, IsData, McpsBusy
  <2> QED
    BY <2>1, <2>2, <2>3, Zenon DEF SessionInv
<1>17. CASE UNCHANGED vars
  BY <1>17, SessionKept, Zenon
  DEF vars, serviceVars, exchangeVars, sessionVars, SameSession, JoinPending
<1> QED
  BY <1>1, <1>2, <1>3, <1>4, <1>5, <1>6, <1>7, <1>8, <1>9, <1>10, <1>11, <1>12, <1>13, <1>14, <1>15, <1>16,
     <1>17, ZenonT(60) DEF Next, Requests, RadioEvents, TimerEvents

(* A pending join reads as successful exactly when the node has joined. *)
THEOREM JoinSafe ==
    ASSUME ~Preemption, "LINK_CHECK_FULL" \notin MlmeTypes, ~({"JOIN", "LINK_CHECK"} \subseteq MlmeTypes),
           "NETWORK_JOINED" \notin MibTypes
    PROVE  Spec => []JoinInv
<1>1. Init => JoinInv
  BY DEF Init, JoinInv, JoinPending
<1>2. Types /\ Types' /\ ExchangeInv /\ HistoryInv /\ OneServiceInv /\ JoinInv /\ [Next]_vars => JoinInv'
  BY JoinStep, Zenon DEF StepPre
<1>3. Spec => []Types
  BY TypeCorrect, TypeGroups, PTL
<1> QED
  BY <1>1, <1>2, <1>3, ExchangeSafe, HistorySafe, OneService, PTL DEF Spec

(* The confirm of a join reports success exactly when the node has joined. *)
THEOREM JoinConfirmIsTrue ==
    ASSUME ~Preemption, "LINK_CHECK_FULL" \notin MlmeTypes, ~({"JOIN", "LINK_CHECK"} \subseteq MlmeTypes),
           "NETWORK_JOINED" \notin MibTypes
    PROVE  Spec => JoinConfirmTellsTruth
<1>1. JoinInv => (MlmeConfirmed /\ MlmeConfirm.MlmeRequest = "JOIN" =>
                    (MlmeConfirm.Status = "OK" <=> IsLoRaMacNetworkJoined))
  BY Zenon DEF JoinInv, JoinPending, MlmeConfirmed
<1> QED
  BY <1>1, JoinSafe, PTL DEF Spec, JoinConfirmTellsTruth

(* The first data frame of a session joined over the air carries the       *)
(* uplink counter 1.                                                       *)
THEOREM SessionStart ==
    ASSUME ~Preemption, "LINK_CHECK_FULL" \notin MlmeTypes, ~({"JOIN", "LINK_CHECK"} \subseteq MlmeTypes),
           "NETWORK_JOINED" \notin MibTypes, "PROPRIETARY" \notin McpsTypes
    PROVE  Spec => []SessionStartsAtOne
<1>1. Init => AiredInv /\ SessionInv
  BY DEF Init, AiredInv, SessionInv, NewHistory, LastAired, IsData, McpsBusy, JoinPending
<1>2. Types /\ Types' /\ ExchangeInv /\ HistoryInv /\ AiredInv /\ [Next]_vars => AiredInv'
  BY AiredStep, Zenon DEF StepPre
<1>3. Types /\ Types' /\ ExchangeInv /\ HistoryInv /\ OneServiceInv /\ JoinInv /\ AiredInv /\ SessionInv
        /\ [Next]_vars => SessionInv'
  BY SessionStep, Zenon DEF StepPre
<1>4. Spec => []Types
  BY TypeCorrect, TypeGroups, PTL
<1>5. ASSUME ExchangeInv, HistoryInv, SessionInv PROVE SessionStartsAtOne
  <2>1. radio = "tx" => McpsBusy
    BY <1>5 DEF ExchangeInv, RestInv, Quiet, McpsBusy
  <2>2. McpsBusy /\ IsData(LoRaMacBuffer) => LoRaMacBuffer.cnt = UpLinkCounter
    BY <1>5, Zenon DEF HistoryInv, CounterInv
  <2> QED
    BY <1>5, <2>1, <2>2, ZenonT(60) DEF SessionInv, SessionStartsAtOne
<1> QED
  BY <1>1, <1>2, <1>3, <1>4, <1>5, ExchangeSafe, HistorySafe, OneService, JoinSafe, PTL DEF Spec

=============================================================================
