----------------------------- MODULE DutyCycle ------------------------------
(***************************************************************************)
(* When and where the MAC may send (LoRaMac.c: ScheduleTx,                 *)
(* CalculateBackOff, SetNextChannel): channels belong to bands, a band     *)
(* rests after a transmission, and DutyCycleReq of the network adds a rest *)
(* for the device as a whole.                                              *)
(*                                                                         *)
(* A time stamp is kept as the time that has passed since, which stops at  *)
(* MaxElapsed, beyond every time off one transmission can cause.  While it *)
(* is 0, its value at boot, no time has passed since it                    *)
(* (RtcComputeElapsedTime).                                                *)
(***************************************************************************)
EXTENDS Integers, FiniteSetsExt

CONSTANTS Band, DCycle,        \* DCycle[b]: the inverse of the duty cycle of b
          Channel, BandOf,     \* BandOf[c]: the band of channel c
          DrRange,             \* DrRange[c]: the data rates of channel c
          DefaultChannels,     \* LC1, LC2 and LC3, also the channels to join on
          TimeOnAir,           \* TimeOnAir[d]: the time a frame takes at data rate d
          DefaultDatarate,
          JoinDCycle,          \* BACKOFF_DC_1_HOUR; RetransmissionDutyCylce returns no other,
                               \* as the time since 0 it asks for is 0
          RndOffset,           \* BACKOFF_RND_OFFSET
          MaxDCycles,          \* what DutyCycleReq may ask for
          MaxElapsed

DeviceOff == 255               \* the MaxDCycle that forbids every transmission

ASSUME DutyCycleAssumption ==
    /\ DCycle \in [Band -> Nat \ {0}] /\ JoinDCycle \in Nat \ {0}
    /\ RndOffset \in Nat /\ MaxElapsed \in Nat
    /\ 0 \in MaxDCycles /\ \A m \in MaxDCycles \ {DeviceOff} : m \in Nat /\ 2^m \in Nat \ {0}
    /\ \A d \in DOMAIN TimeOnAir : TimeOnAir[d] \in Nat
    /\ DefaultChannels \subseteq Channel /\ DefaultChannels # {}
    /\ \A c \in Channel : BandOf[c] \in Band /\ DrRange[c] \subseteq DOMAIN TimeOnAir
    /\ \A d \in DOMAIN TimeOnAir : d \in Nat /\ (d > 0 => d - 1 \in DOMAIN TimeOnAir)
    /\ \A c \in DefaultChannels : DefaultDatarate \in DrRange[c]
    /\ \A d \in DOMAIN TimeOnAir, j \in {JoinDCycle} \cup {DCycle[b] : b \in Band} :
          TimeOnAir[d] * (j - 1) + RndOffset <= MaxElapsed

VARIABLES bands,     \* per band: TimeOff and the time since LastTxDoneTime
          stamped,   \* the bands whose LastTxDoneTime is not 0
          DutyCycleOn,
          duty,      \* AggregatedTimeOff, MaxDCycle, TxTimeOnAir, LastTxChannel
          params,    \* IsLoRaMacNetworkJoined, ChannelsDatarate, ChannelsMask
          tx,        \* what became of the frame: its phase, its channel, the delay left
          owed       \* history: per band the rest its last transmission calls for,
                     \* and whether it is waived: a transmission timed out or the
                     \* duty cycle was switched off

dutyVars == <<bands, stamped, DutyCycleOn, duty, params, tx, owed>>

(* LastTxChannel starts as the first channel; Channel is this one too      *)
(* while nothing is sent.                                                  *)
FirstChannel == CHOOSE c \in DefaultChannels : TRUE

Idle == [phase |-> "idle", channel |-> FirstChannel, delay |-> 0]

DutyInit ==
    /\ bands = [b \in Band |-> [TimeOff |-> 0, elapsed |-> 0]]
    /\ stamped = {} /\ DutyCycleOn = TRUE
    /\ duty = [AggregatedTimeOff |-> 0, MaxDCycle |-> 0, TxTimeOnAir |-> 0,
               LastTxChannel |-> FirstChannel]
    /\ params = [joined |-> FALSE, datarate |-> DefaultDatarate, mask |-> DefaultChannels]
    /\ tx = Idle
    /\ owed = [rest |-> [b \in Band |-> 0], waived |-> FALSE]
-----------------------------------------------------------------------------
(* AggregatedLastTxDoneTime is the latest of the LastTxDoneTime. *)
AggregatedElapsed == IF stamped = {} THEN 0 ELSE Min({bands[b].elapsed : b \in stamped})

(* The times off the band of the last transmission may get (p: the         *)
(* parameters).                                                            *)
BackOffTimes(p) ==
    LET dc  == DCycle[BandOf[duty.LastTxChannel]]
        jdc == IF p.joined THEN dc ELSE Max({JoinDCycle, dc})
        off == IF DutyCycleOn THEN duty.TxTimeOnAir * jdc - duty.TxTimeOnAir ELSE 0
    IN  IF p.joined \/ duty.TxTimeOnAir = 0 THEN {off} ELSE off..(off + RndOffset)

(* The aggregated time off grows with every call, a new transmission or not. *)
AggregatedBackOff(m) ==
    (IF m = 0 THEN 0 ELSE duty.AggregatedTimeOff) + duty.TxTimeOnAir * 2^m - duty.TxTimeOnAir

BugRestRestarted(off) == [bands EXCEPT ![BandOf[duty.LastTxChannel]] = [TimeOff |-> off, elapsed |-> 0]]

CalculateBackOff(off) == [bands EXCEPT ![BandOf[duty.LastTxChannel]].TimeOff = off]

(* Bands whose time off has passed are free; all are without duty cycle. *)
UpdateBands(bs) ==
    [b \in Band |-> IF ~DutyCycleOn \/ bs[b].TimeOff <= bs[b].elapsed
                    THEN [bs[b] EXCEPT !.TimeOff = 0] ELSE bs[b]]

Usable(p) == {c \in p.mask : p.datarate \in DrRange[c] /\ (p.joined \/ c \in DefaultChannels)}

BugIgnoresBand(bs, p) == Usable(p)

EnabledChannels(bs, p) == {c \in Usable(p) : bs[BandOf[c]].TimeOff = 0}

NextTxDelay(bs) == Min({bs[b].TimeOff - bs[b].elapsed : b \in {x \in Band : bs[x].TimeOff # 0}})

(* The data rate and the channels SetNextChannel settles on: with no       *)
(* channel enabled the default ones are, with none for the data rate       *)
(* ScheduleTx falls back to the default.                                   *)
FallBack(p) ==
    LET q == IF p.mask = {} THEN [p EXCEPT !.mask = DefaultChannels] ELSE p
    IN IF Usable(q) # {} THEN q
       ELSE [q EXCEPT !.datarate = DefaultDatarate, !.mask = @ \cup DefaultChannels]

Delay(t) == tx' = [phase |-> "delayed", channel |-> FirstChannel, delay |-> t]

SendFrameOnChannel(c, m) ==
    /\ tx' = [phase |-> "sending", channel |-> c, delay |-> 0]
    /\ duty' = [duty EXCEPT !.AggregatedTimeOff = 0, !.MaxDCycle = m,
                            !.TxTimeOnAir = TimeOnAir[params'.datarate]]

ScheduleTx(p, m) ==
    /\ m # DeviceOff /\ UNCHANGED <<stamped, DutyCycleOn, owed>>
    /\ \E off \in BackOffTimes(p) :
          IF AggregatedBackOff(m) <= AggregatedElapsed
          THEN /\ bands' = UpdateBands(CalculateBackOff(off))
               /\ params' = FallBack(p)
               /\ IF EnabledChannels(bands', params') # {}
                  THEN \E c \in EnabledChannels(bands', params') : SendFrameOnChannel(c, m)
                  ELSE /\ Delay(NextTxDelay(bands'))
                       /\ duty' = [duty EXCEPT !.AggregatedTimeOff = 0, !.MaxDCycle = m]
          ELSE /\ bands' = CalculateBackOff(off)
               /\ params' = IF p.mask = {} THEN [p EXCEPT !.mask = DefaultChannels] ELSE p
               /\ duty' = [duty EXCEPT !.AggregatedTimeOff = AggregatedBackOff(m), !.MaxDCycle = m]
               /\ Delay(AggregatedBackOff(m) - AggregatedElapsed)
-----------------------------------------------------------------------------
(* Without an answer of the network for long, ADR takes the next lower     *)
(* data rate and at the lowest one the default channels (p: the parameters *)
(* before; how many frames went unanswered is left open).                  *)
AdrNextDr(p) ==
    {p} \cup IF p.datarate = 0 THEN {}
             ELSE {[p EXCEPT !.datarate = @ - 1,
                             !.mask = @ \cup IF p.datarate = 1 THEN DefaultChannels ELSE {}]}

SendData ==
    /\ tx.phase = "idle" /\ params.joined
    /\ \E p \in AdrNextDr(params) : ScheduleTx(p, duty.MaxDCycle)

(* A join request resets the parameters and takes an alternate data rate. *)
SendJoinRequest(d) ==
    /\ tx.phase = "idle" /\ \E c \in DefaultChannels : d \in DrRange[c]
    /\ ScheduleTx([joined |-> FALSE, datarate |-> d, mask |-> DefaultChannels], 0)

SendDelayed == tx.phase = "delayed" /\ tx.delay = 0 /\ ScheduleTx(params, duty.MaxDCycle)

(* LastTxChannel and the time stamp of its band follow a transmission. *)
TxDoneOnChannel ==
    /\ tx.phase = "sending" /\ tx' = Idle
    /\ duty' = [duty EXCEPT !.LastTxChannel = tx.channel]
    /\ bands' = [bands EXCEPT ![BandOf[tx.channel]].elapsed = 0]
    /\ stamped' = stamped \cup {BandOf[tx.channel]}
    /\ owed' = [owed EXCEPT !.rest[BandOf[tx.channel]] = duty.TxTimeOnAir * (DCycle[BandOf[tx.channel]] - 1)]
    /\ UNCHANGED <<DutyCycleOn, params>>

TxTimeoutOnChannel ==
    /\ tx.phase = "sending" /\ tx' = Idle
    /\ owed' = [owed EXCEPT !.waived = TRUE]
    /\ UNCHANGED <<bands, stamped, DutyCycleOn, duty, params>>

(* The compliance test, which a downlink starts and ends, does without     *)
(* duty cycle.                                                             *)
LoRaMacTestSetDutyCycleOn(enable) ==
    /\ stamped # {}
    /\ DutyCycleOn' = enable
    /\ owed' = [owed EXCEPT !.waived = @ \/ ~enable]
    /\ UNCHANGED <<bands, stamped, duty, params, tx>>

(* Commands of the network: LinkAdrReq (data rate and channels) and        *)
(* DutyCycleReq.  They come in the receive windows of a transmission.      *)
LinkAdrReq(d, mask) ==
    /\ tx.phase = "idle" /\ params.joined /\ stamped # {}
    /\ params' = [params EXCEPT !.datarate = d, !.mask = mask]
    /\ UNCHANGED <<bands, stamped, DutyCycleOn, duty, tx, owed>>

DutyCycleReq(m) ==
    /\ tx.phase = "idle" /\ params.joined /\ stamped # {}
    /\ duty' = [duty EXCEPT !.MaxDCycle = m]
    /\ UNCHANGED <<bands, stamped, DutyCycleOn, params, tx, owed>>

(* The join accept may come with a list of further channels (CFList).      *)
(* Without a join request before it, this is the activation by             *)
(* personalization (MIB_NETWORK_JOINED).                                   *)
JoinAccepted(cfList) ==
    /\ tx.phase = "idle" /\ ~params.joined
    /\ params' = [joined |-> TRUE, datarate |-> DefaultDatarate, mask |-> params.mask \cup cfList]
    /\ UNCHANGED <<bands, stamped, DutyCycleOn, duty, tx, owed>>

(* Time passes; a timer that is due goes off first. *)
DutyTick ==
    /\ tx.phase = "delayed" => tx.delay > 0
    /\ bands' = [b \in Band |-> IF b \in stamped
                                THEN [bands[b] EXCEPT !.elapsed = Min({@ + 1, MaxElapsed})] ELSE bands[b]]
    /\ tx' = [tx EXCEPT !.delay = IF tx.phase = "delayed" THEN @ - 1 ELSE @]
    /\ duty' = [duty EXCEPT !.AggregatedTimeOff =
                   IF AggregatedElapsed = MaxElapsed /\ @ > 0 THEN @ - 1 ELSE @]
    /\ UNCHANGED <<stamped, DutyCycleOn, params, owed>>

DutyNext ==
    \/ SendData \/ SendDelayed \/ TxDoneOnChannel \/ TxTimeoutOnChannel \/ DutyTick
    \/ \E cfList \in SUBSET (Channel \ DefaultChannels) : JoinAccepted(cfList)
    \/ \E d \in DOMAIN TimeOnAir :
          SendJoinRequest(d) \/ \E mask \in (SUBSET Channel) \ {{}} : LinkAdrReq(d, mask)
    \/ \E m \in MaxDCycles : DutyCycleReq(m)
    \/ \E enable \in BOOLEAN : LoRaMacTestSetDutyCycleOn(enable)

(* Time passes, the delay ends and the radio ends every transmission. *)
DutyFairness == /\ WF_dutyVars(DutyTick) /\ WF_dutyVars(SendDelayed)
                /\ WF_dutyVars(TxDoneOnChannel \/ TxTimeoutOnChannel)

DutySpec == DutyInit /\ [][DutyNext]_dutyVars /\ DutyFairness
-----------------------------------------------------------------------------
(***************************************************************************)
(* Properties.                                                             *)
(***************************************************************************)
(* The types; a time off never outgrows what time stamps can tell. *)
DutyTypeOK ==
    /\ bands \in [Band -> [TimeOff : 0..MaxElapsed, elapsed : 0..MaxElapsed]]
    /\ stamped \subseteq Band /\ DutyCycleOn \in BOOLEAN
    /\ duty \in [AggregatedTimeOff : Nat, MaxDCycle : MaxDCycles, TxTimeOnAir : Nat, LastTxChannel : Channel]
    /\ params \in [joined : BOOLEAN, datarate : DOMAIN TimeOnAir, mask : SUBSET Channel]
    /\ tx \in [phase : {"idle", "delayed", "sending"}, channel : Channel, delay : Nat]

(* The regulation: a transmission starts in a band only when the band has  *)
(* rested since its last completed transmission for what that transmission *)
(* calls for, through joins, changes of channels and data rate and delays. *)
(* (A transmit timeout leaves LastTxChannel behind: the next back-off is   *)
(* then charged to another band.  The compliance test gives the rest up.)  *)
BandRests ==
    [][tx.phase # "sending" /\ tx'.phase = "sending" /\ ~owed.waived
          => LET b == BandOf[tx'.channel] IN bands[b].elapsed >= Min({owed.rest[b], MaxElapsed})]_dutyVars

(* Every band that has to rest had a transmission since which its rest is  *)
(* counted.  Not so after a transmit timeout before any transmission was   *)
(* completed: CalculateBackOff makes the band of the first channel rest,   *)
(* and RtcComputeElapsedTime has no time pass since its time stamp of 0.   *)
RestsAreCounted == \A b \in Band : bands[b].TimeOff # 0 => b \in stamped

(* A frame held back by the duty cycle of its band is sent in the end, as  *)
(* long as the network asks for no aggregated duty cycle and the rest is   *)
(* counted: the delay ends, and the attempts to send it start no new rest. *)
DelayedFrameIsSent ==
    tx.phase = "delayed" /\ duty.MaxDCycle = 0 /\ RestsAreCounted ~> tx.phase = "sending"

(* The same with an aggregated duty cycle: a frame that is to be sent      *)
(* later is sent later.                                                    *)
AggregatedDelayEnds == tx.phase = "delayed" /\ RestsAreCounted ~> tx.phase = "sending"
=============================================================================
