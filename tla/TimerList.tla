----------------------------- MODULE TimerList ------------------------------
(***************************************************************************)
(* The timer module (src/src/system/timer.c) and the RTC alarm under it    *)
(* (src/src/boards/SK-iM880A/rtc-board.c).  All software timers share one  *)
(* alarm: they are kept in a list in which a timer's Timestamp is the time *)
(* after the timer before it, and the alarm is set for the head.           *)
(*                                                                         *)
(* Time is relative: elapsed is the time since the alarm was last set and  *)
(* alarm the time until it rings.  The interrupt stays pending until it is *)
(* served.  TimerIrqHandler runs in steps; radio interrupts, which have    *)
(* the higher priority, call the timer module between them when Preemption *)
(* is TRUE.  TimerStart and TimerStop disable interrupts and are atomic.   *)
(***************************************************************************)
EXTENDS Integers, Sequences, FiniteSetsExt, Functions

CONSTANTS Timer,          \* the timer objects
          Delays,         \* Delays[t]: the delays timer t is set to
          McuWakeUpTime,  \* measured at boot by RtcComputeWakeUpTime
          LowPowerDelay,  \* below it the MCU does not sleep (50 ms in the code)
          LoopsToSleep,   \* passes of the main loop before it sleeps (5 in the code)
          MaxLatency,     \* bound: time an interrupt waits or is handled
          Word,           \* 2^32 in the code
          Preemption

(* The longest delay: a timer and the time its interrupt may be late fit   *)
(* into a word.                                                            *)
Longest == Word - 1 - 2 * MaxLatency

ASSUME TimerAssumption ==
    /\ Timer # {}
    /\ Delays \in [Timer -> SUBSET (1..Longest)] /\ \A t \in Timer : Delays[t] # {}
    /\ {McuWakeUpTime, LowPowerDelay, LoopsToSleep, MaxLatency} \subseteq Nat
    /\ Word \in Nat
    /\ Preemption \in BOOLEAN

VARIABLES
    list,                 \* the timers from TimerListHead along Next
    Timestamp, IsRunning, \* of every timer object
    ReloadValue,
    elapsed,              \* RtcGetElapsedAlarmTime: since RtcCalendarContext
    alarm,                \* time until the RTC alarm, 0 when none is set
    NonScheduledWakeUp,
    RtcTimerEventAllowsLowPower,
    HasLoopedThroughMain,
    asleep,               \* in stop mode
    pending,              \* the RTC alarm interrupt
    pc,                   \* where TimerIrqHandler is
    irqElapsed,           \* its local elapsedTime
    waited,               \* time since the interrupt was raised
    due, late, lead       \* history of each listed timer: time left since its
                          \* start, time lost to handling, compensation gained

memory  == <<list, Timestamp, IsRunning, elapsed, alarm, NonScheduledWakeUp,
             RtcTimerEventAllowsLowPower, HasLoopedThroughMain>>
handler == <<pending, pc, irqElapsed, waited>>
history == <<due, late, lead>>
listVars == <<memory, ReloadValue, asleep, handler, history>>
-----------------------------------------------------------------------------
(***************************************************************************)
(* The operations, as functions of the memory they work on.                *)
(***************************************************************************)
Listed(l) == Range(l)

Mem == [list |-> list, Timestamp |-> Timestamp, IsRunning |-> IsRunning, elapsed |-> elapsed,
        alarm |-> alarm, wakeUp |-> NonScheduledWakeUp, allows |-> RtcTimerEventAllowsLowPower,
        looped |-> HasLoopedThroughMain, lead |-> 0]

(* Timestamp and IsRunning of a timer that is not listed are not read      *)
(* before TimerStart sets them: they are kept at 0 and FALSE.              *)
SetMem(m) ==
    /\ list' = m.list
    /\ Timestamp' = [t \in Timer |-> IF t \in Listed(m.list) THEN m.Timestamp[t] ELSE 0]
    /\ IsRunning' = [t \in Timer |-> t \in Listed(m.list) /\ m.IsRunning[t]]
    /\ elapsed' = m.elapsed
    /\ alarm' = m.alarm
    /\ NonScheduledWakeUp' = m.wakeUp
    /\ RtcTimerEventAllowsLowPower' = m.allows
    /\ HasLoopedThroughMain' = m.looped

Minus(a, b) == (a - b) % Word

(* RtcGetAdjustedTimeoutValue: the time lost in a wake-up that was not     *)
(* scheduled, and the time the scheduled one will take.                    *)
Unscheduled(m, x) == x > McuWakeUpTime /\ m.wakeUp
AfterUnscheduled(m, x) == IF Unscheduled(m, x) THEN x - McuWakeUpTime ELSE x
Sleeps(y) == y > McuWakeUpTime /\ y >= LowPowerDelay
RtcGetAdjustedTimeoutValue(m, x) ==
    LET y == AfterUnscheduled(m, x)
    IN  IF Sleeps(y) THEN y - McuWakeUpTime ELSE y

(* TimerSetTimeout for the head.  The alarm is at least one tick ahead. *)
TimerSetTimeout(m) ==
    LET h == Head(m.list)
        x == m.Timestamp[h]
        y == AfterUnscheduled(m, x)
        z == RtcGetAdjustedTimeoutValue(m, x)
    IN  [m EXCEPT !.Timestamp[h] = z,
                  !.wakeUp = @ /\ ~Unscheduled(m, x),
                  !.allows = IF y > McuWakeUpTime THEN y >= LowPowerDelay ELSE @,
                  !.looped = 0,
                  !.elapsed = 0,
                  !.alarm = IF z < 1 THEN 1 ELSE z,
                  !.lead = x - z]

(* What is left of the head. *)
Remaining(m) ==
    LET h == Head(m.list)
    IN  IF ~m.IsRunning[h] THEN m.Timestamp[h]
        ELSE IF m.elapsed > m.Timestamp[h] THEN 0 ELSE m.Timestamp[h] - m.elapsed

TimerInsertNewHeadTimer(m, t, remaining) ==
    LET displaced == IF m.list = <<>> THEN m
                     ELSE [m EXCEPT !.Timestamp[Head(m.list)] = Minus(remaining, m.Timestamp[t]),
                                    !.IsRunning[Head(m.list)] = FALSE]
    IN  TimerSetTimeout([displaced EXCEPT !.list = <<t>> \o @, !.IsRunning[t] = TRUE])

(* aggregatedTimestamp before the i-th timer expires, the head's part      *)
(* being what is left of it.                                               *)
Aggregated(m, remaining) ==
    LET sum[i \in 1..Len(m.list)] ==
            IF i = 1 THEN remaining ELSE sum[i - 1] + m.Timestamp[m.list[i]]
    IN  sum

(* Mutant: the time of the timer after the new one is not reduced. *)
BugInsertKeepsNext(m, t, remaining) ==
    LET n   == Len(m.list)
        sum == Aggregated(m, remaining)
        at  == Min({i \in 2..n : sum[i] > m.Timestamp[t]} \cup {n + 1})
    IN  [m EXCEPT !.Timestamp[t] = Minus(@, sum[at - 1]),
                  !.list = SubSeq(@, 1, at - 1) \o <<t>> \o SubSeq(@, at, n)]

TimerInsertTimer(m, t, remaining) ==
    LET n   == Len(m.list)
        sum == Aggregated(m, remaining)
        at  == Min({i \in 2..n : sum[i] > m.Timestamp[t]} \cup {n + 1})
        x   == Minus(m.Timestamp[t], sum[at - 1])
        placed == [m EXCEPT !.Timestamp[t] = x,
                            !.list = SubSeq(@, 1, at - 1) \o <<t>> \o SubSeq(@, at, n)]
    IN  IF at > n THEN placed
        ELSE [placed EXCEPT !.Timestamp[m.list[at]] = Minus(@, x)]

(* Mutant: TimerExists is not asked. *)
BugStartTwice(m, t) ==
    LET loaded == [m EXCEPT !.Timestamp[t] = ReloadValue[t], !.IsRunning[t] = FALSE]
    IN  IF m.list = <<>> \/ ReloadValue[t] < Remaining(m)
        THEN TimerInsertNewHeadTimer(loaded, t, IF m.list = <<>> THEN 0 ELSE Remaining(m))
        ELSE TimerInsertTimer(loaded, t, Remaining(m))

TimerStart(m, t) ==
    LET loaded == [m EXCEPT !.Timestamp[t] = ReloadValue[t], !.IsRunning[t] = FALSE]
    IN  IF t \in Listed(m.list) THEN m
        ELSE IF m.list = <<>> \/ ReloadValue[t] < Remaining(m)
        THEN TimerInsertNewHeadTimer(loaded, t, IF m.list = <<>> THEN 0 ELSE Remaining(m))
        ELSE TimerInsertTimer(loaded, t, Remaining(m))

(* Mutant: the alarm is not set for the timer after the stopped head. *)
BugAlarmNotHandedOn(m) == [m EXCEPT !.list = Tail(@)]

(* The head is stopped: a running one hands the alarm on to the next. *)
StopHead(m) ==
    LET h    == Head(m.list)
        next == m.list[2]
        cut  == [m EXCEPT !.list = Tail(@)]
    IN  IF Len(m.list) = 1 THEN cut
        ELSE IF m.IsRunning[h]
        THEN TimerSetTimeout([cut EXCEPT !.IsRunning[h] = FALSE, !.IsRunning[next] = TRUE,
                                         !.Timestamp[next] = @ + Remaining(m)])
        ELSE [cut EXCEPT !.Timestamp[next] = @ + m.Timestamp[h]]

(* Mutant: the time of the stopped timer is lost to those after it. *)
BugTimeNotHandedOn(m, i) ==
    [m EXCEPT !.list = SubSeq(@, 1, i - 1) \o SubSeq(@, i + 1, Len(@))]

(* The timer at place i > 1 is stopped: its time goes to the next one. *)
StopWithin(m, i) ==
    LET cut == [m EXCEPT !.list = SubSeq(@, 1, i - 1) \o SubSeq(@, i + 1, Len(@))]
    IN  IF i = Len(m.list) THEN cut
        ELSE [cut EXCEPT !.Timestamp[m.list[i + 1]] = @ + m.Timestamp[m.list[i]]]

TimerStop(m, t) ==
    IF t \notin Listed(m.list) THEN m
    ELSE IF t = Head(m.list) THEN StopHead(m)
    ELSE StopWithin(m, CHOOSE i \in DOMAIN m.list : m.list[i] = t)
-----------------------------------------------------------------------------
(* The time left of every listed timer, as the list encodes it. *)
Left(m) ==
    LET sum == Aggregated(m, Remaining(m))
    IN  [t \in Listed(m.list) |-> sum[CHOOSE i \in DOMAIN m.list : m.list[i] = t]]

(* The history of the timers that stay listed goes on; that of a timer     *)
(* which is started begins.                                                *)
Track(m) ==
    LET fresh(t) == t \notin Listed(list)
    IN  /\ due'  = [t \in Timer |-> IF t \notin Listed(m.list) THEN 0
                                    ELSE IF fresh(t) THEN ReloadValue[t] ELSE due[t]]
        /\ late' = [t \in Timer |-> IF t \notin Listed(m.list) \/ fresh(t) THEN 0 ELSE late[t]]
        /\ lead' = [t \in Timer |-> IF t \notin Listed(m.list) THEN 0
                                    ELSE IF fresh(t) THEN m.lead ELSE lead[t] + m.lead]
-----------------------------------------------------------------------------
ListInit ==
    /\ list = <<>>
    /\ Timestamp = [t \in Timer |-> 0]
    /\ IsRunning = [t \in Timer |-> FALSE]
    /\ ReloadValue \in {r \in [Timer -> UNION Range(Delays)] : \A t \in Timer : r[t] \in Delays[t]}
    /\ elapsed = 0 /\ alarm = 0
    /\ NonScheduledWakeUp = FALSE /\ RtcTimerEventAllowsLowPower = FALSE
    /\ HasLoopedThroughMain = 0
    /\ asleep = FALSE
    /\ pending = FALSE /\ pc = "idle" /\ irqElapsed = 0 /\ waited = 0
    /\ due = [t \in Timer |-> 0] /\ late = due /\ lead = due

(* Who may call the timer module: the main loop when no interrupt is being *)
(* served, the callback of an expired timer, and radio interrupts.         *)
MayCall == ~asleep /\ (pc \in {"idle", "callback"} \/ (Preemption /\ pc \in {"entry", "loop"}))

Call(m) == SetMem(m) /\ Track(m) /\ UNCHANGED <<asleep, handler>>

Start(t) == MayCall /\ Call(TimerStart(Mem, t)) /\ UNCHANGED ReloadValue

Stop(t) == MayCall /\ Call(TimerStop(Mem, t)) /\ UNCHANGED ReloadValue

(* TimerStop, and the new value once interrupts are enabled again: t has   *)
(* left the list and nobody reads its values before TimerStart.            *)
TimerSetValue(t, v) ==
    /\ MayCall
    /\ Call(TimerStop(Mem, t))
    /\ ReloadValue' = [ReloadValue EXCEPT ![t] = v]

(* TimerLowPowerHandler, called on every pass of the main loop; the board  *)
(* sleeps on battery only.                                                 *)
TimerLowPowerHandler ==
    /\ ~asleep /\ pc = "idle"
    /\ list # <<>> /\ IsRunning[Head(list)]
    /\ IF HasLoopedThroughMain < LoopsToSleep
       THEN HasLoopedThroughMain' = HasLoopedThroughMain + 1 /\ UNCHANGED asleep
       ELSE /\ HasLoopedThroughMain' = 0
            /\ asleep' \in {FALSE, RtcTimerEventAllowsLowPower}
    /\ UNCHANGED <<list, Timestamp, IsRunning, elapsed, alarm, NonScheduledWakeUp,
                   RtcTimerEventAllowsLowPower, ReloadValue, handler, history>>

(* RtcRecoverMcuStatus: the wake-up flag of the power control decides. *)
RtcRecoverMcuStatus == NonScheduledWakeUp' \in {NonScheduledWakeUp, TRUE}

(* A GPIO interrupt, before it calls its handler. *)
GpioInterrupt ==
    /\ asleep' = FALSE
    /\ pc \in {"idle", "callback"} \/ Preemption
    /\ pc # "fault"
    /\ RtcRecoverMcuStatus
    /\ UNCHANGED <<list, Timestamp, IsRunning, elapsed, alarm, RtcTimerEventAllowsLowPower,
                   HasLoopedThroughMain, ReloadValue, handler, history>>

(* RTC_Alarm_IRQHandler up to the first statement of TimerIrqHandler. *)
RTC_Alarm_IRQHandler ==
    /\ pending /\ pc = "idle"
    /\ pending' = FALSE /\ alarm' = 0 /\ asleep' = FALSE
    /\ RtcRecoverMcuStatus
    /\ irqElapsed' = elapsed
    /\ pc' = "entry"
    /\ UNCHANGED <<list, Timestamp, IsRunning, elapsed, RtcTimerEventAllowsLowPower,
                   HasLoopedThroughMain, ReloadValue, waited, history>>

TimerIrqHandler ==
    /\ pc = "entry" /\ list # <<>>
    /\ Timestamp' = [Timestamp EXCEPT ![Head(list)] = IF irqElapsed >= @ THEN 0 ELSE @ - irqElapsed]
    /\ IsRunning' = [IsRunning EXCEPT ![Head(list)] = FALSE]
    /\ pc' = "loop"
    /\ irqElapsed' = 0
    /\ UNCHANGED <<list, elapsed, alarm, NonScheduledWakeUp, RtcTimerEventAllowsLowPower,
                   HasLoopedThroughMain, ReloadValue, asleep, pending, waited, history>>

(* The list is empty: TimerListHead is a null pointer.  The write through  *)
(* it faults or has no effect, and the loop is not entered.                *)
TimerIrqHandlerEmpty ==
    /\ pc = "entry" /\ list = <<>>
    /\ pc' \in {"fault", "idle"}
    /\ waited' = 0 /\ irqElapsed' = 0
    /\ UNCHANGED <<memory, ReloadValue, asleep, pending, history>>

HeadExpired == IF list = <<>> THEN FALSE ELSE Timestamp[Head(list)] = 0

(* The head has expired: it leaves the list and its callback is called. *)
Expire ==
    /\ pc = "loop" /\ HeadExpired
    /\ pc' = "callback"
    /\ LET m == [Mem EXCEPT !.list = Tail(@)] IN SetMem(m) /\ Track(m)
    /\ UNCHANGED <<ReloadValue, asleep, pending, irqElapsed, waited>>

CallbackReturns ==
    /\ pc = "callback"
    /\ pc' = "loop"
    /\ UNCHANGED <<memory, ReloadValue, asleep, pending, irqElapsed, waited, history>>

(* Mutant: the next head is not started. *)
BugNextNotStarted ==
    /\ pc = "loop" /\ ~HeadExpired
    /\ pc' = "idle" /\ waited' = 0
    /\ UNCHANGED <<memory, ReloadValue, asleep, pending, irqElapsed, history>>

(* The next head is started if nobody did. *)
TimerIrqHandlerEnd ==
    /\ pc = "loop" /\ ~HeadExpired
    /\ pc' = "idle"
    /\ LET m == IF list = <<>> THEN Mem ELSE IF IsRunning[Head(list)] THEN Mem
                ELSE TimerSetTimeout([Mem EXCEPT !.IsRunning[Head(list)] = TRUE])
       IN  SetMem(m) /\ Track(m)
    /\ waited' = 0
    /\ UNCHANGED <<ReloadValue, asleep, pending, irqElapsed>>

(* One tick of the RTC.  The interrupt is served within MaxLatency; the    *)
(* first statements of the handler take no time.  Nobody reads elapsed     *)
(* unless the head is running; the history due stops at -Word.             *)
Handling == pending \/ pc # "idle"

HeadRunning == IF list = <<>> THEN FALSE ELSE IsRunning[Head(list)]

Tick ==
    /\ pc \notin {"entry", "fault"}
    /\ Handling => waited < MaxLatency
    /\ elapsed' = IF HeadRunning THEN elapsed + 1 ELSE 0
    /\ alarm' = IF alarm > 0 THEN alarm - 1 ELSE alarm
    /\ pending' = (pending \/ alarm = 1)
    /\ waited' = IF Handling THEN waited + 1 ELSE 0
    /\ due' = [t \in Timer |-> IF t \in Listed(list) /\ due[t] > -Word THEN due[t] - 1 ELSE due[t]]
    /\ late' = [t \in Timer |-> IF t \in Listed(list) /\ Handling THEN late[t] + 1 ELSE late[t]]
    /\ UNCHANGED <<list, Timestamp, IsRunning, NonScheduledWakeUp, RtcTimerEventAllowsLowPower,
                   HasLoopedThroughMain, ReloadValue, asleep, pc, irqElapsed, lead>>

Serve == \/ RTC_Alarm_IRQHandler \/ TimerIrqHandler \/ TimerIrqHandlerEmpty \/ Expire
         \/ CallbackReturns \/ TimerIrqHandlerEnd

ListNext ==
    \/ Tick \/ Serve \/ TimerLowPowerHandler \/ GpioInterrupt
    \/ \E t \in Timer : Start(t) \/ Stop(t)
    \/ \E t \in Timer : \E v \in Delays[t] : TimerSetValue(t, v)

(* Interrupts are served, and time passes. *)
ListFairness == WF_listVars(Serve) /\ WF_listVars(Tick)

ListSpec == ListInit /\ [][ListNext]_listVars /\ ListFairness
-----------------------------------------------------------------------------
(***************************************************************************)
(* Properties.                                                             *)
(***************************************************************************)
(* Every variable has its type and the list holds no timer twice. *)
ListTypeOK ==
    /\ list \in Seq(Timer) /\ \A i, j \in DOMAIN list : list[i] = list[j] => i = j
    /\ Timestamp \in [Timer -> 0..(Word - 1)]
    /\ IsRunning \in [Timer -> BOOLEAN]
    /\ ReloadValue \in [Timer -> 1..Longest] /\ \A t \in Timer : ReloadValue[t] \in Delays[t]
    /\ elapsed \in 0..(Word - 1) /\ alarm \in 0..(Word - 1)
    /\ {NonScheduledWakeUp, RtcTimerEventAllowsLowPower, asleep, pending} \subseteq BOOLEAN
    /\ HasLoopedThroughMain \in 0..LoopsToSleep
    /\ pc \in {"idle", "entry", "loop", "callback", "fault"}
    /\ irqElapsed \in 0..(Word - 1) /\ waited \in 0..MaxLatency

(* No timer is forgotten: outside TimerIrqHandler the head of a list that  *)
(* is not empty is running, and its alarm is set for no later than what is *)
(* left of it, or is already waiting to be served.  Every insertion,       *)
(* removal and expiry has to hand the one alarm on.                        *)
ListIsServed ==
    list # <<>> /\ pc = "idle" =>
        /\ IsRunning[Head(list)]
        /\ pending \/ alarm \in 1..Max({1, Remaining(Mem)})

(* However timers were started, stopped and expired around it, a timer     *)
(* expires when it is due: early only by the wake-up time compensated for, *)
(* late only by the time in which interrupts waited or were handled while  *)
(* it was listed.                                                          *)
ExpiresWhenDue ==
    \A t \in Listed(list) : Left(Mem)[t] \in (due[t] - lead[t])..(due[t] + late[t])

(* The delta list implements independent count-down timers. *)
Service == INSTANCE TimerService WITH Values <- UNION Range(Delays), left <- Left(Mem), reload <- ReloadValue
ImplementsTimerService == Service!Spec

(* A started timer is stopped or expires, even when shorter timers are     *)
(* started again and again.                                                *)
EveryTimerExpires == \A t \in Timer : []<>(t \notin Listed(list))
=============================================================================
