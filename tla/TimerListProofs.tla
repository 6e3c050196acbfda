-------------------------- MODULE TimerListProofs ---------------------------
(***************************************************************************)
(* Proofs about the timer list: in a timer module whose handlers are not   *)
(* themselves interrupted, no listed timer is forgotten, every timer       *)
(* expires when it is due, and the list implements independent timers.     *)
(***************************************************************************)
EXTENDS TimerCallProofs

(***************************************************************************)
(* The inductive invariant.                                                *)
(***************************************************************************)
AllDelays == UNION Range(Delays)

(* What the handler and the history hold. *)
HandlerTypeOK ==
    /\ ReloadValue \in [Timer -> 1..Longest] /\ \A t \in Timer : ReloadValue[t] \in Delays[t]
    /\ asleep \in BOOLEAN /\ pending \in BOOLEAN
    /\ pc \in {"idle", "entry", "loop", "callback", "fault"}
    /\ irqElapsed \in 0..(Word - 1) /\ waited \in 0..MaxLatency
    /\ due \in [Timer -> Int] /\ late \in [Timer -> Nat] /\ lead \in [Timer -> Nat]

(* A running head has its alarm set for exactly what is left of it, unless *)
(* an alarm is waiting to be served; TimerIrqHandler finds the head        *)
(* running and charges it what has elapsed.                                *)
AlarmIsHeads ==
    /\ list # <<>> /\ pc \in {"idle", "entry"} => Runs(Mem)
    /\ ~pending /\ pc # "entry" => OnTime(Mem)
    /\ pc = "entry" => irqElapsed = elapsed

(* The alarm of a running head is late by what it waited for the handling  *)
(* of the one before and for its own.                                      *)
Grace == IF pc \in {"idle", "entry"} THEN MaxLatency ELSE 0

ElapsedBounded == Runs(Mem) => elapsed <= Longest + waited + Grace

(* The times left agree with the history and no timer has more left than   *)
(* some timer was ever set to.                                             *)
Tracked ==
    \A t \in Listed(list) : due[t] - lead[t] <= Left(Mem)[t] /\ Left(Mem)[t] <= due[t] + late[t]

WithinValues == \A t \in Listed(list) : \E v \in AllDelays : Left(Mem)[t] <= v

ListInv ==
    /\ Sound(Mem) /\ HandlerTypeOK /\ AlarmIsHeads /\ ElapsedBounded /\ Tracked /\ WithinValues

LEMMA MemIs ==
    /\ Mem.list = list /\ Mem.Timestamp = Timestamp /\ Mem.IsRunning = IsRunning /\ Mem.elapsed = elapsed
    /\ Mem.alarm = alarm /\ Mem.wakeUp = NonScheduledWakeUp /\ Mem.allows = RtcTimerEventAllowsLowPower
    /\ Mem.looped = HasLoopedThroughMain /\ Mem.lead = 0
BY Zenon DEF Mem

LEMMA MemIsNext ==
    /\ Mem'.list = list' /\ Mem'.Timestamp = Timestamp' /\ Mem'.IsRunning = IsRunning' /\ Mem'.elapsed = elapsed'
    /\ Mem'.alarm = alarm' /\ Mem'.wakeUp = NonScheduledWakeUp' /\ Mem'.allows = RtcTimerEventAllowsLowPower'
    /\ Mem'.looped = HasLoopedThroughMain' /\ Mem'.lead = 0
BY Zenon DEF Mem

(* The memory of the next state is a memory. *)
LEMMA MemNextType ==
    ASSUME list' \in Seq(Timer), Timestamp' \in [Timer -> Nat], IsRunning' \in [Timer -> BOOLEAN],
           elapsed' \in Nat, alarm' \in Nat, NonScheduledWakeUp' \in BOOLEAN,
           RtcTimerEventAllowsLowPower' \in BOOLEAN, HasLoopedThroughMain' \in 0..LoopsToSleep
    PROVE  Mem' \in Memory
BY SMT DEF Mem, Memory

(* n counts as m does. *)
Similar(m, n) ==
    /\ n \in Memory /\ n.list = m.list /\ n.elapsed = m.elapsed
    /\ \A t \in Listed(m.list) : n.Timestamp[t] = m.Timestamp[t] /\ n.IsRunning[t] = m.IsRunning[t]
    /\ \A t \in Timer : n.Timestamp[t] <= Longest
    /\ n.alarm <= Word - 1

LEMMA SimilarSound ==
    ASSUME NEW m, Sound(m), NEW n, Similar(m, n)
    PROVE  /\ Sound(n) /\ Left(n) = Left(m) /\ (Runs(n) <=> Runs(m))
           /\ n.alarm = m.alarm /\ OnTime(m) => OnTime(n)
<1>1. /\ m \in Memory /\ m.list \in Seq(Timer) /\ Encodes(m.list, m.Timestamp, HeadLeft(m), Left(m))
      /\ m.list # <<>> => HeadLeft(m) = Remaining(m)
  BY SoundEncodes, Zenon
<1>2. /\ Len(m.list) \in Nat /\ \A i \in 1..Len(m.list) : m.list[i] \in Listed(m.list)
      /\ m.list # <<>> => Head(m.list) = m.list[1] /\ 1 \in 1..Len(m.list)
  BY <1>1, ListPlaces, Zenon
<1>3. \A i \in 2..Len(m.list) : i \in 1..Len(m.list)
  BY <1>2, SMT
<1>4. /\ n \in Memory /\ n.list = m.list /\ n.elapsed = m.elapsed
      /\ \A t \in Listed(m.list) : n.Timestamp[t] = m.Timestamp[t] /\ n.IsRunning[t] = m.IsRunning[t]
      /\ \A t \in Timer : n.Timestamp[t] <= Longest
      /\ n.alarm <= Word - 1
  BY Zenon DEF Similar
<1>5. m.list # <<>> => Remaining(n) = Remaining(m)
  BY <1>2, <1>4, SMT DEF Remaining
<1>6. Left(n) = Left(m)
  <2>1. Encodes(n.list, n.Timestamp, Remaining(n), Left(m))
    BY <1>2, <1>3, <1>4, <1>1, EncodesSame, <1>5, SMT DEF Encodes
  <2> QED
    BY <1>4, <2>1, LeftUnique, Zenon
<1>7. Runs(n) <=> Runs(m)
  BY <1>2, <1>4, Zenon DEF Runs
<1>8. \A i \in 2..Len(n.list) : ~n.IsRunning[n.list[i]]
  BY <1>2, <1>3, <1>4, Zenon DEF Sound
<1>9. Sound(n)
  BY <1>4, <1>6, <1>8, SMT DEF Sound
<1>10. n.alarm = m.alarm /\ OnTime(m) => OnTime(n)
  BY <1>2, <1>4, <1>7, ZenonT(60) DEF OnTime, Runs
<1> QED
  BY <1>6, <1>7, <1>9, <1>10, Zenon

(* SetMem loses nothing that is read again. *)
LEMMA SetMemCarries ==
    ASSUME NEW n, Sound(n), SetMem(n)
    PROVE  /\ Sound(Mem') /\ Left(Mem') = Left(n) /\ (Runs(Mem') <=> Runs(n)) /\ (OnTime(n) => OnTime(Mem'))
           /\ list' = n.list /\ elapsed' = n.elapsed
<1>1. /\ n \in Memory /\ n.list \in Seq(Timer) /\ n.Timestamp \in [Timer -> Nat] /\ n.IsRunning \in [Timer -> BOOLEAN]
      /\ n.elapsed \in Nat /\ n.alarm \in Nat /\ n.wakeUp \in BOOLEAN /\ n.allows \in BOOLEAN
      /\ n.looped \in 0..LoopsToSleep
  BY MemoryFields, Zenon DEF Sound
<1>2. /\ list' = n.list /\ elapsed' = n.elapsed /\ alarm' = n.alarm /\ NonScheduledWakeUp' = n.wakeUp
      /\ RtcTimerEventAllowsLowPower' = n.allows /\ HasLoopedThroughMain' = n.looped
      /\ Timestamp' = [t \in Timer |-> IF t \in Listed(n.list) THEN n.Timestamp[t] ELSE 0]
      /\ IsRunning' = [t \in Timer |-> t \in Listed(n.list) /\ n.IsRunning[t]]
  BY Zenon DEF SetMem
<1>3. \A t \in Listed(n.list) : t \in Timer
  BY <1>1, ListPlaces, Zenon
<1>4. Timestamp' \in [Timer -> Nat] /\ \A t \in Listed(n.list) : Timestamp'[t] = n.Timestamp[t]
  BY <1>1, <1>2, <1>3, SMT
<1>5. IsRunning' \in [Timer -> BOOLEAN] /\ \A t \in Listed(n.list) : IsRunning'[t] = n.IsRunning[t]
  BY <1>1, <1>2, <1>3, Zenon
<1>6. \A t \in Timer : Timestamp'[t] <= Longest
  BY LongestType, <1>2, SMT DEF Sound
<1>7. Mem' \in Memory
  BY <1>1, <1>2, <1>4, <1>5, MemNextType, Zenon
<1>8. Similar(n, Mem') /\ Mem'.alarm = n.alarm
  BY <1>2, <1>4, <1>5, <1>6, <1>7, MemIsNext, ZenonT(60) DEF Similar, Sound
<1> QED
  BY <1>2, <1>8, SimilarSound, Zenon

(* g gives the timers that stay listed their times and a started timer     *)
(* its delay; n has moved them all on by its lead.                         *)
FromMem(n, g) ==
    /\ Sound(n) /\ Listed(n.list) = DOMAIN g
    /\ \A t \in Listed(n.list) : n.lead <= g[t] /\ Left(n)[t] = g[t] - n.lead
    /\ \A t \in DOMAIN g : g[t] = IF t \in Listed(list) THEN Left(Mem)[t] ELSE ReloadValue[t]

LEMMA FromMemTypes ==
    ASSUME ListInv, NEW n, NEW g, FromMem(n, g), NEW t \in Listed(n.list)
    PROVE  t \in Timer /\ g[t] \in Nat /\ \E v \in AllDelays : v \in Nat /\ g[t] <= v
<1>1. n.list \in Seq(Timer)
  BY SoundEncodes, Zenon DEF FromMem
<1>2. t \in Timer
  BY <1>1, ListPlaces, Zenon
<1>3. \A v \in AllDelays : v \in Nat
  BY TimerAssumption, LongestType, SMT DEF Range, AllDelays
<1>4. CASE t \in Listed(list)
  BY <1>4, SoundEncodes, MemIs, <1>2, <1>3, SMTT(60) DEF FromMem, ListInv, WithinValues
<1>5. CASE t \notin Listed(list)
  BY <1>5, <1>2, LongestType, TimerAssumption, SMT DEF FromMem, ListInv, HandlerTypeOK, Range, AllDelays
<1> QED
  BY <1>4, <1>5, Zenon

(* The history goes with the times. *)
LEMMA TrackKeeps ==
    ASSUME ListInv, NEW n, NEW g, FromMem(n, g), Track(n), SetMem(n)
    PROVE  /\ Tracked' /\ WithinValues'
           /\ due' \in [Timer -> Int] /\ late' \in [Timer -> Nat] /\ lead' \in [Timer -> Nat]
<1>1. /\ due \in [Timer -> Int] /\ late \in [Timer -> Nat] /\ lead \in [Timer -> Nat]
      /\ \A t \in Timer : ReloadValue[t] \in Nat
  BY LongestType, SMT DEF ListInv, HandlerTypeOK
<1>2. list' = n.list /\ Left(Mem') = Left(n) /\ n.lead \in Nat
  BY SoundEncodes, SetMemCarries, MemoryFields, SMT DEF FromMem
<1>3. PICK e \in Nat : e = n.lead
  BY <1>2, Zenon
<1>4. /\ due' = [t \in Timer |-> IF t \notin Listed(n.list) THEN 0
                                 ELSE IF t \notin Listed(list) THEN ReloadValue[t] ELSE due[t]]
      /\ late' = [t \in Timer |-> IF t \notin Listed(n.list) \/ t \notin Listed(list) THEN 0 ELSE late[t]]
      /\ lead' = [t \in Timer |-> IF t \notin Listed(n.list) THEN 0
                                  ELSE IF t \notin Listed(list) THEN e ELSE lead[t] + e]
  BY <1>3, Zenon DEF Track
<1>5. /\ due' \in [Timer -> Int] /\ late' \in [Timer -> Nat] /\ lead' \in [Timer -> Nat]
  BY <1>1, <1>4, SMT
<1>6. ASSUME NEW t \in Listed(n.list)
      PROVE  /\ due'[t] - lead'[t] <= Left(n)[t] /\ Left(n)[t] <= due'[t] + late'[t]
             /\ \E v \in AllDelays : Left(n)[t] <= v
  <2>1. PICK v \in AllDelays : t \in Timer /\ g[t] \in Nat /\ v \in Nat /\ g[t] <= v
    BY FromMemTypes, Zenon
  <2>2. PICK x \in Nat : x = g[t]
    BY <2>1, Zenon
  <2>3. Left(n)[t] = x - e /\ e <= x /\ t \in DOMAIN g
    BY <1>3, <2>2, Zenon DEF FromMem
  <2>4. CASE t \in Listed(list)
    BY <1>1, <2>1, <1>4, <2>4, <2>2, <2>3, SMTT(60) DEF FromMem, ListInv, Tracked
  <2>5. CASE t \notin Listed(list)
    BY <2>2, <2>3, <2>5, <1>4, <2>1, SMTT(60) DEF FromMem
  <2> QED
    BY <2>4, <2>5, Zenon
<1>7. Tracked'
  BY <1>2, <1>6, Zenon DEF Tracked
<1>8. WithinValues'
  BY <1>2, <1>6, Zenon DEF WithinValues
<1> QED
  BY <1>5, <1>7, <1>8, Zenon

LEMMA FollowsFromMem ==
    ASSUME NEW n, NEW g, Follows(Mem, n, g),
           \A t \in DOMAIN g : g[t] = IF t \in Listed(list) THEN Left(Mem)[t] ELSE ReloadValue[t]
    PROVE  FromMem(n, g)
BY Zenon DEF Follows, FromMem

(* A call of the timer module. *)
LEMMA CallKeeps ==
    ASSUME ListInv, pc \in {"idle", "callback"}, NEW n, NEW g, Follows(Mem, n, g), FromMem(n, g), Call(n),
           ReloadValue' \in [Timer -> 1..Longest] /\ \A t \in Timer : ReloadValue'[t] \in Delays[t]
    PROVE  ListInv'
<1>1. SetMem(n) /\ Track(n) /\ UNCHANGED <<asleep, pending, pc, irqElapsed, waited>>
  BY Zenon DEF Call, handler
<1>2. /\ Sound(Mem') /\ Left(Mem') = Left(n) /\ (Runs(Mem') <=> Runs(n)) /\ (OnTime(n) => OnTime(Mem'))
      /\ list' = n.list /\ elapsed' = n.elapsed
  <2>1. Sound(n)
    BY Zenon DEF Follows
  <2> QED
    BY <1>1, <2>1, SetMemCarries, Zenon
<1>3. /\ Tracked' /\ WithinValues'
      /\ due' \in [Timer -> Int] /\ late' \in [Timer -> Nat] /\ lead' \in [Timer -> Nat]
  BY <1>1, TrackKeeps, Zenon
<1>4. HandlerTypeOK'
  BY <1>1, <1>3, Zenon DEF HandlerTypeOK, ListInv
<1>5. pc # "entry"
  BY Zenon
<1>6. AlarmIsHeads'
  <2>1. list' # <<>> /\ pc \in {"idle", "entry"} => Runs(Mem')
    BY <1>2, MemIs, Zenon DEF AlarmIsHeads, ListInv, Follows
  <2>2. ~pending => OnTime(Mem')
    BY <1>2, <1>5, Zenon DEF AlarmIsHeads, ListInv, Follows
  <2> QED
    BY <1>1, <1>5, <2>1, <2>2, Zenon DEF AlarmIsHeads
<1>7. ElapsedBounded'
  <2> SUFFICES ASSUME Runs(Mem') PROVE elapsed' <= Longest + waited' + Grace'
    BY Zenon DEF ElapsedBounded
  <2>1. elapsed' = 0 \/ (Runs(Mem) /\ elapsed' = elapsed)
    BY <1>2, MemIs, Zenon DEF Follows
  <2>2. Grace' = Grace /\ waited' = waited
    BY <1>1, Zenon DEF Grace
  <2>3. CASE elapsed' = 0
    <3>1. PICK w, o : w = waited /\ o = Grace
      BY Zenon
    <3>2. w \in 0..MaxLatency /\ (o = MaxLatency \/ o = 0)
      BY <3>1, Zenon DEF ListInv, HandlerTypeOK, Grace
    <3>3. 0 <= Longest + w + o
      BY <3>2, LongestType, SMT
    <3> QED
      BY <2>2, <2>3, <3>1, <3>3, Zenon
  <2>4. CASE Runs(Mem) /\ elapsed' = elapsed
    BY <2>2, <2>4, Zenon DEF ListInv, ElapsedBounded
  <2> QED
    BY <2>1, <2>3, <2>4, Zenon
<1> QED
  BY <1>2, <1>3, <1>4, <1>6, <1>7, ZenonT(60) DEF ListInv

LEMMA MayCallIdle ==
    ASSUME ~Preemption, MayCall
    PROVE  pc \in {"idle", "callback"}
BY Zenon DEF MayCall

LEMMA StartKeeps ==
    ASSUME ListInv, ~Preemption, NEW t \in Timer, Start(t)
    PROVE  ListInv'
<1>1. pc \in {"idle", "callback"} /\ Call(TimerStart(Mem, t)) /\ ReloadValue' = ReloadValue
  BY MayCallIdle, Zenon DEF Start
<1>2. ReloadValue \in [Timer -> 1..Longest] /\ \A s \in Timer : ReloadValue[s] \in Delays[s]
  BY Zenon DEF ListInv, HandlerTypeOK
<1>3. Follows(Mem, TimerStart(Mem, t), AfterStart(Mem, t))
  <2>1. Sound(Mem) /\ Mem.lead = 0 /\ ReloadValue[t] \in 1..Longest
    BY <1>2, MemIs, Zenon DEF ListInv
  <2> QED
    BY <2>1, StartFollows, Zenon
<1>4. PICK n, g : n = TimerStart(Mem, t) /\ g = AfterStart(Mem, t)
  BY Zenon
<1>5. Follows(Mem, n, g)
  BY <1>3, <1>4, Zenon
<1>6. \A s \in DOMAIN g : g[s] = IF s \in Listed(list) THEN Left(Mem)[s] ELSE ReloadValue[s]
  <2>1. DOMAIN Left(Mem) = Listed(list)
    BY SoundEncodes, MemIs, Zenon DEF ListInv, Encodes
  <2>2. CASE t \in Listed(list)
    BY <1>4, <2>1, <2>2, MemIs, Zenon DEF AfterStart
  <2>3. CASE t \notin Listed(list)
    <3>1. g = Started(list, Left(Mem), t, ReloadValue[t])
      BY <1>4, <2>3, MemIs, Zenon DEF AfterStart
    <3> QED
      BY <2>3, <3>1, Zenon DEF Started
  <2> QED
    BY <2>2, <2>3, Zenon
<1>7. FromMem(n, g)
  BY <1>5, <1>6, FollowsFromMem, Zenon
<1>8. Call(n)
  BY <1>1, <1>4, Zenon
<1> QED
  BY <1>1, <1>2, <1>5, <1>7, <1>8, CallKeeps, Zenon

(* TimerStop, as it is called and from TimerSetValue. *)
LEMMA StopCallKeeps ==
    ASSUME ListInv, pc \in {"idle", "callback"}, NEW t \in Timer, Call(TimerStop(Mem, t)),
           ReloadValue' \in [Timer -> 1..Longest] /\ \A s \in Timer : ReloadValue'[s] \in Delays[s]
    PROVE  ListInv'
<1>1. Follows(Mem, TimerStop(Mem, t), Stopped(list, Left(Mem), t))
  BY MemIs, StopFollows, SMT DEF ListInv
<1>2. PICK n, g : n = TimerStop(Mem, t) /\ g = Stopped(list, Left(Mem), t)
  BY Zenon
<1>3. Follows(Mem, n, g) /\ Call(n)
  BY <1>1, <1>2, Zenon
<1>4. \A s \in DOMAIN g : g[s] = IF s \in Listed(list) THEN Left(Mem)[s] ELSE ReloadValue[s]
  BY <1>2, Zenon DEF Stopped
<1>5. FromMem(n, g)
  BY <1>3, <1>4, FollowsFromMem, Zenon
<1> QED
  BY <1>3, <1>5, CallKeeps, Zenon

LEMMA StopKeeps ==
    ASSUME ListInv, ~Preemption, NEW t \in Timer, Stop(t)
    PROVE  ListInv'
BY MayCallIdle, StopCallKeeps, SMT DEF Stop, ListInv, HandlerTypeOK

LEMMA SetValueKeeps ==
    ASSUME ListInv, ~Preemption, NEW t \in Timer, NEW v \in Delays[t], TimerSetValue(t, v)
    PROVE  ListInv'
BY MayCallIdle, TimerAssumption, StopCallKeeps, Zenon DEF TimerSetValue, ListInv, HandlerTypeOK

(* A step that leaves the list and the history alone. *)
LEMMA QuietStep ==
    ASSUME ListInv, UNCHANGED <<list, Timestamp, IsRunning, elapsed>>, UNCHANGED <<due, late, lead>>,
           alarm' = alarm \/ alarm' = 0, NonScheduledWakeUp' \in BOOLEAN,
           RtcTimerEventAllowsLowPower' \in BOOLEAN, HasLoopedThroughMain' \in 0..LoopsToSleep
    PROVE  /\ Sound(Mem') /\ Left(Mem') = Left(Mem) /\ (Runs(Mem') <=> Runs(Mem))
           /\ alarm' = alarm /\ OnTime(Mem) => OnTime(Mem')
           /\ Tracked' /\ WithinValues'
<1>1. /\ Sound(Mem) /\ Mem \in Memory /\ list \in Seq(Timer) /\ Timestamp \in [Timer -> Nat]
      /\ IsRunning \in [Timer -> BOOLEAN] /\ elapsed \in Nat /\ alarm \in Nat
  BY SoundEncodes, MemoryFields, MemIs, SMT DEF ListInv
<1>2. alarm' \in Nat /\ alarm' <= Word - 1
  BY <1>1, MemIs, LongestType, SMT DEF Sound
<1>3. Mem' \in Memory
  BY <1>1, <1>2, MemNextType, Zenon
<1>4. Similar(Mem, Mem')
  BY <1>1, MemIs, <1>2, <1>3, MemIsNext, SMT DEF Sound, Similar
<1>5. /\ Sound(Mem') /\ Left(Mem') = Left(Mem) /\ (Runs(Mem') <=> Runs(Mem))
      /\ Mem'.alarm = Mem.alarm /\ OnTime(Mem) => OnTime(Mem')
  BY <1>1, <1>4, SimilarSound, Zenon
<1>6. alarm' = alarm /\ OnTime(Mem) => OnTime(Mem')
  BY <1>5, MemIs, MemIsNext, Zenon
<1>7. Tracked'
  BY <1>5, Zenon DEF ListInv, Tracked
<1>8. WithinValues'
  BY <1>5, Zenon DEF ListInv, WithinValues
<1> QED
  BY <1>5, <1>6, <1>7, <1>8, Zenon

LEMMA MemTypes ==
    ASSUME Sound(Mem)
    PROVE  /\ Mem \in Memory /\ list \in Seq(Timer) /\ Timestamp \in [Timer -> Nat]
           /\ IsRunning \in [Timer -> BOOLEAN] /\ elapsed \in Nat /\ alarm \in Nat
           /\ NonScheduledWakeUp \in BOOLEAN /\ RtcTimerEventAllowsLowPower \in BOOLEAN
           /\ HasLoopedThroughMain \in 0..LoopsToSleep
           /\ elapsed <= Word - 1 /\ alarm <= Word - 1 /\ \A t \in Timer : Timestamp[t] <= Longest
BY MemoryFields, MemIs, SMT DEF Sound

LEMMA LowPowerKeeps ==
    ASSUME ListInv, TimerLowPowerHandler
    PROVE  ListInv'
<1>1. /\ UNCHANGED <<list, Timestamp, IsRunning, elapsed, alarm, NonScheduledWakeUp, RtcTimerEventAllowsLowPower>>
      /\ UNCHANGED <<ReloadValue, pending, pc, irqElapsed, waited, due, late, lead>>
  BY Zenon DEF TimerLowPowerHandler, handler, history
<1>2. /\ NonScheduledWakeUp \in BOOLEAN /\ RtcTimerEventAllowsLowPower \in BOOLEAN
      /\ HasLoopedThroughMain \in 0..LoopsToSleep
  BY MemTypes, Zenon DEF ListInv
<1>3. HasLoopedThroughMain' \in 0..LoopsToSleep
  <2>1. \/ HasLoopedThroughMain < LoopsToSleep /\ HasLoopedThroughMain' = HasLoopedThroughMain + 1
        \/ HasLoopedThroughMain' = 0
    BY Zenon DEF TimerLowPowerHandler
  <2>2. LoopsToSleep \in Nat
    BY TimerAssumption, Zenon
  <2> QED
    BY <1>2, <2>1, <2>2, SMT
<1>4. asleep' \in BOOLEAN
  BY <1>2, Zenon DEF TimerLowPowerHandler, ListInv, HandlerTypeOK
<1>5. /\ Sound(Mem') /\ Left(Mem') = Left(Mem) /\ (Runs(Mem') <=> Runs(Mem))
      /\ alarm' = alarm /\ OnTime(Mem) => OnTime(Mem')
      /\ Tracked' /\ WithinValues'
  BY <1>1, <1>2, <1>3, QuietStep, Zenon
<1>6. HandlerTypeOK'
  BY <1>1, <1>4, Zenon DEF ListInv, HandlerTypeOK
<1>7. AlarmIsHeads'
  BY <1>1, <1>5, Zenon DEF ListInv, AlarmIsHeads
<1>8. ElapsedBounded'
  BY <1>1, <1>5, ZenonT(60) DEF ListInv, ElapsedBounded, Grace
<1> QED
  BY <1>5, <1>6, <1>7, <1>8, Zenon DEF ListInv

LEMMA GpioKeeps ==
    ASSUME ListInv, GpioInterrupt
    PROVE  ListInv'
<1>1. /\ UNCHANGED <<list, Timestamp, IsRunning, elapsed, alarm, RtcTimerEventAllowsLowPower, HasLoopedThroughMain>>
      /\ UNCHANGED <<ReloadValue, pending, pc, irqElapsed, waited, due, late, lead>>
      /\ asleep' = FALSE
  BY Zenon DEF GpioInterrupt, handler, history
<1>2. /\ NonScheduledWakeUp' \in BOOLEAN /\ RtcTimerEventAllowsLowPower \in BOOLEAN
      /\ HasLoopedThroughMain \in 0..LoopsToSleep
  BY MemTypes, Zenon DEF ListInv, GpioInterrupt, RtcRecoverMcuStatus
<1>5. /\ Sound(Mem') /\ Left(Mem') = Left(Mem) /\ (Runs(Mem') <=> Runs(Mem))
      /\ alarm' = alarm /\ OnTime(Mem) => OnTime(Mem')
      /\ Tracked' /\ WithinValues'
  BY <1>1, <1>2, QuietStep, Zenon
<1>6. HandlerTypeOK'
  BY <1>1, Zenon DEF ListInv, HandlerTypeOK
<1>7. AlarmIsHeads'
  BY <1>1, <1>5, Zenon DEF ListInv, AlarmIsHeads
<1>8. ElapsedBounded'
  BY <1>1, <1>5, Zenon DEF ListInv, ElapsedBounded, Grace
<1> QED
  BY <1>5, <1>6, <1>7, <1>8, Zenon DEF ListInv

LEMMA AlarmInterruptKeeps ==
    ASSUME ListInv, RTC_Alarm_IRQHandler
    PROVE  ListInv'
<1>1. /\ UNCHANGED <<list, Timestamp, IsRunning, elapsed, RtcTimerEventAllowsLowPower, HasLoopedThroughMain>>
      /\ UNCHANGED <<ReloadValue, waited, due, late, lead>>
      /\ pc = "idle" /\ pc' = "entry" /\ asleep' = FALSE /\ pending' = FALSE /\ alarm' = 0 /\ irqElapsed' = elapsed
  BY Zenon DEF RTC_Alarm_IRQHandler, history
<1>2. /\ NonScheduledWakeUp' \in BOOLEAN /\ RtcTimerEventAllowsLowPower \in BOOLEAN
      /\ HasLoopedThroughMain \in 0..LoopsToSleep
  BY MemTypes, Zenon DEF ListInv, RTC_Alarm_IRQHandler, RtcRecoverMcuStatus
<1>3. elapsed \in 0..(Word - 1)
  BY MemTypes, LongestType, SMT DEF ListInv
<1>5. /\ Sound(Mem') /\ Left(Mem') = Left(Mem) /\ (Runs(Mem') <=> Runs(Mem))
      /\ Tracked' /\ WithinValues'
  BY <1>1, <1>2, QuietStep, Zenon
<1>6. HandlerTypeOK'
  BY <1>1, <1>3, Zenon DEF ListInv, HandlerTypeOK
<1>7. AlarmIsHeads'
  BY <1>1, <1>5, Zenon DEF ListInv, AlarmIsHeads
<1>8. ElapsedBounded'
  BY <1>1, <1>5, ZenonT(60) DEF ListInv, ElapsedBounded, Grace
<1> QED
  BY <1>5, <1>6, <1>7, <1>8, Zenon DEF ListInv

LEMMA HandlerEmptyKeeps ==
    ASSUME ListInv, TimerIrqHandlerEmpty
    PROVE  ListInv'
<1>1. /\ UNCHANGED <<list, Timestamp, IsRunning, elapsed, alarm, NonScheduledWakeUp, RtcTimerEventAllowsLowPower,
                     HasLoopedThroughMain>>
      /\ UNCHANGED <<ReloadValue, asleep, pending, due, late, lead>>
      /\ list = <<>> /\ pc' \in {"fault", "idle"} /\ waited' = 0 /\ irqElapsed' = 0
  BY Zenon DEF TimerIrqHandlerEmpty, history, memory
<1>2. /\ NonScheduledWakeUp \in BOOLEAN /\ RtcTimerEventAllowsLowPower \in BOOLEAN
      /\ HasLoopedThroughMain \in 0..LoopsToSleep
  BY MemTypes, Zenon DEF ListInv
<1>3. 0 \in 0..(Word - 1) /\ 0 \in 0..MaxLatency
  BY LongestType, SMT
<1>5. /\ Sound(Mem') /\ Left(Mem') = Left(Mem) /\ (Runs(Mem') <=> Runs(Mem))
      /\ Tracked' /\ WithinValues'
  BY <1>1, <1>2, QuietStep, Zenon
<1>6. HandlerTypeOK'
  BY <1>1, <1>3, Zenon DEF ListInv, HandlerTypeOK
<1>7. ~Runs(Mem')
  BY <1>1, <1>5, MemIs, Zenon DEF Runs
<1>8. AlarmIsHeads'
  BY <1>1, <1>7, Zenon DEF AlarmIsHeads, OnTime
<1>9. ElapsedBounded'
  BY <1>7, Zenon DEF ElapsedBounded
<1> QED
  BY <1>5, <1>6, <1>8, <1>9, Zenon DEF ListInv

LEMMA CallbackReturnsKeeps ==
    ASSUME ListInv, CallbackReturns
    PROVE  ListInv'
BY MemTypes, QuietStep, SMT DEF CallbackReturns, history, memory, ListInv, HandlerTypeOK, AlarmIsHeads,
   ElapsedBounded, Grace

LEMMA HandlerCharges ==
    ASSUME ListInv, TimerIrqHandler
    PROVE  Sound(Mem') /\ Left(Mem') = Left(Mem) /\ ~Runs(Mem')
<1>1. /\ pc = "entry" /\ list # <<>> /\ pc' = "loop" /\ irqElapsed' = 0
      /\ Timestamp' = [Timestamp EXCEPT ![Head(list)] = IF irqElapsed >= Timestamp[Head(list)] THEN 0
                                                        ELSE Timestamp[Head(list)] - irqElapsed]
      /\ IsRunning' = [IsRunning EXCEPT ![Head(list)] = FALSE]
      /\ UNCHANGED <<list, elapsed, alarm, NonScheduledWakeUp, RtcTimerEventAllowsLowPower, HasLoopedThroughMain>>
      /\ UNCHANGED <<ReloadValue, asleep, pending, waited, due, late, lead>>
  BY Zenon DEF TimerIrqHandler, history
<1>2. Sound(Mem) /\ Runs(Mem) /\ irqElapsed = elapsed
  BY <1>1, Zenon DEF ListInv, AlarmIsHeads
<1>3. /\ Mem \in Memory /\ list \in Seq(Timer) /\ Timestamp \in [Timer -> Nat]
      /\ IsRunning \in [Timer -> BOOLEAN] /\ elapsed \in Nat /\ alarm \in Nat
      /\ NonScheduledWakeUp \in BOOLEAN /\ RtcTimerEventAllowsLowPower \in BOOLEAN
      /\ HasLoopedThroughMain \in 0..LoopsToSleep
  BY <1>2, MemTypes, Zenon
<1>4. Head(list) = list[1] /\ list[1] \in Timer
  BY <1>1, <1>3, ListPlaces, Zenon
<1>5. PICK h \in Timer : h = list[1]
  BY <1>4, Zenon
<1>6. PICK x \in Nat : x = Timestamp[h]
  BY <1>3, Zenon
<1>7. PICK r : r = Remaining(Mem)
  BY Zenon
<1>8. r = (IF irqElapsed >= x THEN 0 ELSE x - irqElapsed) /\ r \in Nat
  BY <1>2, <1>4, <1>5, <1>6, <1>7, MemIs, <1>3, SMTT(60) DEF Remaining, Runs
<1>9. Timestamp' = [Timestamp EXCEPT ![h] = r] /\ IsRunning' = [IsRunning EXCEPT ![h] = FALSE]
  BY <1>1, <1>4, <1>5, <1>6, <1>8, ZenonT(60)
<1>10. Mem' \in Memory
  BY <1>3, <1>8, <1>9, <1>1, MemNextType, SMTT(60)
<1>11. Charged(Mem, Mem')
  BY <1>1, <1>5, <1>7, <1>9, <1>10, MemIs, MemIsNext, ZenonT(60) DEF Charged
<1> QED
  BY <1>2, <1>11, ChargedSound, Zenon

LEMMA HandlerKeeps ==
    ASSUME ListInv, TimerIrqHandler
    PROVE  ListInv'
<1>1. /\ pc = "entry" /\ list # <<>> /\ pc' = "loop" /\ irqElapsed' = 0
      /\ Timestamp' = [Timestamp EXCEPT ![Head(list)] = IF irqElapsed >= Timestamp[Head(list)] THEN 0
                                                        ELSE Timestamp[Head(list)] - irqElapsed]
      /\ IsRunning' = [IsRunning EXCEPT ![Head(list)] = FALSE]
      /\ UNCHANGED <<list, elapsed, alarm, NonScheduledWakeUp, RtcTimerEventAllowsLowPower, HasLoopedThroughMain>>
      /\ UNCHANGED <<ReloadValue, asleep, pending, waited, due, late, lead>>
  BY Zenon DEF TimerIrqHandler, history
<1>12. Sound(Mem') /\ Left(Mem') = Left(Mem) /\ ~Runs(Mem')
  BY HandlerCharges, Zenon
<1>13. Tracked'
  BY <1>1, <1>12, Zenon DEF ListInv, Tracked
<1>14. WithinValues'
  BY <1>1, <1>12, Zenon DEF ListInv, WithinValues
<1>15. HandlerTypeOK'
  BY LongestType, <1>1, SMT DEF ListInv, HandlerTypeOK
<1>16. AlarmIsHeads' /\ ElapsedBounded'
  BY <1>1, <1>12, Zenon DEF AlarmIsHeads, OnTime, ElapsedBounded
<1> QED
  BY <1>12, <1>13, <1>14, <1>15, <1>16, ZenonT(60) DEF ListInv

LEMMA ExpireKeeps ==
    ASSUME ListInv, Expire
    PROVE  ListInv'
<1>1. /\ pc = "loop" /\ list # <<>> /\ Timestamp[Head(list)] = 0 /\ pc' = "callback"
      /\ SetMem([Mem EXCEPT !.list = Tail(Mem.list)]) /\ Track([Mem EXCEPT !.list = Tail(Mem.list)])
      /\ UNCHANGED <<ReloadValue, asleep, pending, irqElapsed, waited>>
  BY Zenon DEF Expire, HeadExpired
<1>2. Sound(Mem) /\ Mem.lead = 0 /\ Mem.list # <<>> /\ Mem.Timestamp[Mem.list[1]] = 0
  BY MemTypes, <1>1, ListPlaces, MemIs, SMT DEF ListInv
<1>3. PICK n : n = [Mem EXCEPT !.list = Tail(Mem.list)]
  BY Zenon
<1>4. PICK g : g = Stopped(Mem.list, Left(Mem), Mem.list[1])
  BY Zenon
<1>5. CutWaits(Mem, n, g) /\ n.lead = 0
  BY <1>2, <1>3, <1>4, ExpireCut, Zenon
<1>6. Sound(n) /\ ~Runs(n) /\ Left(n) = g /\ g \in [Listed(n.list) -> Nat]
  BY <1>5, Zenon DEF CutWaits
<1>7. FromMem(n, g)
  BY <1>6, <1>5, <1>4, MemIs, SMT DEF Stopped, FromMem
<1>8. SetMem(n) /\ Track(n)
  BY <1>1, <1>3, Zenon
<1>9. Sound(Mem') /\ ~Runs(Mem')
  BY <1>6, <1>8, SetMemCarries, Zenon
<1>10. /\ Tracked' /\ WithinValues'
       /\ due' \in [Timer -> Int] /\ late' \in [Timer -> Nat] /\ lead' \in [Timer -> Nat]
  BY <1>7, <1>8, TrackKeeps, Zenon
<1>11. HandlerTypeOK'
  BY <1>1, <1>10, Zenon DEF ListInv, HandlerTypeOK
<1>12. AlarmIsHeads' /\ ElapsedBounded'
  BY <1>1, <1>9, Zenon DEF AlarmIsHeads, OnTime, ElapsedBounded
<1> QED
  BY <1>9, <1>10, <1>11, <1>12, Zenon DEF ListInv

LEMMA MemFromMem ==
    ASSUME ListInv
    PROVE  FromMem(Mem, Left(Mem))
BY SoundEncodes, MemIs, NothingFollows, SMT DEF ListInv, Encodes, Follows, FromMem

(* The end of TimerIrqHandler leaves a running head, with its alarm set. *)
Ended(n) ==
    /\ FromMem(n, Left(Mem)) /\ (n.list # <<>> => Runs(n)) /\ (OnTime(Mem) => OnTime(n))
    /\ Runs(n) => n.elapsed = 0 \/ (Runs(Mem) /\ n.elapsed = elapsed)

LEMMA EndFromMem ==
    ASSUME ListInv, TimerIrqHandlerEnd
    PROVE  \E n : SetMem(n) /\ Track(n) /\ Ended(n)
<1>1. ~HeadExpired
  BY Zenon DEF TimerIrqHandlerEnd
<1>2. PICK n : /\ n = IF list = <<>> THEN Mem ELSE IF IsRunning[Head(list)] THEN Mem
                      ELSE TimerSetTimeout([Mem EXCEPT !.IsRunning[Head(list)] = TRUE])
               /\ SetMem(n) /\ Track(n)
  BY Zenon DEF TimerIrqHandlerEnd
<1>3. Sound(Mem) /\ list \in Seq(Timer) /\ Timestamp \in [Timer -> Nat]
  BY MemTypes, Zenon DEF ListInv
<1>4. list # <<>> => Head(list) = list[1] /\ list[1] \in Timer
  BY <1>3, ListPlaces, Zenon
<1>5. Ended(n)
  <2> USE DEF Ended
  <2>1. CASE list = <<>> \/ IsRunning[Head(list)]
    BY <1>2, <1>4, <2>1, MemIs, MemFromMem, SMT DEF Runs
  <2>2. CASE list # <<>> /\ ~IsRunning[Head(list)]
    <3>1. n = TimerSetTimeout([Mem EXCEPT !.IsRunning[Mem.list[1]] = TRUE])
      BY <1>2, <1>4, <2>2, MemIs, Zenon
    <3>2. Mem.list # <<>> /\ ~Mem.IsRunning[Mem.list[1]]
      BY <1>4, <2>2, MemIs, Zenon
    <3>3. /\ Sound(n) /\ n.list = Mem.list /\ Runs(n) /\ n.elapsed = 0
          /\ \A t \in Listed(n.list) : n.lead <= Left(Mem)[t] /\ Left(n)[t] = Left(Mem)[t] - n.lead
          /\ Mem.Timestamp[Mem.list[1]] > 0 => OnTime(n)
      BY <1>3, <3>1, <3>2, EndSetsAlarm, ZenonT(60)
    <3>4. Mem.Timestamp[Mem.list[1]] > 0
      BY <1>3, <1>4, <2>2, <1>1, MemIs, SMTT(60) DEF HeadExpired
    <3>5. DOMAIN Left(Mem) = Listed(list)
      BY <1>3, SoundEncodes, MemIs, Zenon DEF Encodes
    <3>6. FromMem(n, Left(Mem))
      BY <3>3, <3>5, MemIs, Zenon DEF FromMem
    <3> QED
      BY <3>3, <3>4, <3>6, Zenon
  <2> QED
    BY <2>1, <2>2, Zenon
<1> QED
  BY <1>2, <1>5, Zenon

LEMMA EndKeeps ==
    ASSUME ListInv, TimerIrqHandlerEnd
    PROVE  ListInv'
<1>1. /\ pc = "loop" /\ ~HeadExpired /\ pc' = "idle" /\ waited' = 0
      /\ UNCHANGED <<ReloadValue, asleep, pending, irqElapsed>>
  BY Zenon DEF TimerIrqHandlerEnd
<1>2. PICK n : SetMem(n) /\ Track(n) /\ Ended(n)
  BY EndFromMem, Zenon
<1>5. /\ FromMem(n, Left(Mem)) /\ (n.list # <<>> => Runs(n)) /\ (OnTime(Mem) => OnTime(n))
      /\ Runs(n) => n.elapsed = 0 \/ (Runs(Mem) /\ n.elapsed = elapsed)
  BY <1>2, Zenon DEF Ended
<1>6. /\ Sound(Mem') /\ (Runs(Mem') <=> Runs(n)) /\ (OnTime(n) => OnTime(Mem'))
      /\ list' = n.list /\ elapsed' = n.elapsed
  <2>1. Sound(n)
    BY <1>5, Zenon DEF FromMem
  <2> QED
    BY <1>2, <2>1, SetMemCarries, Zenon
<1>7. /\ Tracked' /\ WithinValues'
      /\ due' \in [Timer -> Int] /\ late' \in [Timer -> Nat] /\ lead' \in [Timer -> Nat]
  <2>1. PICK g : g = Left(Mem)
    BY Zenon
  <2> QED
    BY <1>2, <1>5, <2>1, TrackKeeps, Zenon
<1>8. HandlerTypeOK'
  <2>1. 0 \in 0..MaxLatency
    BY LongestType, SMT
  <2> QED
    BY <1>1, <1>7, <2>1, Zenon DEF ListInv, HandlerTypeOK
<1>9. AlarmIsHeads'
  <2>1. ~pending => OnTime(Mem)
    BY <1>1, Zenon DEF ListInv, AlarmIsHeads
  <2> QED
    BY <1>1, <1>5, <1>6, <2>1, Zenon DEF AlarmIsHeads
<1>10. ElapsedBounded'
  <2> SUFFICES ASSUME Runs(Mem') PROVE elapsed' <= Longest + waited' + Grace'
    BY Zenon DEF ElapsedBounded
  <2>1. Grace' = MaxLatency /\ waited' = 0
    BY <1>1, Zenon DEF Grace
  <2>2. elapsed' = 0 \/ (Runs(Mem) /\ elapsed' = elapsed)
    BY <1>5, <1>6, Zenon
  <2>3. Runs(Mem) => elapsed <= Longest + waited + 0
    BY <1>1, Zenon DEF ListInv, ElapsedBounded, Grace
  <2>4. waited \in 0..MaxLatency /\ elapsed \in Nat
    BY MemTypes, Zenon DEF ListInv, HandlerTypeOK
  <2>5. elapsed' <= Longest + 0 + MaxLatency
    BY <2>2, <2>3, <2>4, LongestType, SMTT(60)
  <2> QED
    BY <2>1, <2>5, Zenon
<1> QED
  BY <1>6, <1>7, <1>8, <1>9, <1>10, ZenonT(60) DEF ListInv

LEMMA HeadRuns ==
    ASSUME Sound(Mem)
    PROVE  HeadRunning <=> Runs(Mem)
BY MemTypes, ListPlaces, MemIs, SMT DEF HeadRunning, Runs

(* Without a pending or handled interrupt the alarm is ahead of a running  *)
(* head.                                                                   *)
LEMMA TickElapsed ==
    ASSUME ListInv, Tick
    PROVE  /\ elapsed' \in Nat /\ elapsed' <= Word - 1
           /\ Runs(Mem) => elapsed' <= Longest + waited' + Grace
           /\ waited' \in 0..MaxLatency
<1>1. /\ pc # "entry" /\ (Handling => waited < MaxLatency)
      /\ elapsed' = (IF HeadRunning THEN elapsed + 1 ELSE 0)
      /\ waited' = (IF Handling THEN waited + 1 ELSE 0)
  BY Zenon DEF Tick
<1>2. Sound(Mem) /\ waited \in 0..MaxLatency
  BY Zenon DEF ListInv, HandlerTypeOK
<1>3. elapsed \in Nat /\ alarm \in Nat /\ Timestamp \in [Timer -> Nat] /\ list \in Seq(Timer)
      /\ \A t \in Timer : Timestamp[t] <= Longest
  BY <1>2, MemTypes, Zenon
<1>4. PICK o : o = Grace
  BY Zenon
<1>5. o = MaxLatency \/ o = 0
  BY <1>4, Zenon DEF Grace
<1>6. CASE ~Runs(Mem)
  BY <1>1, <1>2, <1>6, HeadRuns, LongestType, SMTT(60)
<1>7. CASE Runs(Mem) /\ Handling
  BY <1>1, <1>2, <1>7, HeadRuns, <1>4, <1>3, <1>5, LongestType, SMTT(60) DEF ListInv, ElapsedBounded
<1>8. CASE Runs(Mem) /\ ~Handling
  <2>1. elapsed' = elapsed + 1 /\ waited' = 0
    BY <1>1, <1>2, <1>8, HeadRuns, Zenon
  <2>2. OnTime(Mem) /\ list # <<>>
    BY <1>1, <1>8, MemIs, Zenon DEF ListInv, AlarmIsHeads, Handling, Runs
  <2>3. list[1] \in Timer
    BY <1>3, <2>2, ListPlaces, Zenon
  <2>4. PICK x \in Nat : x = Timestamp[list[1]]
    BY <1>3, <2>3, Zenon
  <2>5. alarm > 0 /\ x = elapsed + alarm /\ x <= Longest
    BY <1>3, <1>8, <2>2, <2>3, <2>4, MemIs, ZenonT(60) DEF OnTime
  <2>6. /\ elapsed' \in Nat /\ elapsed' <= Word - 1 /\ waited' \in 0..MaxLatency
        /\ elapsed' <= Longest + waited' + o
    BY <1>2, <1>3, <1>5, <2>1, <2>5, LongestType, SMTT(60)
  <2> QED
    BY <1>4, <2>6, Zenon
<1> QED
  BY <1>6, <1>7, <1>8, Zenon

(* A tick moves all times left on by the same d. *)
LEMMA TickPasses ==
    ASSUME ListInv, Tick
    PROVE  Ticks(Mem, Mem') /\ alarm' \in Nat /\ \E d : PassedBy(Mem, Mem', d)
<1>1. /\ UNCHANGED <<list, Timestamp, IsRunning, NonScheduledWakeUp, RtcTimerEventAllowsLowPower, HasLoopedThroughMain>>
      /\ elapsed' = (IF HeadRunning THEN elapsed + 1 ELSE 0)
      /\ alarm' = (IF alarm > 0 THEN alarm - 1 ELSE alarm)
  BY Zenon DEF Tick
<1>2. Sound(Mem)
  BY Zenon DEF ListInv
<1>3. /\ list \in Seq(Timer) /\ Timestamp \in [Timer -> Nat]
      /\ IsRunning \in [Timer -> BOOLEAN] /\ elapsed \in Nat /\ alarm \in Nat
      /\ NonScheduledWakeUp \in BOOLEAN /\ RtcTimerEventAllowsLowPower \in BOOLEAN
      /\ HasLoopedThroughMain \in 0..LoopsToSleep /\ alarm <= Word - 1
  BY <1>2, MemTypes, Zenon
<1>4. alarm' \in Nat /\ alarm' <= Word - 1
  BY <1>1, <1>3, LongestType, SMT
<1>5. elapsed' \in Nat /\ elapsed' <= Word - 1
  BY TickElapsed, Zenon
<1>6. Mem' \in Memory
  BY <1>1, <1>3, <1>4, <1>5, MemNextType, Zenon
<1>7. elapsed' = IF Runs(Mem) THEN elapsed + 1 ELSE 0
  BY <1>1, <1>2, HeadRuns, Zenon
<1>8. Ticks(Mem, Mem')
  BY <1>1, <1>4, <1>5, <1>6, <1>7, MemIs, MemIsNext, ZenonT(60) DEF Ticks
<1> QED
  BY <1>2, <1>4, <1>8, TicksPass, Zenon

(* Without handling, a listed timer really loses the tick. *)
LEMMA TickCounts ==
    ASSUME ListInv, Tick, ~Handling, list # <<>>, NEW d, PassedBy(Mem, Mem', d)
    PROVE  d = 1
BY MemTypes, MemIs, SMT DEF Handling, ListInv, AlarmIsHeads, OnTime, PassedBy

LEMMA TickKeeps ==
    ASSUME ListInv, Tick
    PROVE  ListInv'
<1>1. /\ UNCHANGED <<list, Timestamp, IsRunning, ReloadValue, asleep, pc, irqElapsed, lead>>
      /\ pc # "entry"
      /\ elapsed' = (IF HeadRunning THEN elapsed + 1 ELSE 0)
      /\ alarm' = (IF alarm > 0 THEN alarm - 1 ELSE alarm)
      /\ pending' = (pending \/ alarm = 1)
      /\ due' = [t \in Timer |-> IF t \in Listed(list) /\ due[t] > -Word THEN due[t] - 1 ELSE due[t]]
      /\ late' = [t \in Timer |-> IF t \in Listed(list) /\ Handling THEN late[t] + 1 ELSE late[t]]
  BY Zenon DEF Tick
<1>2. Sound(Mem) /\ due \in [Timer -> Int] /\ late \in [Timer -> Nat] /\ lead \in [Timer -> Nat]
  BY Zenon DEF ListInv, HandlerTypeOK
<1>3. list \in Seq(Timer) /\ elapsed \in Nat /\ alarm \in Nat
  BY <1>2, MemTypes, Zenon
<1>4. PICK d : PassedBy(Mem, Mem', d)
  BY TickPasses, Zenon
<1>5. /\ d \in {0, 1} /\ Sound(Mem') /\ (Runs(Mem') <=> Runs(Mem))
      /\ \A t \in Listed(list) : d <= Left(Mem)[t] /\ Left(Mem')[t] = Left(Mem)[t] - d
  BY <1>4, MemIs, Zenon DEF PassedBy
<1>6. ASSUME NEW t \in Listed(list)
      PROVE  /\ t \in Timer /\ list # <<>> /\ Left(Mem)[t] \in Nat
             /\ due[t] - lead[t] <= Left(Mem)[t] /\ Left(Mem)[t] <= due[t] + late[t]
             /\ \E v \in AllDelays : v \in Nat /\ Left(Mem)[t] <= v
  BY <1>3, ListPlaces, <1>2, SoundEncodes, MemIs, MemFromMem, FromMemTypes, ZenonT(60) DEF ListInv, Tracked
<1>7. ASSUME NEW t \in Listed(list)
      PROVE  /\ due'[t] - lead'[t] <= Left(Mem')[t] /\ Left(Mem')[t] <= due'[t] + late'[t]
             /\ \E v \in AllDelays : Left(Mem')[t] <= v
  <2>1. PICK v \in AllDelays : v \in Nat /\ Left(Mem)[t] <= v
    BY <1>6, Zenon
  <2>2. PICK x, u, a, b : x = Left(Mem)[t] /\ u = due[t] /\ a = late[t] /\ b = lead[t]
    BY Zenon
  <2>3. x \in Nat /\ u \in Int /\ a \in Nat /\ b \in Nat /\ u - b <= x /\ x <= u + a /\ x <= v
    BY <1>2, <1>6, <2>1, <2>2, Zenon
  <2>4. PICK y, s, c : y = Left(Mem')[t] /\ s = due'[t] /\ c = late'[t]
    BY Zenon
  <2>5. y = x - d /\ d <= x /\ lead'[t] = b
    BY <1>1, <1>5, <2>2, <2>4, Zenon
  <2>6. s = (IF u > -Word THEN u - 1 ELSE u)
    BY <1>1, <1>6, <2>2, <2>4, ZenonT(60)
  <2>7. (c = a + 1) \/ (c = a /\ d = 1)
    BY <1>1, <1>6, <2>2, <2>4, <1>4, TickCounts, SMTT(60)
  <2>8. s - b <= y /\ y <= s + c /\ y <= v
    BY <1>5, <2>1, <2>3, <2>5, <2>6, <2>7, LongestType, SMTT(60)
  <2> QED
    BY <2>1, <2>4, <2>5, <2>8, Zenon
<1>8. Tracked'
  BY <1>1, <1>7, Zenon DEF Tracked
<1>9. WithinValues'
  BY <1>1, <1>7, Zenon DEF WithinValues
<1>10. HandlerTypeOK'
  BY <1>1, <1>2, TickElapsed, SMT DEF ListInv, HandlerTypeOK
<1>11. ElapsedBounded'
  BY <1>1, <1>5, TickElapsed, Zenon DEF ElapsedBounded, Grace
<1>12. ~pending' => OnTime(Mem')
  <2> SUFFICES ASSUME ~pending', Runs(Mem')
               PROVE  alarm' > 0 /\ Timestamp[list[1]] = elapsed' + alarm'
    BY <1>1, MemIsNext, Zenon DEF OnTime
  <2>1. ~pending /\ alarm # 1 /\ Runs(Mem)
    BY <1>1, <1>5, Zenon
  <2>2. alarm > 0 /\ Timestamp[list[1]] = elapsed + alarm
    BY <1>1, <2>1, MemIs, Zenon DEF ListInv, AlarmIsHeads, OnTime
  <2>3. elapsed' = elapsed + 1 /\ alarm' = alarm - 1
    BY <1>1, <1>2, <2>1, <2>2, HeadRuns, ZenonT(60)
  <2>4. alarm' > 0 /\ elapsed + alarm = elapsed' + alarm'
    BY <1>3, <2>1, <2>2, <2>3, SMT
  <2> QED
    BY <2>2, <2>4, Zenon
<1>13. AlarmIsHeads'
  BY <1>1, <1>5, <1>12, Zenon DEF ListInv, AlarmIsHeads
<1> QED
  BY <1>5, <1>8, <1>9, <1>10, <1>11, <1>13, ZenonT(60) DEF ListInv

LEMMA InitInv ==
    ASSUME ListInit
    PROVE  ListInv
<1>1. /\ list = <<>> /\ Timestamp = [t \in Timer |-> 0] /\ IsRunning = [t \in Timer |-> FALSE]
      /\ elapsed = 0 /\ alarm = 0 /\ NonScheduledWakeUp = FALSE /\ RtcTimerEventAllowsLowPower = FALSE
      /\ HasLoopedThroughMain = 0 /\ asleep = FALSE /\ pending = FALSE /\ pc = "idle" /\ irqElapsed = 0
      /\ waited = 0 /\ due = [t \in Timer |-> 0] /\ late = [t \in Timer |-> 0] /\ lead = [t \in Timer |-> 0]
  BY Zenon DEF ListInit
<1>2. \A t \in Timer : ReloadValue[t] \in Delays[t]
  BY Zenon DEF ListInit
<1>3. ReloadValue \in [Timer -> 1..Longest]
  BY <1>2, TimerAssumption, SMT DEF ListInit
<1>4. PICK z : z = 0
  BY Zenon
<1>5. /\ z \in Nat /\ z \in Int /\ z \in 0..LoopsToSleep /\ z \in 0..(Word - 1) /\ z \in 0..MaxLatency
      /\ z <= Longest /\ z <= Word - 1 /\ LoopsToSleep \in Nat
  BY TimerAssumption, <1>4, LongestType, SMT
<1>6. list \in Seq(Timer) /\ Len(list) = 0 /\ DOMAIN list = 1..0
  BY <1>1, SMT
<1>7. Listed(list) = {} /\ Distinct(list) /\ \A i \in 2..Len(list) : FALSE
  <2>1. \A i \in 1..0 : FALSE
    BY SMT
  <2>2. \A i \in 2..0 : FALSE
    BY SMT
  <2>3. Listed(list) = {}
    BY <1>1, <1>6, ListPlaces, Zenon
  <2> QED
    BY <1>6, <2>1, <2>2, <2>3, Zenon DEF Distinct
<1>8. Mem \in Memory
  BY <1>1, <1>4, <1>5, <1>6, ZenonT(60) DEF Mem, Memory
<1>9. Sound(Mem)
  BY <1>1, <1>4, <1>5, <1>7, <1>8, MemIs, SMTT(60) DEF Sound
<1>10. HandlerTypeOK
  BY <1>1, <1>4, <1>5, <1>2, <1>3, ZenonT(60) DEF HandlerTypeOK
<1>11. ~Runs(Mem)
  BY <1>1, MemIs, Zenon DEF Runs
<1>12. AlarmIsHeads /\ ElapsedBounded
  BY <1>1, <1>11, Zenon DEF AlarmIsHeads, ElapsedBounded, OnTime
<1>13. Tracked /\ WithinValues
  BY <1>7, Zenon DEF Tracked, WithinValues
<1> QED
  BY <1>9, <1>10, <1>12, <1>13, Zenon DEF ListInv

LEMMA StutterInv ==
    ASSUME ListInv, UNCHANGED listVars
    PROVE  ListInv'
<1>1. /\ UNCHANGED <<list, Timestamp, IsRunning, elapsed, alarm, NonScheduledWakeUp, RtcTimerEventAllowsLowPower,
                     HasLoopedThroughMain>>
      /\ UNCHANGED <<ReloadValue, asleep, pending, pc, irqElapsed, waited, due, late, lead>>
  BY Zenon DEF listVars, memory, handler, history
<1>2. Mem' = Mem
  BY <1>1, Zenon DEF Mem
<1>3. HandlerTypeOK'
  BY <1>1, Zenon DEF ListInv, HandlerTypeOK
<1>4. AlarmIsHeads' /\ ElapsedBounded'
  BY <1>1, <1>2, Zenon DEF ListInv, AlarmIsHeads, ElapsedBounded, Grace
<1>5. Tracked' /\ WithinValues'
  BY <1>1, <1>2, Zenon DEF ListInv, Tracked, WithinValues
<1> QED
  BY <1>2, <1>3, <1>4, <1>5, Zenon DEF ListInv

LEMMA NextInv ==
    ASSUME ~Preemption, ListInv, ListNext
    PROVE  ListInv'
<1>1. CASE Tick
  BY <1>1, TickKeeps, Zenon
<1>2. CASE RTC_Alarm_IRQHandler
  BY <1>2, AlarmInterruptKeeps, ZenonT(60)
<1>3. CASE TimerIrqHandler
  BY <1>3, HandlerKeeps, Zenon
<1>4. CASE TimerIrqHandlerEmpty
  BY <1>4, HandlerEmptyKeeps, Zenon
<1>5. CASE Expire
  BY <1>5, ExpireKeeps, Zenon
<1>6. CASE CallbackReturns
  BY <1>6, CallbackReturnsKeeps, Zenon
<1>7. CASE TimerIrqHandlerEnd
  BY <1>7, EndKeeps, Zenon
<1>8. CASE TimerLowPowerHandler
  BY <1>8, LowPowerKeeps, Zenon
<1>9. CASE GpioInterrupt
  BY <1>9, GpioKeeps, Zenon
<1>10. ASSUME NEW t \in Timer, Start(t) PROVE ListInv'
  BY <1>10, StartKeeps, Zenon
<1>11. ASSUME NEW t \in Timer, Stop(t) PROVE ListInv'
  BY <1>11, StopKeeps, Zenon
<1>12. ASSUME NEW t \in Timer, NEW v \in Delays[t], TimerSetValue(t, v) PROVE ListInv'
  BY <1>12, SetValueKeeps, Zenon
<1> QED
  BY <1>1, <1>2, <1>3, <1>4, <1>5, <1>6, <1>7, <1>8, <1>9, <1>10, <1>11, <1>12, ZenonT(60) DEF ListNext, Serve

(* The inductive invariant: the delta list counts, its head has the alarm  *)
(* and the times left agree with the history of every timer.               *)
THEOREM ListInvariant ==
    ASSUME ~Preemption
    PROVE  ListSpec => []ListInv
<1>1. ListInit => ListInv
  BY InitInv
<1>2. ListInv /\ [ListNext]_listVars => ListInv'
  BY NextInv, StutterInv
<1> QED
  BY <1>1, <1>2, PTL DEF ListSpec

(* Every variable keeps its type and no timer is listed twice, however     *)
(* TimerStart, TimerStop and the alarm handler of timer.c follow each      *)
(* other.                                                                  *)
THEOREM TimersAreTyped ==
    ASSUME ~Preemption
    PROVE  ListSpec => []ListTypeOK
<1>1. ListInv => ListTypeOK
  BY MemTypes, LongestType, MemIs, SMTT(60) DEF ListInv, Sound, Distinct, HandlerTypeOK, ListTypeOK
<1> QED
  BY <1>1, ListInvariant, PTL

(* No timer is forgotten: TimerInsertNewHeadTimer, TimerStop and           *)
(* TimerIrqHandler always hand the one RTC alarm on to the head.           *)
THEOREM HeadIsServed ==
    ASSUME ~Preemption
    PROVE  ListSpec => []ListIsServed
<1>1. ListInv => ListIsServed
  <2> SUFFICES ASSUME ListInv, list # <<>>, pc = "idle"
               PROVE  IsRunning[Head(list)] /\ (pending \/ alarm \in 1..Max({1, Remaining(Mem)}))
    BY Zenon DEF ListIsServed
  <2>1. Sound(Mem) /\ Runs(Mem) /\ (~pending => OnTime(Mem))
    BY Zenon DEF ListInv, AlarmIsHeads
  <2>2. list \in Seq(Timer) /\ elapsed \in Nat /\ alarm \in Nat
    BY <2>1, MemTypes, Zenon
  <2>3. Head(list) = list[1] /\ IsRunning[list[1]]
    BY <2>1, <2>2, ListPlaces, MemIs, Zenon DEF Runs
  <2>4. ASSUME ~pending PROVE alarm \in 1..Max({1, Remaining(Mem)})
    <3>1. alarm > 0 /\ Timestamp[list[1]] = elapsed + alarm
      BY <2>1, <2>4, MemIs, Zenon DEF OnTime
    <3>2. Remaining(Mem) = alarm
      BY <2>3, <3>1, MemIs, <2>2, SMT DEF Remaining
    <3> DEFINE T == {1, alarm}
    <3>3. T \subseteq 0..alarm /\ T # {} /\ alarm \in T
      BY <2>2, <3>1, SMT
    <3> HIDE DEF T
    <3>4. Max(T) \in T /\ \A y \in T : Max(T) >= y
      BY <2>2, <3>3, MaxOfNats, Zenon
    <3>5. PICK x : x = Max(T)
      BY Zenon
    <3>6. x \in 0..alarm /\ x >= alarm
      BY <3>3, <3>4, <3>5, Zenon
    <3>7. alarm \in 1..x
      BY <2>2, <3>1, <3>6, SMTT(60)
    <3> QED
      BY <3>2, <3>5, <3>7, Zenon DEF T
  <2> QED
    BY <2>3, <2>4, Zenon
<1> QED
  BY <1>1, ListInvariant, PTL

(* Whatever timers are started, stopped and expired around it, the delta   *)
(* list of timer.c keeps the time of every timer to the compensation it    *)
(* was given and the time lost to interrupts.                              *)
THEOREM TimersExpireWhenDue ==
    ASSUME ~Preemption
    PROVE  ListSpec => []ExpiresWhenDue
<1>1. ListInv => ExpiresWhenDue
  <2> SUFFICES ASSUME ListInv, NEW t \in Listed(list)
               PROVE  Left(Mem)[t] \in (due[t] - lead[t])..(due[t] + late[t])
    BY Zenon DEF ExpiresWhenDue
  <2>1. Sound(Mem) /\ due \in [Timer -> Int] /\ late \in [Timer -> Nat] /\ lead \in [Timer -> Nat]
    BY Zenon DEF ListInv, HandlerTypeOK
  <2>2. t \in Timer /\ Left(Mem)[t] \in Nat
    BY <2>1, MemTypes, ListPlaces, SoundEncodes, MemIs, ZenonT(60)
  <2>3. PICK x, u, a, b : x = Left(Mem)[t] /\ u = due[t] /\ a = late[t] /\ b = lead[t]
    BY Zenon
  <2>4. x \in Nat /\ u \in Int /\ a \in Nat /\ b \in Nat /\ u - b <= x /\ x <= u + a
    BY <2>1, <2>2, <2>3, ZenonT(60) DEF ListInv, Tracked
  <2>5. x \in (u - b)..(u + a)
    BY <2>4, SMT
  <2> QED
    BY <2>3, <2>5, Zenon
<1> QED
  BY <1>1, ListInvariant, PTL

-----------------------------------------------------------------------------
(***************************************************************************)
(* Refinement.                                                             *)
(***************************************************************************)
(* All timers of g have moved on by one time. *)
Elapsed(g) ==
    \E d \in 0..Max(AllDelays) : /\ \A t \in DOMAIN g : d <= g[t]
                                 /\ Left(Mem') = [t \in DOMAIN g |-> g[t] - d]

LEMMA DelaysBounded ==
    Max(AllDelays) \in Nat /\ \A v \in AllDelays : v \in Nat /\ v <= Max(AllDelays)
BY TimerAssumption, LongestType, MaxOfNats, SMT DEF Range, AllDelays

LEMMA TimesElapse ==
    ASSUME ListInv, NEW n, NEW g, FromMem(n, g), SetMem(n)
    PROVE  Elapsed(g)
<1>1. Sound(n) /\ Listed(n.list) = DOMAIN g /\ \A t \in DOMAIN g : n.lead <= g[t] /\ Left(n)[t] = g[t] - n.lead
  BY Zenon DEF FromMem
<1>2. Left(Mem') = Left(n) /\ Left(n) \in [DOMAIN g -> Nat] /\ n.lead \in Nat
  <2>1. Left(Mem') = Left(n)
    BY <1>1, SetMemCarries, Zenon
  <2>2. n \in Memory /\ Left(n) \in [Listed(n.list) -> Nat]
    BY <1>1, SoundEncodes, Zenon DEF Encodes
  <2> QED
    BY <1>1, <2>1, <2>2, MemoryFields, Zenon
<1>3. CASE DOMAIN g = {}
  <2>1. PICK z : z = 0
    BY Zenon
  <2>2. z \in 0..Max(AllDelays)
    BY <2>1, DelaysBounded, SMT
  <2>3. Left(n) = [t \in DOMAIN g |-> g[t] - z]
    BY <1>2, <1>3, Zenon
  <2> QED
    BY <1>2, <1>3, <2>2, <2>3, Zenon DEF Elapsed
<1>4. CASE DOMAIN g # {}
  <2>1. PICK t \in DOMAIN g : TRUE
    BY <1>4, Zenon
  <2>2. PICK v \in AllDelays : v \in Nat /\ g[t] \in Nat /\ g[t] <= v
    BY <1>1, FromMemTypes, Zenon
  <2>3. PICK x, d, b : x = g[t] /\ d = n.lead /\ b = Max(AllDelays)
    BY Zenon
  <2>4. x \in Nat /\ d \in Nat /\ b \in Nat /\ v \in Nat /\ x <= v /\ v <= b /\ d <= x
    BY <1>1, <1>2, <2>2, <2>3, DelaysBounded, ZenonT(60)
  <2>5. d \in 0..b
    BY <2>4, SMT
  <2>6. Left(n) = [s \in DOMAIN g |-> g[s] - d]
    BY <1>1, <1>2, <2>3, Zenon
  <2> QED
    BY <1>1, <1>2, <2>3, <2>5, <2>6, ZenonT(60) DEF Elapsed
<1> QED
  BY <1>3, <1>4, Zenon

LEMMA LeftIs ==
    ASSUME ListInv
    PROVE  DOMAIN Left(Mem) = Listed(list) /\ Left(Mem) \in [Listed(list) -> Nat]
BY SoundEncodes, MemIs, Zenon DEF ListInv, Encodes

LEMMA PassMapped ==
    ASSUME ListInv, Elapsed(Left(Mem)), ReloadValue' = ReloadValue
    PROVE  Service!Pass
BY Zenon DEF Service!Pass, Service!Elapse, Service!Running, Elapsed, AllDelays, Max, Service!Max

LEMMA StartMapped ==
    ASSUME ListInv, ~Preemption, NEW t \in Timer, Start(t)
    PROVE  Service!Next \/ UNCHANGED Service!vars
<1>1. Call(TimerStart(Mem, t)) /\ ReloadValue' = ReloadValue
  BY Zenon DEF Start
<1>2. PICK n : n = TimerStart(Mem, t)
  BY Zenon
<1>3. SetMem(n)
  BY <1>1, <1>2, Zenon DEF Call
<1>4. DOMAIN Left(Mem) = Listed(list)
  BY LeftIs, Zenon
<1>5. CASE t \in Listed(list)
  BY <1>2, <1>5, MemIs, MemFromMem, <1>3, TimesElapse, <1>1, PassMapped, SMTT(60) DEF TimerStart, Service!Next
<1>6. CASE t \notin Listed(list)
  <2>1. PICK g : g = Started(list, Left(Mem), t, ReloadValue[t])
    BY Zenon
  <2>2. Follows(Mem, n, g)
    BY MemIs, StartFollows, <1>6, <2>1, <1>2, SMTT(60) DEF ListInv, HandlerTypeOK, AfterStart
  <2>3. \A s \in DOMAIN g : g[s] = IF s \in Listed(list) THEN Left(Mem)[s] ELSE ReloadValue[s]
    BY <1>6, <2>1, ZenonT(60) DEF Started
  <2>4. FromMem(n, g)
    BY <2>2, <2>3, FollowsFromMem, Zenon
  <2>5. Elapsed(g)
    BY <1>3, <2>4, TimesElapse, Zenon
  <2>6. g = [s \in DOMAIN Left(Mem) \cup {t} |-> IF s = t THEN ReloadValue[t] ELSE Left(Mem)[s]]
    BY <1>4, <2>1, Zenon DEF Started
  <2>7. DOMAIN g = DOMAIN Left(Mem) \cup {t}
    BY <2>6, Zenon
  <2>8. Service!Start(t)
    <3>1. Service!Elapse(DOMAIN g, g)
      BY <2>5, Zenon DEF Service!Elapse, Elapsed, AllDelays, Max, Service!Max
    <3>2. Service!Elapse(DOMAIN Left(Mem) \cup {t},
                         [s \in DOMAIN Left(Mem) \cup {t} |-> IF s = t THEN ReloadValue[t] ELSE Left(Mem)[s]])
      BY <2>6, <2>7, <3>1, Zenon
    <3> QED
      BY <1>1, <1>4, <1>6, <3>2, Zenon DEF Service!Start, Service!Running
  <2> QED
    BY <2>8, Zenon DEF Service!Next
<1> QED
  BY <1>5, <1>6, Zenon

(* TimerStop, as it is called and from TimerSetValue. *)
LEMMA StopElapses ==
    ASSUME ListInv, NEW t \in Timer, Call(TimerStop(Mem, t))
    PROVE  Service!Elapse(Service!Running \ {t}, Left(Mem))
<1>1. PICK n, g : n = TimerStop(Mem, t) /\ g = Stopped(list, Left(Mem), t)
  BY Zenon
<1>2. SetMem(n)
  BY <1>1, Zenon DEF Call
<1>3. Follows(Mem, n, g)
  BY MemIs, StopFollows, <1>1, SMT DEF ListInv
<1>4. \A s \in DOMAIN g : g[s] = IF s \in Listed(list) THEN Left(Mem)[s] ELSE ReloadValue[s]
  BY <1>1, Zenon DEF Stopped
<1>5. FromMem(n, g)
  BY <1>3, <1>4, FollowsFromMem, Zenon
<1>6. Elapsed(g)
  BY <1>2, <1>5, TimesElapse, Zenon
<1>7. DOMAIN g = DOMAIN Left(Mem) \ {t} /\ \A s \in DOMAIN g : g[s] = Left(Mem)[s]
  BY <1>1, LeftIs, Zenon DEF Stopped
<1>8. PICK d \in 0..Max(AllDelays) : /\ \A s \in DOMAIN g : d <= g[s]
                                     /\ Left(Mem') = [s \in DOMAIN g |-> g[s] - d]
  BY <1>6, Zenon DEF Elapsed
<1>9. /\ \A s \in DOMAIN Left(Mem) \ {t} : d <= Left(Mem)[s]
      /\ Left(Mem') = [s \in DOMAIN Left(Mem) \ {t} |-> Left(Mem)[s] - d]
  BY <1>7, <1>8, Zenon
<1> QED
  BY <1>9, Zenon DEF Service!Elapse, Service!Running, AllDelays, Max, Service!Max

LEMMA StopMapped ==
    ASSUME ListInv, NEW t \in Timer, Stop(t)
    PROVE  Service!Next
BY StopElapses, SMT DEF Stop, Service!Stop, Service!Next

LEMMA SetValueMapped ==
    ASSUME ListInv, NEW t \in Timer, NEW v \in Delays[t], TimerSetValue(t, v)
    PROVE  Service!Next
BY StopElapses, TimerAssumption, Zenon DEF TimerSetValue, Service!SetValue, Range, Service!Next

LEMMA ExpireMapped ==
    ASSUME ListInv, Expire
    PROVE  Service!Next
<1>1. /\ list # <<>> /\ Timestamp[Head(list)] = 0 /\ ReloadValue' = ReloadValue
      /\ SetMem([Mem EXCEPT !.list = Tail(Mem.list)])
  BY Zenon DEF Expire, HeadExpired
<1>2. /\ Sound(Mem) /\ list \in Seq(Timer) /\ elapsed \in Nat
  BY MemTypes, Zenon DEF ListInv
<1>3. Head(list) = list[1] /\ list[1] \in Timer /\ list[1] \in Listed(list)
  BY <1>1, <1>2, ListPlaces, ZenonT(60)
<1>4. PICK n : n = [Mem EXCEPT !.list = Tail(Mem.list)]
  BY Zenon
<1>5. PICK g : g = Stopped(Mem.list, Left(Mem), Mem.list[1])
  BY Zenon
<1>6. Mem.lead = 0 /\ Mem.list # <<>> /\ Mem.Timestamp[Mem.list[1]] = 0
  BY <1>1, <1>3, MemIs, Zenon
<1>7. CutWaits(Mem, n, g)
  BY <1>2, <1>4, <1>5, <1>6, ExpireCut, ZenonT(60)
<1>8. Left(Mem') = g
  BY <1>7, <1>1, <1>4, SetMemCarries, SMTT(60) DEF CutWaits
<1>9. Left(Mem)[list[1]] = 0
  BY <1>1, <1>2, SoundEncodes, MemIs, <1>3, SMTT(60) DEF Remaining
<1>10. g = [s \in DOMAIN Left(Mem) \ {list[1]} |-> Left(Mem)[s]]
  BY <1>5, LeftIs, MemIs, Zenon DEF Stopped
<1>11. Service!Fire(list[1])
  BY <1>1, <1>3, <1>8, <1>9, <1>10, LeftIs, ZenonT(60) DEF Service!Fire, Service!Running
<1> QED
  BY <1>3, <1>11, Zenon DEF Service!Next

LEMMA EndMapped ==
    ASSUME ListInv, TimerIrqHandlerEnd
    PROVE  Service!Next
BY EndFromMem, TimesElapse, PassMapped, SMT DEF TimerIrqHandlerEnd, Ended, Service!Next

LEMMA TickMapped ==
    ASSUME ListInv, Tick
    PROVE  Service!Next \/ UNCHANGED Service!vars
<1>1. ReloadValue' = ReloadValue /\ list' = list
  BY Zenon DEF Tick
<1>2. PICK d : PassedBy(Mem, Mem', d)
  BY TickPasses, Zenon
<1>3. /\ d \in {0, 1} /\ Sound(Mem')
      /\ \A t \in Listed(list) : d <= Left(Mem)[t] /\ Left(Mem')[t] = Left(Mem)[t] - d
  BY <1>2, MemIs, Zenon DEF PassedBy
<1>4. Left(Mem) \in [Listed(list) -> Nat] /\ Left(Mem') \in [Listed(list) -> Nat]
  BY <1>3, SoundEncodes, <1>1, LeftIs, MemIsNext, SMTT(60) DEF Encodes
<1>5. d \in 0..Max(AllDelays)
  <2>1. PICK t \in Timer : Delays[t] # {}
    BY TimerAssumption, Zenon
  <2>2. PICK v \in Delays[t] : v \in 1..Longest
    BY <2>1, TimerAssumption, Zenon
  <2>3. v \in AllDelays
    BY TimerAssumption, SMT DEF Range, AllDelays
  <2>4. v \in Nat /\ v <= Max(AllDelays) /\ Max(AllDelays) \in Nat
    BY <2>3, DelaysBounded, Zenon
  <2>5. d = 0 \/ d = 1
    BY <1>3, Zenon
  <2> QED
    BY <2>2, <2>4, <2>5, LongestType, SMT
<1>6. Elapsed(Left(Mem))
  BY LeftIs, <1>3, <1>4, <1>5, SMT DEF Elapsed
<1>7. Service!Pass
  BY <1>1, <1>6, PassMapped, Zenon
<1> QED
  BY <1>7, Zenon DEF Service!Next

(* The other steps leave the times left alone. *)
LEMMA SameTimes ==
    ASSUME ListInv, ListInv', UNCHANGED <<list, Timestamp, IsRunning, elapsed, ReloadValue>>
    PROVE  UNCHANGED Service!vars
<1>1. Sound(Mem) /\ Sound(Mem') /\ Mem' \in Memory
  BY SoundEncodes, Zenon DEF ListInv
<1>2. Remaining(Mem') = Remaining(Mem)
  BY MemIs, MemIsNext, ZenonT(60) DEF Remaining
<1>3. CASE list = <<>>
  BY <1>1, SoundEncodes, LeftIs, MemIsNext, MemTypes, <1>3, ListPlaces, SMTT(60) DEF Encodes, Service!vars
<1>4. CASE list # <<>>
  BY <1>1, <1>4, SoundEncodes, MemIs, <1>2, MemIsNext, LeftUnique, ZenonT(60) DEF Service!vars
<1> QED
  BY <1>3, <1>4, Zenon

LEMMA QuietMapped ==
    ASSUME ~Preemption, ListInv, ListNext,
           UNCHANGED <<list, Timestamp, IsRunning, elapsed, ReloadValue>>
    PROVE  UNCHANGED Service!vars
BY NextInv, SameTimes, Zenon

LEMMA HandlerMapped ==
    ASSUME ListInv, TimerIrqHandler
    PROVE  UNCHANGED Service!vars
BY HandlerCharges, SMT DEF TimerIrqHandler, Service!vars

LEMMA InitMapped ==
    ASSUME ListInit
    PROVE  Service!Init
BY InitInv, LeftIs, MemTypes, ListPlaces, ZenonT(60) DEF ListInit, ListInv, Service!Init

LEMMA NextMapped ==
    ASSUME ~Preemption, ListInv, ListNext
    PROVE  Service!Next \/ UNCHANGED Service!vars
BY TickMapped, QuietMapped, HandlerMapped, ExpireMapped, EndMapped, StartMapped, StopMapped, SetValueMapped, ZenonT(60)
   DEF RTC_Alarm_IRQHandler, TimerIrqHandlerEmpty, memory, CallbackReturns, TimerLowPowerHandler, GpioInterrupt,
   ListNext, Serve

(* The list of relative times, its single alarm and its interrupt handler  *)
(* implement timers that count down independently of each other: every     *)
(* step of timer.c is a step of TimerService on the times left, or none.   *)
THEOREM TimersAreIndependent ==
    ASSUME ~Preemption
    PROVE  ListSpec => ImplementsTimerService
<1>1. ListInit => Service!Init
  BY InitMapped
<1>2. ListInv /\ [ListNext]_listVars => [Service!Next]_(Service!vars)
  BY NextMapped, StutterInv, SameTimes, SMT DEF listVars, memory
<1> QED
  BY <1>1, <1>2, ListInvariant, PTL DEF ListSpec, ImplementsTimerService, Service!Spec

=============================================================================
