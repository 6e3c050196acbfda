SPECIFICATION ListSpec
CONSTANTS
    t1 = t1
    t2 = t2
    t3 = t3
    Timer = {t1, t2, t3}
    Delays <- MCDelays
    McuWakeUpTime = 1
    LowPowerDelay = 3
    LoopsToSleep = 1
    MaxLatency = 1
    Word = 8
    Preemption = FALSE
INVARIANTS
    ListTypeOK
    ListIsServed
    ExpiresWhenDue
PROPERTIES
    ImplementsTimerService
    EveryTimerExpires
CHECK_DEADLOCK FALSE
