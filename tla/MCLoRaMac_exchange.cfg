SPECIFICATION Spec
CONSTANTS
    NbTrials = {1, 2, 5}
    NbReps = {1, 2}
    McpsTypes = {"CONFIRMED_UP", "UNCONFIRMED_UP"}
    MlmeTypes = {"JOIN"}
    MibTypes = {"CHANNELS_NB_REP"}
    Downlinks <- DownlinksAll
    FCntMod = 4
    MAX_FCNT_GAP = 2
    MAX_ACK_RETRIES = 2
    Preemption = FALSE
    MaxUpLinkCounter = 2
    MaxDownLinkCounter = 5
CHECK_DEADLOCK FALSE
INVARIANTS
    TypeOK
    ExchangeInv
    PendingMeansBusy
    BusyIsWoken
    RetryIsForConfirmed
    ConfirmedFrameAwaitsAck
    CounterReusedOnlyAfterTimeout
    NeverStranded
    HistoryInv
    SessionStartsAtOne
PROPERTIES
    TransmitsAlone
    TrialsBounded
    ImplementsMacService
    ConfirmTellsTruth
    JoinConfirmTellsTruth
    DownlinksInOrder
