SPECIFICATION FairSpec
CONSTANTS
    NbTrials = {2}
    NbReps = {2}
    McpsTypes = {"CONFIRMED_UP", "UNCONFIRMED_UP", "PROPRIETARY"}
    MlmeTypes = {"LINK_CHECK", "LINK_CHECK_FULL"}
    MibTypes = {"NETWORK_JOINED", "CHANNELS_NB_REP"}
    Downlinks <- DownlinksWellBehaved
    FCntMod = 8
    MAX_FCNT_GAP = 2
    MAX_ACK_RETRIES = 2
    Preemption = FALSE
    MaxUpLinkCounter = 1
    MaxDownLinkCounter = 1
CHECK_DEADLOCK FALSE
INVARIANTS
    ExchangeInv
    NeverStranded
PROPERTIES
    TransmitsAlone
    McpsRequestConfirmed
