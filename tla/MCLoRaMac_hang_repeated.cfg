SPECIFICATION FairSpec
CONSTANTS
    NbTrials = {2}
    NbReps = {1, 2}
    McpsTypes = {"CONFIRMED_UP", "UNCONFIRMED_UP"}
    MlmeTypes = {}
    MibTypes = {"NETWORK_JOINED"}
    Downlinks <- DownlinksRepeated
    FCntMod = 8
    MAX_FCNT_GAP = 2
    MAX_ACK_RETRIES = 2
    Preemption = FALSE
    MaxUpLinkCounter = 2
    MaxDownLinkCounter = 1
CHECK_DEADLOCK FALSE
PROPERTY McpsRequestConfirmed
