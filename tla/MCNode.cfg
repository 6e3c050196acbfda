SPECIFICATION Spec
CONSTANTS
    OverTheAir = {TRUE, FALSE}
    Downlink <- MCDownlink
    FifoSize = 8
    Chunk = 4
    FifoThresh = 3
    DioLatency = 2
    PacketSizes = {1, 3, 4, 7, 8, 9, 12}
    g1 = g1
    g2 = g2
    c1 = c1
    c2 = c2
    Band = {g1, g2}
    DCycle <- MCDCycle
    Channel = {c1, c2}
    BandOf <- MCBandOf
    DrRange <- MCDrRange
    DefaultChannels = {c1}
    TimeOnAir <- MCTimeOnAir
    DefaultDatarate = 0
    JoinDCycle = 3
    RndOffset = 1
    MaxDCycles = {0, 1, 255}
    MaxElapsed = 5
    LORA_MAC_COMMAND_MAX_LENGTH = 5
    Answers <- MCAnswers
    MaxRequests = 2
    Uplinks <- MCUplinks
    Downlinks <- MCDownlinks
    PduMax = 310
    OptionNums = {11, 24, 292, 293}
    OptionLens = {0, 12, 13, 269}
    PayloadLens = {6, 16}
    TokenLens = {0, 8}
    MaxOptions = 3
    FifoRxSize = 4
    Byte = {b1, b2}
INVARIANTS
    NodeTypeOK
    NoLostWakeUp EveryFrameReported FrameIsPrepared
    RadioReportsOnce PacketsAreWhole
    SchcTransparent CoapMessageIsRead RxFifoInOrder
PROPERTIES
    KeepsSending
    RadioAlwaysReports
    BandRests DelayedFrameIsSent
    AnswersAreSent
