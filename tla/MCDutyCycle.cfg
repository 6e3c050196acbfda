SPECIFICATION DutySpec
CONSTANTS
    g1 = g1
    g2 = g2
    c1 = c1
    c2 = c2
    Band = {g1, g2}
    DCycle <- MCDCycle
    Channel = {c1, c2}
    BandOf <- MCBandOf
    DrRange <- MCDrRange
    DefaultChannels = {c1}
    TimeOnAir <- MCTimeOnAir
    DefaultDatarate = 0
    JoinDCycle = 3
    RndOffset = 1
    MaxDCycles = {0, 1, 255}
    MaxElapsed = 5
PROPERTY AggregatedDelayEnds
