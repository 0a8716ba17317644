SPECIFICATION FairSpec
CONSTANTS
    h1 = h1
    h2 = h2
    d1 = d1
    d2 = d2
    d3 = d3
    Probes <- TwoProbes
    Drains <- TwoDrains
    Slots = 1
    MaxPackets = 1
    MaxData = 1
CHECK_DEADLOCK FALSE
INVARIANT BackgroundBeforeBorrow
INVARIANT NoDeadlineLeft
PROPERTY CheckReturns
