SPECIFICATION Spec
CONSTANTS
    Configs <- Tried
    Width = 5
    MaxWarmUp = 10
    Second = 2
    Minute = 5
    DefaultPackets = 9
    DialsFail = TRUE
CHECK_DEADLOCK FALSE
INVARIANT ValidateStable
INVARIANT WarmUpFits
 
