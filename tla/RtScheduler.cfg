SPECIFICATION FairSpec
CONSTANTS
    low = low  mid = mid  high = high
    Tasks <- AllTasks
    Periodic <- TwoPeriodic
    Priority <- Extremes
    MaxTasks = 2  MaxTrace = 3
    SpawnMayFail = TRUE
    MaxActivations = 2
    NoTask = NoTask  Nobody = Nobody
INVARIANTS TraceAgreesWithStats PriorityOrder
PROPERTIES QuietAfterStop StopReturns
