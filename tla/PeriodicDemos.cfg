SPECIFICATION DemoSpec
CONSTANTS
    Tasks = {40, 60, 80}
    Periodic = {40, 60, 80}
    Priority <- ByName
    MaxTasks = 16  MaxTrace = 0
    SpawnMayFail = FALSE
    MaxActivations = 40
    NoTask = NoTask  Nobody = Nobody
    Programs <- BothDemos
    RunFor <- BothRunFor
    Horizon <- BothHorizon
INVARIANTS NoMiss TopNeverMisses HealthyChart StopsInTime
