SPECIFICATION EarlySpec
CONSTANTS
    Workers = {w1, w2}
    Clients = {main}
    Main = main
    Tasks = {0, 1, 2, 3, 4, 5}
    QueueSize = 3
    NoTask = NoTask
    Nobody = Nobody
INVARIANTS
    ArgsOwned
    NothingLeftBehind
