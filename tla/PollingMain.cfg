SPECIFICATION PollingSpec
CONSTANTS
    Workers = {w1, w2}
    Clients = {main}
    Main = main
    Tasks = {t1, t2, t3}
    QueueSize = 2
    NoTask = NoTask
    Nobody = Nobody
INVARIANTS
    BalanceExplained
    NothingDropped
PROPERTIES
    MainTerminates
