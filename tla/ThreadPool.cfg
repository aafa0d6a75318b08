SPECIFICATION FairSpec
CONSTANTS
    Workers = {w1, w2}
    Clients = {c1, c2}
    Tasks = {t1, t2, t3}
    QueueSize = 2
    NoTask = NoTask
    Nobody = Nobody
INVARIANTS
    TypeOK
    LockDiscipline
    RingIsFifo
    NoStrandedTask
    NoSleeperAfterShutdown
    CompletedCounter
    NoUseAfterFree
    IndInv
PROPERTIES
    ImplementsTaskPool
    ImplementsFairTaskPool
    AcceptedIsExecuted
    DestroyReturns
