SPECIFICATION EncryptSpec
CONSTANTS
    Workers = {w1, w2, w3}
    Clients = {main}
    Main = main
    Tasks = {0, 1, 2}
    QueueSize = 3
    chunk_size = 2
    NoTask = NoTask
    Nobody = Nobody
INVARIANTS
    EncryptedOnce
    SuccessIsSound
    CleanUnmap
