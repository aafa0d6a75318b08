SPECIFICATION Spec
CONSTANTS
    thread_count = 4
    Chapters = {1, 10}
INVARIANTS
    NoFreeUnderWorkers
    CreateAllOrNothing
