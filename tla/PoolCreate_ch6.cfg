SPECIFICATION Spec
CONSTANTS
    thread_count = 4
    Chapters = {6}
INVARIANTS
    NoFreeUnderWorkers
