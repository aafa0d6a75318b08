SPECIFICATION FairSpec
CONSTANTS
    Tasks = {20, 50, 80}
    Mutexes = {1, 2}
    None = None
INVARIANTS
    OwnedWhileHeld
    SleepersHaveOwner
    OwnerInherits
    BoostEnds
PROPERTY NoStandstill
