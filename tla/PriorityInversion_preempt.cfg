SPECIFICATION ScenarioSpec
CONSTANTS
    Tasks = {20, 50, 80}
    Low = 20  Mid = 50  High = 80
    Mutexes = {1}
    Slices = 3
    None = None
PROPERTY MediumCannotPreempt
