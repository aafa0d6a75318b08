SPECIFICATION Spec
CONSTANTS
    NsPerUs = 2  UsPerMs = 2  MsPerSec = 2
    Period = 3  Deadline = 2
    MaxExec = 14  MaxLatency = 3
    MaxActivations = 3
INVARIANTS DriftFree NeverEarly MissExact TraceConsistent
PROPERTY SleepAtMostPeriod
