CONSTANTS
    MaxOfflineDuration <- MCMaxOfflineDuration
    IntervalMin <- MCIntervalMin
    IntervalMax <- MCIntervalMax
    MaxStarts <- MCMaxStarts
    MaxRestarts <- MCMaxRestarts
    MaxTime <- MCMaxTime
SPECIFICATION Spec
INVARIANTS
    OfflineBounded
