SPECIFICATION Spec
CONSTANTS
    Series = {web}
    Kinds <- TwoKinds
    Hour = 2
    MaxSamples = 2
    MaxRestarts = 1
    MaxTime = 3
INVARIANTS SamplesCountedOnce IncidentsOnce
PROPERTIES LostUnselected EveryRowIndexed
