CONSTANTS
    MaxLines = 3
    MaxFaults = 2
SPECIFICATION FairSpec
CHECK_DEADLOCK FALSE
INVARIANTS
    FiguresAddUp
PROPERTIES
    FiguresArrive
    StopReturns
