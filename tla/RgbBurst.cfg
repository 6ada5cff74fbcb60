SPECIFICATION FairSpec
CONSTANTS
    Lamps = 2
    Params = {1, 3, 86}
    Waits = {TRUE, FALSE}
INVARIANTS StageInRange LampInsideTrig BurstComplete
PROPERTIES BurstEnds
