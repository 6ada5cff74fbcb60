CONSTANTS
    MaxProbes = 2
    MaxEvents = 2
    Masks = {{1, 2}}
SPECIFICATION Spec
INVARIANTS PartsBeforeUse LastEdgeReported NoEdgeUncounted
CHECK_DEADLOCK FALSE
