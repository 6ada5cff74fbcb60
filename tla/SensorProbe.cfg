SPECIFICATION Spec
CONSTANTS
    Cameras = {c1, c2}
    Dirs = {d1, d2, d3}
    MaxProbes = 2
    MaxWrites = 1
SYMMETRY MCSymmetry
INVARIANTS DentryIsAlive FilesOfTheBound PowerInOrder PowerFollowsAnswer
CHECK_DEADLOCK FALSE
