SPECIFICATION FairSpec
CONSTANTS
    Sensors <- MCSensors
    Mixes <- MCMixes
INVARIANTS Monopoly OwnSerializer LinksRestored PipesAsAsked
PROPERTIES SetupEnds
CHECK_DEADLOCK FALSE
