SPECIFICATION FairSpec
CONSTANTS
    Num = {1, 2, 3}
    Users = {"strict", "reopens", "hasty"}
    MaxCount = 4
INVARIANTS NoExtraExposure PhaseInStep
PROPERTIES PinsGoLow
