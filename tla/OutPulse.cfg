SPECIFICATION FairSpec
CONSTANTS
    Bytes = {0, 1, 2}
    Holds = {TRUE, FALSE}
    Pacings = {"settled", "handled", "free"}
INVARIANTS RestsAtDefault
PROPERTIES PinObeys PulseGivenAndOver
