SPECIFICATION FairSpec
CONSTANTS
    Times = {0, 1, 2, 5}
    Pacings = {"settled", "handled", "free"}
INVARIANTS FlashEndsDark BlinksCounted HoldStays
PROPERTIES FlashEnds
