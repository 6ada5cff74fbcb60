SPECIFICATION ImxSpec
CONSTANTS
    Sensors = {c1, c2}
    Callers = {p, q}
    Rois <- MCRois
    LevelValues = {0, 48, 60}
    MaxCalls = 2
    MaxLost = 1
SYMMETRY MCSymmetry
INVARIANTS OwnImage OneMode SettingsAsAsked
CHECK_DEADLOCK FALSE
