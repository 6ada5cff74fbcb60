--------------------------- MODULE MCSensorProbe ---------------------------
EXTENDS SensorProbe, TLC
MCSymmetry == Permutations(Cameras) \cup Permutations(Dirs)
=============================================================================
