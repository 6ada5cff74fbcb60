---------------------------- MODULE MCSensorRegs ----------------------------
EXTENDS SensorRegs, TLC
Symmetry == Permutations(Callers)
=============================================================================
