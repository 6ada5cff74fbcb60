------------------------------ MODULE MCImx56x ------------------------------
EXTENDS Imx56x, TLC
MCSymmetry == Permutations(Callers) \cup Permutations(Sensors)
MCRois == {[bit |-> 0, binning |-> 0, height |-> 12], [bit |-> 0, binning |-> 2, height |-> 2848],
           [bit |-> 2, binning |-> 0, height |-> 4], [bit |-> 1, binning |-> 3, height |-> 1424]}
=============================================================================
