SPECIFICATION IrqFairSpec
CONSTANTS
    Lines = {l1, l2, l3}
    Callers = {app, thread}
    MaxDepth = 2
INVARIANTS FlagTellsTruth
PROPERTIES ReprogramOpens
