SPECIFICATION Spec
CONSTANTS
    Commands = {c1, c2, c3}
    Workflows = {w1}
    MaxRuns = 2
INVARIANT EveryRunTraceable
CHECK_DEADLOCK FALSE
