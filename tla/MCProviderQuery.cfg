CONSTANTS
    r1 = r1  r2 = r2
    v = v  e = e
    Run = {r1, r2}
    Item = {v, e}
    Edge = {e}
    GraphsOf <- MCGraphsOf
    MaxAttempts = 2
SPECIFICATION FairSpec
INVARIANTS TypeOK Explained
PROPERTIES RetryAsksLess RunsReturn
CHECK_DEADLOCK FALSE
