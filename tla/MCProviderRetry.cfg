CONSTANTS
    r1 = r1  r2 = r2
    v = v  e = e
    Run = {r1, r2}
    Item = {v, e}
    Edge = {e}
    GraphsOf <- MCGraphsOf
    MaxAttempts = 3
SPECIFICATION FairSpec
PROPERTIES RetryAsksFailed
CHECK_DEADLOCK FALSE
