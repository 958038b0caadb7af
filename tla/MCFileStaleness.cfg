CONSTANTS
    r1 = r1  r2 = r2
    w1 = w1  w2 = w2  w3 = w3
    f1 = f1  f2 = f2
    Request = {r1, r2}
    Worker = {w1, w2, w3}
    RequestOf <- MCRequestOf
    File = {f1, f2}
    MaxVersion <- MCMaxVersion
    Parses <- MCParses
    None = None
SPECIFICATION StaleSpec
INVARIANTS RangesReflectDisk
CHECK_DEADLOCK FALSE
