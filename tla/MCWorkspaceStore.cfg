CONSTANTS
    p1 = p1  p2 = p2
    t1 = t1  t2 = t2  t3 = t3
    k1 = k1  k2 = k2
    a1 = a1  a2 = a2
    u1 = u1  u2 = u2
    Proc = {p1, p2}
    Thread = {t1, t2, t3}
    ProcOf <- MCProcOf
    Key = {k1, k2}
    Answer = {a1}
    Flat <- MCFlat
    Author = {u1, u2}
    AuthorOf <- MCAuthorOf
    Unstamped = Unstamped
    NoObs = NoObs
    Nobody = Nobody
    Torn = Torn
    InitialFiles <- MCInitialFiles
    MaxInode = 1
    Foreign = {}
    MaxFile = 0
SPECIFICATION Spec
INVARIANTS TypeOK ReadsWholeFile ReachedKept OrderSound
PROPERTIES LogSpec
SYMMETRY MCSymmetry
