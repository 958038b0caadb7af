CONSTANTS
    p1 = p1  p2 = p2
    t1 = t1  t2 = t2
    k1 = k1  k2 = k2
    a1 = a1  u1 = u1
    Proc = {p1, p2}
    Thread = {t1, t2}
    ProcOf <- MCOneEach
    Key = {k1, k2}
    Answer = {a1}
    Flat <- MCFlat
    Author = {u1}
    AuthorOf <- MCAuthorOf
    Unstamped = Unstamped
    NoObs = NoObs
    Nobody = Nobody
    Torn = Torn
    InitialFiles <- NoFile
    MaxInode = 2
    Foreign <- MCForeign
    MaxFile = 3
SPECIFICATION PullSpec
INVARIANTS PulledKept
