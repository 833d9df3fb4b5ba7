CONSTANTS
    c1 = c1
    c2 = c2
    c3 = c3
    r1 = r1
    r2 = r2
    r3 = r3
    m1 = m1
    m2 = m2
    ka = ka
    kb = kb
    Rows = {r1, r2, r3}
    Time <- TimeOf
    Id <- IdOf
    PerPage = 2
    NoRow = NoRow
    Clients = {c1, c2, c3}
    Mixes <- TheMixes
    MaxSize = 2
    Measurements = {m1, m2}
    KeysOf <- KeysIn
    Belongings <- OfOneConfiguration
    ConfigChunks = 2
    PipeCap = 1
SPECIFICATION FairSpec
INVARIANTS TypeOK PagesCover ArchiveWhole
PROPERTY EveryRequestEnds
\* Every request made and answered: an end.
CHECK_DEADLOCK FALSE
