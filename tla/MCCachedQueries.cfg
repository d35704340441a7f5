SPECIFICATION Spec
CONSTANTS
    Key = {u, d}
    Url = {u}
    List <- MCList
    MaxItems = 1
    TTL = 1
    MaxTime = 2
    Request <- MCRequest
    Address <- MCAddress
    MaxVersion = 1
    Size <- MCSize
    None = None
    r1 = r1
    r2 = r2
    r3 = r3
    a1 = a1
    a2 = a2
SYMMETRY MCSymmetry
CHECK_DEADLOCK FALSE
INVARIANTS
    QueriesTypeOK
    BoundedStaleness
    RankFits
    HistoryWasAnswered
