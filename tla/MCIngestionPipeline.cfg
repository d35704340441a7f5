SPECIFICATION Spec
CONSTANTS
    Document = {d1, d2}
    Worker = {w1, w2}
    User = {u1}
    Content = {readable, unreadable}
    Unreadable = {unreadable}
    RequestId = {k1}
    None = None
    u1 = u1
    u2 = u2
    readable = readable
    unreadable = unreadable
    k1 = k1
    Submission <- MCRace
    MaxRetries = 1
    MaxDisruptions = 1
SYMMETRY MCSymmetry
INVARIANTS
    TypeOK NeverAbandoned ReadyIsComplete OrphanOnlyAfterFault
PROPERTIES ReadyIsFinal FailedOnlySuperseded
CHECK_DEADLOCK FALSE
