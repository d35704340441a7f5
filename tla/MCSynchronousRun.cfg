SPECIFICATION Spec
CONSTANTS
    Document = {d1, d2}
    User = {u1}
    Content = {c1}
    Unreadable <- MCNone
    RequestId <- MCNone
    None = None
    Session = {r1, r2}
    Connection = {k1, k2}
    PoolSize = 2
    Nobody = Nobody
    Model = {m1}
    BatchId = {b1}
    Batch <- MCBatches
    MaxRedeploys = 1
    q1 = q1
    q2 = q2
SYMMETRY MCSymmetry
CHECK_DEADLOCK FALSE
INVARIANTS
    RunTypeOK
    BodyExclusive
    OneBatchPerRequest
    RecoveryFaithful
    CachedIsStored
PROPERTY
    ReadyStays
