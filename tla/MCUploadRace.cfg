SPECIFICATION Spec
CONSTANTS
    Document = {d1, d2, d3}
    Worker = {w1}
    User = {u1, u2}
    Content = {readable, unreadable}
    Unreadable = {unreadable}
    RequestId = {k1}
    None = None
    u1 = u1
    u2 = u2
    readable = readable
    unreadable = unreadable
    k1 = k1
    Submission <- MCCrowd
    MaxRetries = 0
    MaxDisruptions = 0
SYMMETRY MCSymmetry
INVARIANTS OneDocumentPerRequestId SourceOutlivesRow
CHECK_DEADLOCK FALSE
