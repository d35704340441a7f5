SPECIFICATION FairSpec
CONSTANTS
    Document = {d1, d2}
    Worker = {w1}
    User = {u1}
    Content = {readable, unreadable}
    Unreadable = {unreadable}
    RequestId = {k1}
    None = None
    u1 = u1
    u2 = u2
    readable = readable
    unreadable = unreadable
    k1 = k1
    Submission <- MCRetries
    MaxRetries = 1
    MaxDisruptions = 1
PROPERTIES UuidRetryRepairs
CHECK_DEADLOCK FALSE
