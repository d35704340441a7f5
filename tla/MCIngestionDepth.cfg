SPECIFICATION FairSpec
CONSTANTS
    Document = {d1}
    Worker = {w1, w2}
    User = {u1}
    Content = {readable, unreadable}
    Unreadable = {unreadable}
    RequestId = {k1}
    None = None
    u1 = u1
    u2 = u2
    readable = readable
    unreadable = unreadable
    k1 = k1
    Submission <- MCRetries
    MaxRetries = 2
    MaxDisruptions = 2
PROPERTIES EventuallySettled RefinesLifecycle
CHECK_DEADLOCK FALSE
