SPECIFICATION AuthSpec
CONSTANTS
    Tab = {t1, t2}
    User = {u1}
    Session = {s1, s2}
    Lifetime = 1
    None = None
    LocksAvailable = FALSE
    MaxCalls = 2
    MaxTime = 1
    MaxFetches = 1
    MaxDisruptions = 1
SYMMETRY MCSymmetry
INVARIANTS AuthTypeOK OneLiveSession RotationKeepsLogin CookieCurrent
PROPERTIES LogoutEndsLogin LateAnswerKeepsSuccessor
CHECK_DEADLOCK FALSE
