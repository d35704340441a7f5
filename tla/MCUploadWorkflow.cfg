SPECIFICATION Spec
CONSTANTS
    File = {f1}
    MaxUuid = 2
    MaxPicks = 2
    MaxMoves = 3
    MaxPolls = 2
    None = None
CHECK_DEADLOCK FALSE
INVARIANTS
    RetriesStoreOnce
    DocumentAnswersOwn
PROPERTIES
    NothingOlderIsShown
    StatusIsShown
