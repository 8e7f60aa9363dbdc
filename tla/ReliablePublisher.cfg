SPECIFICATION FairSpec
CONSTANTS
    Remotes = {r1, r2}
    AckTimeout = 1
    Patience = 4
    SessionLifetime = 2
    MaxMsgs = 1
    MaxChanges = 2
    MaxTime = 5
    None = None
INVARIANTS
    VerdictJustified
    BackoffDoubles
PROPERTIES
    FinalErrorKept
    PublicationEnds
CHECK_DEADLOCK FALSE
