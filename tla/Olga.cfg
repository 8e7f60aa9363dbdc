SPECIFICATION FairSpec
CONSTANTS
    Tasks = {1, 2, 3}
    Runners = {main}
    Loop = Loop
    None = None
    Deadlines = {1, 2}
    MaxTime = 2
    MaxSeqno = 3
INVARIANTS
    HandlesExact
    NoOversleep
PROPERTIES
    ImplementsTimerQueue
    NoneForgotten
CHECK_DEADLOCK FALSE
