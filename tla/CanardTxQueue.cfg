\* Ownership, accounting, node-ID and drain: two transfers, retained frames.
SPECIFICATION FairSpec
CONSTANTS
    NodeIDMax = 3
    FilterCount = 1
    NoNode = NoNode
    QueueCapacity = 3
    CanIDs = {1}
    PayloadSizes = {8}
    Deadlines = {1}
    AssignedIDs = {1}
    PeerIDs = {1, 2}
    MaxTransfers = 2
    MaxTime = 2
    Keys = {}
    Nil = Nil
    MaxHeld = 1
INVARIANTS
    Accounting
    NodeIDSound
    NothingWantedFilteredOut
PROPERTY
    QueueDrains
CHECK_DEADLOCK FALSE
