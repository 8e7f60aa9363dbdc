\* The wire: three transfers of one to three frames on two CAN IDs.
SPECIFICATION Spec
CONSTANTS
    NodeIDMax = 3
    FilterCount = 0
    NoNode = NoNode
    QueueCapacity = 4
    CanIDs = {1, 2}
    PayloadSizes = {8, 13}
    Deadlines = {1}
    AssignedIDs = {0}
    PeerIDs = {1, NoNode}
    MaxTransfers = 3
    MaxTime = 2
    Keys = {1, 2, 3, 4, 5, 6}
    Nil = Nil
    MaxHeld = 0
INVARIANTS
    NoFrankentransfer
    NothingOverdueOffered
    InOrderPerCanID
    CutAndReassembled
    IndexTreesKept
    InsertionBalances
CHECK_DEADLOCK FALSE
