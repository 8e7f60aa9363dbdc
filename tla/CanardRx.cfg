\* Reassembly: one remote, two priorities.
SPECIFICATION Spec
CONSTANTS
    Ports = {1}
    Remotes = {1}
    Prios = {0, 1}
    TransferIDModulo = 2
    TransferIDTimeout = 1
    RxSessionTimeout = 2
    MaxFrames = 2
    MaxTransfers = 3
    LastSend = 3
    MaxTime = 3
    NoSlot = NoSlot
    NoFrame = NoFrame
INVARIANTS
    AtMostOnce
    NothingLost
CHECK_DEADLOCK FALSE
