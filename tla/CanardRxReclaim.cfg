\* Sessions: two ports, two remotes, then silence.
SPECIFICATION FairSpec
CONSTANTS
    Ports = {1, 2}
    Remotes = {1, 2}
    Prios = {0}
    TransferIDModulo = 32
    TransferIDTimeout = 1
    RxSessionTimeout = 2
    MaxFrames = 2
    MaxTransfers = 2
    LastSend = 1
    MaxTime = 5
    NoSlot = NoSlot
    NoFrame = NoFrame
INVARIANTS
    AnimationOrdered
    NothingLost
PROPERTY
    SessionsReclaimed
CHECK_DEADLOCK FALSE
