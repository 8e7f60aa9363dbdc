\* A lossy network, failing readers, data messages.
SPECIFICATION Spec
CONSTANTS
    NodeA = NodeA
    NodeB = NodeB
    NodeC = NodeC
    Nodes = {NodeA, NodeB}
    Topics = {1, 8, 9}
    Creatable <- Crossed
    Matching <- Nowhere
    Pins = {}
    Modulus = 7
    SubjectIDPinnedMax = 0
    EvictionsMax = 1000
    BroadcastRatio = 2
    Lossy = TRUE
    Publishing = 1
    MaxRestarts = 0
    MaxInFlight = 0
    MaxTime = 0
    PinNone = PinNone
    None = None
INVARIANTS
    IndexSound
    ReaderFollowsSubject
CHECK_DEADLOCK FALSE
