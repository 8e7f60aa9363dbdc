\* Two colliding topics and a node that discovers one of them through a pattern.
SPECIFICATION FairSpec
CONSTANTS
    NodeA = NodeA
    NodeB = NodeB
    NodeC = NodeC
    Nodes = {NodeA, NodeB, NodeC}
    Topics = {1, 8}
    Creatable <- OneEach
    Matching <- PatternOfC
    Pins = {0}
    Modulus = 7
    SubjectIDPinnedMax = 0
    EvictionsMax = 1000
    BroadcastRatio = 2
    Lossy = FALSE
    Publishing = 0
    MaxRestarts = 1
    MaxInFlight = 0
    MaxTime = 1
    PinNone = PinNone
    None = None
PROPERTIES
    EventuallyDistinct
    EventualAgreement
    PatternLearns
CHECK_DEADLOCK FALSE
