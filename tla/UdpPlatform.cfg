SPECIFICATION Spec
CONSTANTS
    Nodes = {16, 32}
    Self = 16
    LocalPort <- MCLocalPort
    Unicasts = 0
    Traffic <- MCTraffic
    Subjects = {1, 9}
    SubjectIDModulus = 8
    UIDBits = 6
    Interfaces = 2
    Extent = 1
    TIDs = 8
    Seeds = {2, 7}
    Sizes = {1, 2}
    MaxTransfers = 2
    MaxWriters = 2
    MaxReaders = 1
    None = None
INVARIANTS
    PayloadIntact
    InOrderOnce
    HeardIsPassedUp
    LateAtMostOne
CHECK_DEADLOCK FALSE
