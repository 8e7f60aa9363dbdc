\* The receiving node: an ordered and an unordered subscriber; tags wrap
\* around after the third message.
SPECIFICATION Spec
CONSTANTS
    Subs = {plain, ordered}
    Ordered = {ordered}
    plain = plain
    ordered = ordered
    TagModulus = 32
    TagBaseline = 29
    dedupHistory = 4
    reorderingCapacity = 4
    MaxBackwardLag = 8
    ReorderingWindow = 1
    Patience = 1
    SessionLifetime = 2
    MaxInputs = 8
    MaxTime = 4
    None = None
INVARIANTS
    AckedWasAccepted
    DeliveredOnceInOrder
PROPERTIES
    InternedKept
    HeadOfLineTimely
CHECK_DEADLOCK FALSE
