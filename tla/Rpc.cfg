SPECIFICATION FairSpec
CONSTANTS
    talker = talker
    teller = teller
    Responders <- MCResponders
    MaxSeqno <- MCMaxSeqno
    History = 2
    MaxRequests = 1
    MaxResponses = 2
    MaxLosses = 1
    None = None
INVARIANTS
    DeliveredOnce
    NackJustified
PROPERTIES
    DisposedSilent
    BothSettle
CHECK_DEADLOCK FALSE
