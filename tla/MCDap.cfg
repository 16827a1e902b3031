SPECIFICATION FairDapSpec
CHECK_DEADLOCK FALSE
CONSTANTS
    Requests <- AllRequests
    Outcomes <- Ending
    Asks <- OpenedProperly
    MaxSeq = 6
    MaxInbox = 2
INVARIANTS
    DapTypeOK
    RequestsAccounted
    StopsAreAnnounced
    PauseIsSettled
    PauseNeverQueues
PROPERTIES
    PauseStops
    VanishedClientEndsIt
    RequestsAnswered
