SPECIFICATION FairTrapsSpec
CHECK_DEADLOCK FALSE
CONSTANTS
    Numbered <- Two
    Modes = {FALSE, TRUE}
    Does <- Plain
    MaxQueue = 2
INVARIANTS
    TrapsTypeOK
    CaughtAreKept
    KernelFollowsTable
    OnlyUntrappedKill
PROPERTIES
    SignalsAreServed
