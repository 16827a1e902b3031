SPECIFICATION TrapsSpec
CHECK_DEADLOCK FALSE
CONSTANTS
    Numbered <- Two
    Modes = {FALSE}
    Does <- Stealing
    MaxQueue = 1
INVARIANTS
    CaughtAreKept
