SPECIFICATION ShellSpec
CONSTANTS
    Pids <- Two
    Statuses <- Died
    NoPid = NoPid
    MaxJobId = 2
    ChildMax = 0
    Monitor = FALSE
    Interactive = FALSE
    Tty = FALSE
    Commands <- Script
INVARIANTS
    WaitTruth
    WaitKnowsChildren
    StatusKept
    NoSilentLoss
    JobsAreWatched
