SPECIFICATION FairShellSpec
CONSTANTS
    Pids <- One
    Statuses <- Died
    NoPid = NoPid
    MaxJobId = 2
    ChildMax = 0
    Monitor = TRUE
    Interactive = FALSE
    Tty = FALSE
    Commands <- JobControlled
INVARIANTS
    WaitKnowsChildren
PROPERTIES
    DeathsArePublished
    WaitsReturn
