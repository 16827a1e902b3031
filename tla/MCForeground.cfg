SPECIFICATION TerminalSpec
CONSTANTS
    Pids <- Two
    Statuses <- Died
    NoPid = NoPid
    MaxJobId = 2
    ChildMax = 0
    Monitor = TRUE
    Interactive = TRUE
    Tty = TRUE
    Commands <- Foregrounds
INVARIANTS
    StatusKept
    JobsAreWatched
