SPECIFICATION Spec
VIEW ButPassed
CHECK_DEADLOCK FALSE
CONSTANTS
    Lines <- OneLine
    FileOf <- Files
    Functions = {"f"}
    Kinds = {"err-trap"}
    NewBreakpoints <- Both
    Does <- Everything
    MaxDepth = 1
    MaxId = 2
    MaxShells = 0
    None = None
INVARIANTS
    SessionTypeOK
    StoppedIsServed
    ExceptionInfoIsCurrent
    OneShotStopsOnce
PROPERTIES
    KeepsProtocol
