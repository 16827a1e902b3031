SPECIFICATION Spec
CHECK_DEADLOCK FALSE
CONSTANTS
    Lines <- TwoLines
    FileOf <- Files
    Functions = {"f"}
    Kinds = {}
    NewBreakpoints = {}
    Does <- Unwinds
    MaxDepth = 2
    MaxId = 1
    MaxShells = 1
    None = None
INVARIANTS
    StepsLand
    DepthIsFrames
    TerminatedMeansGone
