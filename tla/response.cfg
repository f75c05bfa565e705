SPECIFICATION Spec
CONSTANTS
    Width = 4
    Kinds = {"native", "channel", "named", "persistent", "stream"}
    HeaderCalls <- MCHeaderCalls
    Cleanup = TRUE
    structured_logging_enabled = TRUE
    MaxHeaders = 2
    FollowSkewed = FALSE
    MaxSteps = 3
    MaxRequests = 2
    PipeCap = 1
    ChanCap = 1
    Lengths = {0, 3, 4, 6}
INVARIANTS TypeOK RequestIntact FrameOrder Aligned  FailureShown
PROPERTIES ResponseEnds
CHECK_DEADLOCK FALSE
