SPECIFICATION FairSpec
CONSTANTS
    MaxConcurrent = 2
    MaxDepth = 2
    MaxCalls = 1
    MaxFanout = 2
CHECK_DEADLOCK FALSE
PROPERTY InterruptStopsAll
