SPECIFICATION FairSpec
CONSTANTS
    MaxConcurrent = 3
    MaxDepth = 2
    MaxCalls = 1
    MaxFanout = 2
 
PROPERTY RunEnds
