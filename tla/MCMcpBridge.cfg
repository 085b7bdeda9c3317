CONSTANTS
    Requests <- Evaluations
    MaxRequests = 2
    MaxPushes = 1
    MaxDowns = 0
SPECIFICATION McpFairSpec
INVARIANT ResultIsTheAnswer
