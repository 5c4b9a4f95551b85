CONSTANTS
    MaxMessages = 2
    KeepRecent = 1
    MaxTokens = 8
    MaxSummary = 2
    MinSize = 1
    Sizes = {1, 5}
    Replies <- MCReplies
    Drifts = {0, 2}
    MaxHistory = 6
    MaxRewinds = 1
SPECIFICATION CompSpec
INVARIANTS RequestsWellFormed HiddenAccountedFor BudgetKept
CHECK_DEADLOCK FALSE
