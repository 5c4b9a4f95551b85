CONSTANTS
    Programs = {ls, rm}
    Allowed = {ls}
    Denied = {rm}
    MaxTrackedCds = 2
    MaxCds = 3
    ShellCalls = {s1, s2}
    Nowhere = Nowhere
    Keep = Keep
    Roots <- MCRoots
    Scratches <- MCScratches
    RuntimeDirs <- MCRuntimeDirs
    RunLinks <- MCRunLinks
    Exposable <- MCExposable
    MaxLineChars = 2
    Editors = {e1, e2}
    Writers = {w1}
    EditLists <- MCEditLists
    Contents <- MCContents
    NoFile = NoFile
    NoOne = NoOne
    ChunkSize = 2
    MaxReadChars = 6
    DefaultLimit = 3
    CutNote = 1
    Prefix = 1
    Entries = 2
    MaxLines = 4
    Modes = {"grep", "files", "glob"}
    ContextLines = {0, 1}
    Limits = {1, 2, 3}
    MaxOutput = 5
SPECIFICATION ToolsSpec
INVARIANTS SessionIsLatest GroupGone  IsolationHolds EditsCompose EveryLineOnce SearchHonest
PROPERTY ShellCallsEnd
CHECK_DEADLOCK FALSE
