CONSTANTS
    Programs = {ls}
    Allowed = {ls}
    Denied = {}
    MaxTrackedCds = 1
    MaxCds = 1
    ShellCalls = {s1}
    Nowhere = Nowhere
    Keep = Keep
    Roots <- MCRoots
    Scratches <- MCScratches
    RuntimeDirs <- MCRuntimeDirs
    RunLinks <- MCRunLinks
    Exposable <- MCExposable
    MaxLineChars = 2
    Editors = {e1}
    Writers = {}
    EditLists <- BreakFirst
    Contents <- MCContents
    NoFile = NoFile
    NoOne = NoOne
    ChunkSize = 2
    MaxReadChars = 6
    DefaultLimit = 3
    CutNote = 1
    Prefix = 1
    Entries = 1
    MaxLines = 1
    Modes = {"grep"}
    ContextLines = {0}
    Limits = {1}
    MaxOutput = 5
SPECIFICATION ToolsSpec
INVARIANT EditKeepsLineEndings
CHECK_DEADLOCK FALSE
