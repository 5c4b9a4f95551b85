CONSTANTS
    Procs = {c1, c2}
    Ids = {i1, i2}
    Data = {d1, d2}
    Newer = {d2}
    None = None
    MaxCalls = 2
    Sessions = {c1, c2}
    Names = {i1, i2}
    Values = {v0, v1}
    Default = v0
    Nothing = Nothing
    Releases = {1, 2}
    Migrations = {1}
    MaxInbox = 1
    c1 = c1
    c2 = c2
    c3 = c3
    Callers = {c1, c2, c3}
    Process <- MCProcess
    MemIds = {m1}
    Texts <- MCTexts
    HandWritten <- MCHandWritten
    Inodes = {o1, o2, o3}
    Absent = Absent
    StaleAge = 0
    MaxTick = 2
    MaxMemCalls = 3
SPECIFICATION PersistenceSpec
SYMMETRY Symmetry
INVARIANTS AckedSurvives StateKept ReadsCurrent
PROPERTIES Implements CreatedKept
CHECK_DEADLOCK FALSE
