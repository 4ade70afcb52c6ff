SPECIFICATION Spec
CONSTANTS
    p1 = p1  p2 = p2
    NoProc = NoProc  Dead = Dead  Blank = Blank
    NoState = NoState
    NoArchive = NoArchive
    Proc = {p1, p2}
    Commands <- CommandNames
    InitStatus = {"planned", "active", "completed"}
    MaxCmds = 3
SYMMETRY ProcSymmetry
INVARIANTS TypeOK CompletedWasVerified
PROPERTIES LockedWritesKeepRecords
CHECK_DEADLOCK FALSE
