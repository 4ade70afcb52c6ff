SPECIFICATION Spec
CONSTANTS
    p1 = p1  p2 = p2
    NoProc = NoProc  Dead = Dead  Blank = Blank
    NoState = NoState
    NoArchive = NoArchive
    Proc = {p1}
    Commands <- OneOwner
    InitStatus = {"planned"}
    MaxCmds = 6
INVARIANTS WorkIsKept ArchiveIsConsistent
PROPERTIES StatusFollowsTable
CHECK_DEADLOCK FALSE
