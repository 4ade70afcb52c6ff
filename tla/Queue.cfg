SPECIFICATION FairSpec
CONSTANTS
    p1 = p1  p2 = p2  m1 = m1  m2 = m2
    NoProc = NoProc  Dead = Dead  Blank = Blank  NoJob = NoJob
    Proc = {p1, p2}
    Mission = {m1, m2}
    Prereq <- SecondNeedsFirst
    Priorities = {1, 2}
    Deps <- NoDeps
    InitStatus = {"planned"}
    ByHand = {}
    MaxEntries = 2
    MaxCrashes = 1
INVARIANTS TypeOK
PROPERTIES QueueIsKept NoHeadOfLineBlocking
