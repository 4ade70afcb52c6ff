SPECIFICATION Spec
CONSTANTS
    p1 = p1  p2 = p2  m1 = m1  m2 = m2
    NoProc = NoProc  Dead = Dead  Blank = Blank  NoJob = NoJob
    Proc = {p1, p2}
    Mission = {m1, m2}
    Prereq <- SecondNeedsFirst
    Priorities = {1}
    Deps <- NoDeps
    InitStatus = {"none", "planned"}
    ByHand = {"start", "create", "force", "delegate"}
    MaxEntries = 1
    MaxCrashes = 0
INVARIANTS PrerequisitesFirst
CHECK_DEADLOCK FALSE
