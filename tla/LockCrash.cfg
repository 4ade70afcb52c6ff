SPECIFICATION FairSpec
CONSTANTS
    t1 = t1  t2 = t2  t3 = t3  t4 = t4
    p1 = p1  p2 = p2  p3 = p3
    Task = {t1, t2, t3, t4}
    NoFile = NoFile
    Blank = Blank
    Pid = {p1, p2, p3}
    PidOf <- SharedThird
    Mortal = {p1, p2}
    MayCrash = TRUE
INVARIANTS TypeOK ExclusiveUntilPurge LockFileHasOwner
PROPERTIES WrittenLockRecovered ImplementsMutex
