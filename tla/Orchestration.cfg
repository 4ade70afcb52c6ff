SPECIFICATION FairSpec
CONSTANTS
    c1 = c1  c2 = c2  t1 = t1
    Chain = {c1, c2}
    Task = {t1}
    Outcomes = {"completed"}
    Commands = {"verify"}
    MaxDeaths = 1
    NoTasks = NoTasks
    ByHand = ByHand
    Nobody = Nobody
INVARIANTS TypeOK RepeatsHaveCause OutcomeKept ToldOnce
PROPERTIES ChainEnds
CHECK_DEADLOCK FALSE
