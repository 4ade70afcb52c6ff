SPECIFICATION FairSpec
CONSTANTS
    j1 = j1  j2 = j2  j3 = j3  j4 = j4
    Job = {j1, j2, j3, j4}
    Limit = 2
    NoData = NoData
INVARIANTS TypeOK QueueDataFresh SlotsAreUsed
PROPERTIES ImplementsSlots OutcomeIsFinal EveryJobEnds
CHECK_DEADLOCK FALSE
