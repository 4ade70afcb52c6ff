SPECIFICATION Spec
CONSTANTS
    c1 = c1  c2 = c2  t1 = t1
    Chain = {c1, c2}
    Task = {t1}
    Outcomes = {}
    Commands = {"start", "verify", "import", "delegate", "distill", "finish"}
    MaxDeaths = 1
    NoTasks = NoTasks
    ByHand = ByHand
    Nobody = Nobody
INVARIANTS FinishedHasKnowledge
