SPECIFICATION Spec
CONSTANTS
    p1 = p1  p2 = p2  o1 = o1  o2 = o2  r1 = r1  r2 = r2
    NoOp = NoOp  NoRole = NoRole  NoRequest = NoRequest
    Proc = {p1, p2}
    Op = {o1, o2}
    Gated = {o1}
    Direct = {o2}
    Role = {r1, r2}
    Workflows <- BothRoles
    MaxCalls = 4
    MaxExits = 1
    MaxLost = 1
    MaxNow = 1
    MaxDays = 2
SYMMETRY Symmetry
CHECK_DEADLOCK FALSE
INVARIANTS TypeOK AuthorityWasApproved NewestDecides OneRequestEach IntactIsUnbroken AlarmHasCause
PROPERTIES LostOnlyToStaleCopy
