SPECIFICATION Spec
CONSTANTS
    c1 = c1  c2 = c2  c3 = c3
    Call = {c1, c2, c3}
    MaxBoots = 2
    None = None
INVARIANTS TypeOK OneBoot GoneMeansGone NoStoppedHandle JoinedBootIsRun
PROPERTIES ImplementsSingleProvider
