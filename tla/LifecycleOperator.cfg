SPECIFICATION Spec
CONSTANTS
    None = None
    Missing = Missing
    p1 = p1
    p2 = p2
    r1 = r1
    c1 = c1
    c2 = c2
    s1 = s1
    Procs = {p1, p2}
    OpsOf <- TwoProcs
    Reviews = {r1}
    Proposals <- Scoped
    Texts = {c2}
    Asked <- AskedPlacements
    ChildLists <- OneChild
    Registered = {s1}
    Evidence <- SomeEvidence
    HumanTexts = {"blank"}
    MaxOps = 4
    MaxOverlaps = 1
    MaxOutside = 1
    MaxFaults = 1
INVARIANTS TypeOK OneCurrent CurrentHasOrigin AppliedWasWritten RollbackNotRecommended
PROPERTIES HistoryRespected PruneIsFinal
CHECK_DEADLOCK FALSE
