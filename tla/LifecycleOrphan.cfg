SPECIFICATION Spec
CONSTANTS
    None = None
    Missing = Missing
    p1 = p1
    p2 = p2
    r1 = r1
    c1 = c1
    c2 = c2
    s1 = s1
    Procs = {p1}
    OpsOf <- Applying
    Reviews = {r1}
    Proposals <- Scoped
    Texts = {c2}
    Asked <- AskedPlacements
    ChildLists <- OneChild
    Registered = {s1}
    Evidence <- SomeEvidence
    HumanTexts = {"blank"}
    MaxOps = 6
    MaxOverlaps = 0
    MaxOutside = 0
    MaxFaults = 0
INVARIANT OneBlock
CHECK_DEADLOCK FALSE
