SPECIFICATION Spec
CONSTANTS
    None = None
    Discovered <- Order
    Roots = {"A", "B"}
    RootOf <- Repository
    Versions <- Length
    Transcript <- Logs
    Marked = {"A"}
    Known = {"A"}
    Stored <- Earlier
    MaxEventGap = 4
    MinOccurrences = 2
    MinProjects = 1
    Filters = {None, "A"}
    Triages = {"false_positive"}
    MaxImports = 2
    MaxInits = 1
    MaxGrowth = 1
    MaxEvents = 2
    MaxFaults = 1
    MaxExtracts = 2
    MaxTriages = 1
    MaxCommands = 3
INVARIANTS TypeOK OptedInOnly ImportedIsCurrent EvidenceStands SkippedIsDetected TriageKept ProposalsAreEligible
PROPERTIES TrajectoryKeepsItsNumber IncrementalIsExact GenerationIsExact
CHECK_DEADLOCK FALSE
