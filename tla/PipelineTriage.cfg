SPECIFICATION Spec
CONSTANTS
    None = None
    Discovered <- Order
    Roots = {"A", "B"}
    RootOf <- Repository
    Versions <- Length
    Transcript <- Logs
    Marked = {"A"}
    Known = {"A", "B"}
    Stored <- Earlier
    MaxEventGap = 4
    MinOccurrences = 2
    MinProjects = 1
    Filters = {None, "B"}
    Triages = {"false_positive"}
    MaxImports = 0
    MaxInits = 0
    MaxGrowth = 0
    MaxEvents = 1
    MaxFaults = 0
    MaxExtracts = 3
    MaxTriages = 1
    MaxCommands = 3
INVARIANT TriageSurvives
CHECK_DEADLOCK FALSE
