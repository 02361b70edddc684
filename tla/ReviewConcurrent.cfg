SPECIFICATION Spec
CONSTANTS
    None = None
    Missing = Missing
    p1 = p1
    p2 = p2
    f1 = f1
    f2 = f2
    e1 = e1
    Agents = {"codex"}
    Placements = {"project_rule"}
    Edits = {e1}
    Reserved = {}
    HumanTexts = {"blank", "front matter"}
    Contents <- MCContents
    Procs = {p1, p2}
    OpsOf <- TwoProcs
    Fps = {f1}
    Targets = {}
    MaxOps = 5
    MaxRegen = 0
    MaxHuman = 1
    MaxFaults = 1
INVARIANTS AppliedOnRecord
PROPERTIES HumanTextSurvives LedgerRespected
CHECK_DEADLOCK FALSE
