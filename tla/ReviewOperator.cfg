SPECIFICATION Spec
CONSTANTS
    None = None
    Missing = Missing
    p1 = p1
    p2 = p2
    f1 = f1
    f2 = f2
    e1 = e1
    Agents = {"codex"}
    Placements = {"project_rule", "scoped_rule"}
    Edits = {e1}
    Reserved = {}
    HumanTexts = {"blank", "front matter", "unsafe"}
    Contents <- MCContents
    Procs = {p1}
    OpsOf <- OneProc
    Fps = {f1, f2}
    Targets = {}
    MaxOps = 5
    MaxRegen = 1
    MaxHuman = 1
    MaxFaults = 1
INVARIANTS TypeOK OnlyApprovedOnDisk OperableIsApproved AuditTellsStatus NextEditHasRevision
PROPERTIES PendingBlocksWrites
CHECK_DEADLOCK FALSE
