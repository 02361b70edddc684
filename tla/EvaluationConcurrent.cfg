SPECIFICATION Spec
CONSTANTS
    None = None
    p1 = p1
    p2 = p2
    Procs = {p1, p2}
    SpecIds = {e1}
    Commits = {k1, k2}
    Heads = {k1}
    Unsafe = {k2}
    Texts = {c1, c2}
    Proposed = c1
    Decisions = {"rejected"}
    Modes = {"alternating"}
    Checks <- TwoChecks
    CanPass <- Traded
    Agents = {TRUE}
    Counts <- TwoAndOne
    MaxRequests = 2
    MaxIndex = 2
    MaxOutside = 1
    MaxFaults = 1
INVARIANTS TypeOK OnePairOneHandler SpecIsOneRevision FrozenInputs ConditionsApart NoHiddenRegression WorkspacesRemoved
PROPERTIES Answered
CHECK_DEADLOCK FALSE
