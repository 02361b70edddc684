SPECIFICATION Spec
CONSTANTS
    p1 = p1
    p2 = p2
    p3 = p3
    sessions = sessions
    reviews = reviews
    reviews_index = reviews_index
    variants = variants
    variants_index = variants_index
    guard = guard
    Procs = {p1, p2, p3}
    N = 3
    Names = {sessions, reviews, reviews_index, variants, variants_index, guard}
    Scripts <- ThreeScripts
    Newest <- OneIsOlder
    MaxOpens = 4
    MaxFaults = 2
INVARIANTS RecordedIsWhole OpenIsCurrent AloneNeverFails
CHECK_DEADLOCK FALSE
