SPECIFICATION Spec
CONSTANTS
    None = None
    n1 = n1
    n2 = n2
    n3 = n3
    Notices = {n1, n2, n3}
    PageSize = 1
    MaxPages = 2
    Backlog = 1
    WithdrawalsAt = {}
    SpansMidnight = FALSE
    MaxDay = 2
    MaxFaults = 0
INVARIANTS
    CoveredUpToCursor
