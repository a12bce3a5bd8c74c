SPECIFICATION OwnershipSpec
CONSTANTS
    Clients = {"c1"}
    Horizon = 2
    MaxRows = 1
INVARIANTS
    OwnershipEnforced
CHECK_DEADLOCK FALSE
