SPECIFICATION Spec
CONSTANTS
    c1 = c1
    c2 = c2
    Clients <- MCClients
    Limit = 2
    Window = 2
    MaxTime = 6
SYMMETRY Symmetry
CHECK_DEADLOCK FALSE
INVARIANTS
    AtMostQuotaPerWindow
    RefusedOnlyAfterAdmission
