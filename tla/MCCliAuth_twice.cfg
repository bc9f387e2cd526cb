SPECIFICATION Spec
CONSTANTS
    Approvals = {a1, a2}
    Exchanges = {e1, e2}
    MaxApproveAttempts = 2
    None = None
SYMMETRY CallSymmetry
CHECK_DEADLOCK FALSE
INVARIANTS
    ExchangeAtMostOnce
