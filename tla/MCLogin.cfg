CONSTANTS
    Accounts = {ann, bob}
    Nonces = {n1, n2, n3}
    Approvals = {a1}
    Requests = {r1, r2}
    None = None
    TTL = 1
    NonceTTL = 1
    MaxFails = 1
    Lockout = 1
    MaxTime = 1
SYMMETRY Symmetry
SPECIFICATION Spec
INVARIANTS
    TypeOK
    NonceSingleUse
    ApprovalBuysOneLogin
    LockoutLeaksOnlyInFlight
PROPERTIES
    ImplementsApproval
CHECK_DEADLOCK FALSE
