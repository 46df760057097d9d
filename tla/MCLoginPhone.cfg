CONSTANTS
    Accounts = {ann}
    Nonces = {n1, n2}
    Approvals = {a1}
    Requests = {r1}
    None = None
    TTL = 1
    NonceTTL = 1
    MaxFails = 2
    Lockout = 1
    MaxTime = 2
SPECIFICATION Spec
INVARIANT PhoneCannotLockOut
CHECK_DEADLOCK FALSE
