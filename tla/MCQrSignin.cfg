CONSTANTS
    Challenges = {c1, c2, c3}
    Users = {u1, u2}
    IPs = {ip1}
    Requests = {r1, r2}
    None = None
    TTL = 1
    MaxActive = 1
    CountFails = FALSE
    MaxTime = 3
SYMMETRY Symmetry
SPECIFICATION Spec
INVARIANTS
    TypeOK
    LoginWasApproved
    CapOvershootBounded
PROPERTIES
    SettledStaysSettled
    ImplementsOneShot
CHECK_DEADLOCK FALSE
