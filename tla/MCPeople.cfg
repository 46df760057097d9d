CONSTANTS
    Focus = {"friends", "sender", "self"}
    Users = {ann, bob, cyd, dan}
    Sender = ann
    Friend = bob
    Choosy = cyd
    Requests = {r1, r2}
    None = None
    MaxOutgoing = 1
    DbFails = TRUE
    CountFails = FALSE
    MaxLimits = 2
    Names = {zoe}
    Signups = {q1, q2}
    Links = {l1, l2}
    Clerks = {c1, c2}
    Free = Free
    MaxAccounts = 2
    MaxFaults = 1
SYMMETRY Symmetry
SPECIFICATION MCSpec
INVARIANTS
    MCTypeOK
    FriendsBothAgreed
    BarriersHold
    ExpiredInvitesForgotten
    OutgoingOvershootBounded
    SelfServiceSafe
CHECK_DEADLOCK FALSE
