CONSTANTS
    ann = ann
    bob = bob
    pc = pc
    phone = phone
    tablet = tablet
    None = None
    Users = {ann, bob}
    Devices = {pc, tablet}
    UserOf <- MCUserOf
    Blockers = {}
    Timeout = 1
    PushService = TRUE
    Faults = FALSE
    MaxCalls = 1
SPECIFICATION Spec
INVARIANTS
    InviteReachesSockets
CHECK_DEADLOCK FALSE
