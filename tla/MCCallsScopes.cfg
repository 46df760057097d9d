CONSTANTS
    ann = ann
    bob = bob
    pc = pc
    phone = phone
    tablet = tablet
    None = None
    Users = {ann, bob}
    Devices = {pc, phone, tablet}
    UserOf <- MCUserOf
    Blockers = {bob}
    Timeout = 1
    PushService = FALSE
    Faults = FALSE
    MaxCalls = 2
SPECIFICATION ScopedSpec
INVARIANTS
    TypeOK
    OneOutcome
    InviteReachesSockets
PROPERTIES
    ImplementsOutcomes
CHECK_DEADLOCK FALSE
