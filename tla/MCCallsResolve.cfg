CONSTANTS
    ann = ann
    bob = bob
    pc = pc
    phone = phone
    tablet = tablet
    None = None
    Users = {ann, bob}
    Devices = {pc, tablet}
    UserOf <- MCUserOf
    Blockers = {bob}
    Timeout = 1
    PushService = TRUE
    Faults = TRUE
    MaxCalls = 1
SPECIFICATION FairSpec
PROPERTIES
    EveryCallResolves
CHECK_DEADLOCK FALSE
