SPECIFICATION ScopedSpec
CONSTANTS
    alice = alice
    bob = bob
    pc = pc
    phone = phone
    desk = desk
    east = east
    west = west
    Users <- MCUsers
    Devices <- MCDevices
    Owner <- MCOwner
    Instances <- MCInstances
    Requests = {r1, r2}
    Nonces = {n1, n2}
    Texts = {hi}
    Atts = {a1}
    None = None
    Page = 1
    Unread = {n2}
    MaxRows = 3
    MaxOps = 4
INVARIANTS
    TypeOK
    NoSilentGap
    DeletedTextGone
    ReceiptTruthful
    AttachmentPrivate
    RetriesBounded
SYMMETRY Symmetry
CHECK_DEADLOCK FALSE
