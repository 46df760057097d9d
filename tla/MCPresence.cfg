SPECIFICATION Spec
CONSTANTS
    tower = tower
    tower2 = tower2
    phone = phone
    Machines <- MCMachines
    DeviceId <- MCDeviceId
    Hosts = {east, west}
    MaxSignIns = 3
    MaxFailures = 1
    Conns = {s1, s2}
    Servers = {east, west}
    MaxConnects = 2
    MaxFrames = 1
INVARIANTS
    TypeOK
    GoneMeansOffline
PROPERTIES
    GoneReadsOffline
    PickerSettles
CHECK_DEADLOCK FALSE
