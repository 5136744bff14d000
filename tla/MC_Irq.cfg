SPECIFICATION Spec
CONSTANTS
    IRQ_VECTOR_MIN = 126
    IRQ_VECTOR_MAX = 128
    SYSCALL_VECTOR = 128
    CAL_VECTOR = 254
    CalTicks = 1
    AcpiIrqs = {9, 30}
    Iso <- MCIso
    Gsis = {2, 4, 5}
    net = net
    disk = disk
    old = old
    new = new
    Devices = {net, disk}
    Drivers = {old, new}
    Line <- MCLine
    DeviceId <- MCDeviceId
    id_table <- Mid_table
    Handling = {old}
    NULL = NULL
CHECK_DEADLOCK FALSE
INVARIANTS
    VectorsOwned
    LinesReady
    LinesServed
    DevicesBound
