SPECIFICATION MCSpec
CONSTANTS
    Parts = {"main", "rough", "fair"}
    bdm = bdm
    update = update
    drive1 = drive1
    drive2 = drive2
    Threads = {bdm}
    Drive <- MCDrive
    Updaters = {}
    Priority <- MCPriority
    bulkEp <- MCPipes
    bEndpointAddress <- Address1
    sectorCount = 2
    max_sectors = 2
    SCSI_MAX_RETRIES = 2
    Data = {a, b}
    Junk = Junk
    MaxCount = 2
    TagCount = 2
    Faults = {"short", "in", "fail"}
INVARIANTS
    TransportSound
PROPERTIES
    ImplementsBlockDevice
    FairReturns
CHECK_DEADLOCK FALSE
