SPECIFICATION MCSpec
CONSTANTS
    Parts = {"main"}
    bdm = bdm
    update = update
    drive1 = drive1
    drive2 = drive2
    Threads = {bdm, update}
    Drive <- MCDrive
    Updaters = {update}
    Priority <- MCPriority
    bulkEp <- MCPipes
    bEndpointAddress <- Address2
    sectorCount = 2
    max_sectors = 2
    SCSI_MAX_RETRIES = 2
    Data = {a}
    Junk = Junk
    MaxCount = 1
    TagCount = 2
    Faults = {}
INVARIANTS
    OwnCommand
