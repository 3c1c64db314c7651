SPECIFICATION MCSpec
CONSTANTS
    fraglist <- MCFraglist
    First <- MCFirst
    bdSectors = 5
    Data = {1, 2}
    MaxSector = 5
    MaxCount = 3
INVARIANTS
    CallSound
    ListIsFile
    HandlesSound
PROPERTIES
    FileIsDevice
    Returns
