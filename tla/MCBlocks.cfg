SPECIFICATION MCSpec
CONSTANTS
    SECTORS_PER_BLOCK = 2
    BLOCK_COUNT = 2
    BLOCK_WEIGHT_FACTOR = 1
    sectorSize = 512
    sectorCount = 2
    Data = {1, 2}
    U64 = 7
    INT_MAX = 1
    MaxCount = 2
INVARIANTS
    Coherent
    CommandsSound
PROPERTIES
    CacheRefinesDevice
    DiskIsDevice
    CardIsDevice
