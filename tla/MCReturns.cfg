SPECIFICATION MCSpec
CONSTANTS
    usb = usb
    hdd = hdd
    Devices = {usb, hdd}
    Name <- MCName
    Scheme <- MCScheme
    Table <- MCTable
    Fat <- MCFat
    Pops <- MCReady
    Ready <- MCReady
    MAX_CONNECTIONS = 4
    MAX_PARTITIONS = 2
    MaxPlugs = 3
    Faults = {}
INVARIANTS
    NothingMissed
PROPERTIES
    CallsReturn
CHECK_DEADLOCK FALSE
