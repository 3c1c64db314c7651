SPECIFICATION MCSpec
CONSTANTS
    usb = usb
    sd = sd
    hdd = hdd
    Devices = {usb, sd, hdd}
    Name <- MCName
    Scheme <- MCScheme
    Table <- MCTable
    Fat <- MCFat
    Pops <- MCPops
    Ready <- MCReady
    MAX_CONNECTIONS = 4
    MAX_PARTITIONS = 2
    MaxPlugs = 2
    Faults = {"memory", "read"}
INVARIANTS
    
    
    Mass0IsTarget
    AtaOnly
    FilterUnderFaults
CHECK_DEADLOCK FALSE
