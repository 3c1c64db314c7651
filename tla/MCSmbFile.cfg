SPECIFICATION MCSpec
CONSTANTS
    Files = {f}
    Slots = {s, t}
    None = None
    Data = {1, 2}
    MaxLength = 3
    MaxCount = 2
    READ_AHEAD_SIZE = 2
    Faults <- Both
INVARIANTS
    ReadsFile
    
PROPERTIES
    ReadsReturn
