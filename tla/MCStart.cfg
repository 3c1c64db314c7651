SPECIFICATION MCSpec
CONSTANTS
    Clients = {"pad", "mc"}
    Loaded = {}
    Users = {"pops"}
    Quiet = FALSE
    Stops = FALSE
INVARIANTS
    Exclusive
    DisksSound

    
