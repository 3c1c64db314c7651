SPECIFICATION MCSpec
CONSTANTS
  p1 = p1
  p2 = p2
  hub = hub
  mass = mass
  pad = pad
  Ports = {p1, p2}
  NUM_DEVICES = 2
  MaxPlugs = 3
  Faults = {"memory", "refuse", "command"}
  None = None
INVARIANTS
    SlotsKept
    
    

    
CHECK_DEADLOCK FALSE
