SPECIFICATION MCSpec
CONSTANTS
    Users = {a, b}
    Openers = {a}
    Masters = {b}
    Slots = {s, t}
    None = None
    Careful = TRUE
    MaxLosses = 2
    Faults <- Refusing
INVARIANTS
    SessionsApart
    
PROPERTIES
    CallsReturn
