SPECIFICATION Spec
CONSTANTS
    Apps = {"S6a", "S6t", "S6c", "SGd"}
    MaxMembers = 3
    FdJsonGetJSON <- JsonOf
    FdJsonAddAvps <- AvpsOf
INVARIANTS
    SeesWhatWasSent
    FreedOnce
    
    BadMemberContained
PROPERTIES
    FoundStays
CHECK_DEADLOCK FALSE
