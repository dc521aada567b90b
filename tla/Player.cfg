SPECIFICATION PlayerSpec
CONSTANTS
    door = door
    key = key
    r1 = r1
    r2 = r2
    MaxRequests = 2
    MaxStarts = 3
    MaxGeneration = 2
    Entities = {door, key}
    States = {"open", "shut"}
    Readers = {r1, r2}
    Limits = {1, 2}
    EventCapacity = 2
    MaxSequence = 5
INVARIANTS
    PlayerTypeOK
    PortServed
    StoppedIsSilent
    GapsOnlyBeyondCapacity
PROPERTIES
    StopSettles
CHECK_DEADLOCK FALSE
