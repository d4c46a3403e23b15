SPECIFICATION Spec
CONSTANTS
    MaxCapacity = 3
    Values = {u, w}
    NoValue = NoValue
    Garbage <- MCGarbage
INVARIANTS
    Agree
    RoomForNew
PROPERTIES
    ImplementsMap
