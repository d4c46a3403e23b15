\* Four addresses; the count overflows at 3 references.
SPECIFICATION Spec
CONSTANTS
    Nodes = {n1, n2, n3, n4}
    NULL = NULL
    kMaxRef = 3
    MaxSubs = 2
    MaxHeld = 3
SYMMETRY Addresses
INVARIANTS
    RefsExact
    NoDanglingSubs
    NothingLeaks
