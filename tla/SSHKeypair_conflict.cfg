CONSTANTS
    p1 = p1
    p2 = p2
    k1 = k1
    k2 = k2
    k3 = k3
    NoKey = NoKey
    Absent = Absent
    Callers <- MCCallers
    Keys <- MCKeys
    InitialSecrets <- MCEmptyStore
SPECIFICATION Spec
INVARIANTS ConflictResolved
