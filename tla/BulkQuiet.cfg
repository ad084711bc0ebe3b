SPECIFICATION Spec
CONSTANTS
    k1 = k1
    k2 = k2
    k3 = k3
    b1 = b1
    b2 = b2
    b3 = b3
    r1 = r1
    d1 = d1
    s1 = s1
    Earlier = Earlier
    Garbage = Garbage
    Nobody = Nobody
    Keys <- ThreeKeys
    Batches = {b1, b2, b3}
    Batch <- Overlapping
    Rollback <- AllRollBack
    Readers = {}
    Deleters = {}
    Wanted <- Everything
    Singles = {s1}
    Faults = {}
    Leftovers = {Nobody, Earlier}
INVARIANTS
    AllOrNothing
    RollbackInv
PROPERTIES
    RollbackSparesOthers
CHECK_DEADLOCK FALSE
