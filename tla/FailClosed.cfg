SPECIFICATION Spec
CONSTANTS
    a = a
    b = b
    c3 = c3
    f1 = f1
    f2 = f2
    Earlier = Earlier
    Stranger = Stranger
    NoFingerprint = NoFingerprint
    Callers <- ThreeCallers
    InFlight <- AllWait
    OnStorageError <- AllRaise
    Fingerprint <- NoFingerprints
    Lease = 3
    Interval = 1
    ResultTtl = 2
    Latency = 0
    Padded = {}
    Blips = 1
    MaxLate = 0
    Faults = {"action_fails", "cancel_action", "cancel_claim", "cancel_cleanup",
              "outage", "release_outage", "unstorable", "crash", "results_expire"}
    Leftovers = {"none", "result", "abandoned"}
INVARIANTS
    ExclusiveExecution
    FInv
PROPERTIES
    OwnersTouchOwnReservation
    ImplementsLossyOncePerKey
