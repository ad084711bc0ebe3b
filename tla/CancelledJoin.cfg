SPECIFICATION Spec
CONSTANTS
    a = a
    b = b
    c3 = c3
    f1 = f1
    f2 = f2
    Earlier = Earlier
    Stranger = Stranger
    NoFingerprint = NoFingerprint
    Callers <- TwoCallers
    InFlight <- AllWait
    OnStorageError <- AllRun
    Fingerprint <- NoFingerprints
    Lease = 9
    Interval = 3
    ResultTtl = 2
    Latency = 1
    Padded = {}
    Blips = 0
    MaxLate = 0
    Faults = {"cancel_join"}
    Leftovers = {"none"}
SYMMETRY Symmetry
INVARIANTS
    RenewalOverBeforeCleanup
