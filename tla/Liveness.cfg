SPECIFICATION FairSpec
CONSTANTS
    a = a
    b = b
    c3 = c3
    f1 = f1
    f2 = f2
    Earlier = Earlier
    Stranger = Stranger
    NoFingerprint = NoFingerprint
    Callers <- TwoCallers
    InFlight <- AllWait
    OnStorageError <- AllRun
    Fingerprint <- NoFingerprints
    Lease = 2
    Interval = 1
    ResultTtl = 1
    Latency = 0
    Padded = {b}
    Blips = 0
    MaxLate = 1
    Faults = {"cancel_claim", "cancel_cleanup", "cancel_join", "crash", "direct_use", "late",
              "outage", "rejected", "release_outage", "stall", "unstorable"}
    Leftovers = {"none", "foreign", "abandoned"}
PROPERTIES
    ClaimEnds
    ReservationEnds
