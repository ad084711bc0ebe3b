SPECIFICATION MeasuredSpec
CONSTANTS
    a = a
    b = b
    c3 = c3
    f1 = f1
    f2 = f2
    Earlier = Earlier
    Stranger = Stranger
    NoFingerprint = NoFingerprint
    Callers <- TwoCallers
    InFlight <- OnlyAWaits
    OnStorageError <- OnlyARuns
    Fingerprint <- TwoRequests
    Lease = 1
    Interval = 1
    ResultTtl = 2
    Latency = 1
    Padded = {}
    Blips = 1
    MaxLate = 1
    Faults = {"action_fails", "cancel_action", "cancel_claim", "cancel_join",
              "cancel_cleanup", "outage", "release_outage", "late", "crash",
              "results_expire", "rejected", "unstorable", "direct_use"}
    Leftovers = {"none", "result", "foreign", "corrupt", "abandoned"}
INVARIANTS
    TypeOK
    FingerprintRespected
    HonestAnswer
    ErrorsMeanNotRun
    HitsAreReplays
    NoCallUncounted
