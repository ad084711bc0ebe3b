SPECIFICATION Spec
CONSTANTS
    a = a
    b = b
    c3 = c3
    f1 = f1
    f2 = f2
    Nobody = Nobody
    Earlier = Earlier
    Stranger = Stranger
    Garbage = Garbage
    Reservation = Reservation
    NoFingerprint = NoFingerprint
    Callers <- ThreeCallers
    OnStorageError <- OnlyARuns
    Fingerprint <- TwoRequests
    Padded = {c3}
    Faults = {"action_fails", "cancel", "late", "lapse", "others", "outage", "unstorable"}
    Leftovers = {Nobody, Stranger, Garbage}
INVARIANTS
    TypeOK
    ErrorsMeanNotRun
    FingerprintRespected
    HonestAnswer
CHECK_DEADLOCK FALSE
