SPECIFICATION Spec
CONSTANTS
    a = a
    b = b
    c3 = c3
    f1 = f1
    f2 = f2
    Nobody = Nobody
    Earlier = Earlier
    Stranger = Stranger
    Garbage = Garbage
    Reservation = Reservation
    NoFingerprint = NoFingerprint
    Callers <- ThreeCallers
    OnStorageError <- AllRun
    Fingerprint <- NoFingerprints
    Padded = {}
    Faults = {"action_fails", "cancel", "crash", "late"}
    Leftovers = {Nobody, Earlier}
INVARIANTS
    Agreement
    AgreementInv
PROPERTIES
    ImplementsOneResult
CHECK_DEADLOCK FALSE
