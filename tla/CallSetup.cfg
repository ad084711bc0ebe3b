\* The arguments of two calls, their identifiers and their TTLs; MaxKeyLength
\* is small so that the key "xxxx" is too long, and one delay outlives a
\* one-minute record.
SPECIFICATION Spec
CONSTANTS
    Calls = {"a", "b"}
    Setups <- MCSetups
    None = None
    Signature <- MCSignature
    Default <- MCDefault
    KeyParam = "key"
    InfraParam = "infra"
    FingerprintParams = {"payload"}
    Coordinators = {"on", "off"}
    Enabled = {"on"}
    Attributes <- MCAttributes
    Offered <- MCOffered
    Text <- MCText
    Delays = {0, 1, 120}
    Characters = {"x", "y", " ", ":"}
    Blank = " "
    Colon = ":"
    MaxOperationLength = 3
    MaxKeyLength = 3
    NoTtl = NoTtl
    TicksPerSecond = 2
INVARIANTS TypeOK OwnKeyOnly SameRequest ProtectedIfPossible TtlHonoured
PROPERTIES RetriesFindTheResult DefaultIsStorable
CHECK_DEADLOCK FALSE
