SPECIFICATION FairSpec
CONSTANTS
    Passwords = {p1, p2}
    Methods = {"trust", "cleartext", "md5", "scram", "gss"}
    MaxAttempts = 3
INVARIANTS
    TypeOK
    AgreedIsAccepted
    InStep
    BrokenNeverSucceeds
PROPERTY
    HandshakeEnds
CHECK_DEADLOCK FALSE
