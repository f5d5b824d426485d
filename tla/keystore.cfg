SPECIFICATION Spec
CONSTANTS
    s1 = s1
    s2 = s2
    root = root
    a = a
    b = b
    r1 = r1
    None = None
    Slots = {s1, s2}
    Subjects = {root, a, b}
    RootSubject = root
    Rx = {r1}
    VerifySize = 2
    MaxExchanges = 1
    EncodeMayFail = FALSE
    PostMayFail = TRUE
    EcdhMayFail = TRUE
INVARIANTS
    Accounting
    KeyOfSender
    VerificationConsistent
    VerifyPoolSuffices
    CertificatesTakenUp
PROPERTIES
    EvictionSpares
