CONSTANTS
    s1 = s1
    s2 = s2
    s3 = s3
    root = root
    a = a
    b = b
    r1 = r1
    r2 = r2
    None = None
    Slots = {s1, s2, s3}
    Subjects = {root, a, b}
    RootSubject = root
    Rx = {r1}
    VerifySize = 2
    MaxExchanges = 1
    EncodeMayFail = FALSE
    PostMayFail = FALSE
    EcdhMayFail = FALSE
SPECIFICATION Spec
PROPERTY EvictionMakesRoom
