SPECIFICATION Spec
CONSTANTS
    h1 = h1
    h2 = h2
    k1 = k1
    k2 = k2
    m1 = m1
    m2 = m2
    announce = announce
    anyAnnounce = anyAnnounce
    None = None
    Hosts = {h1, h2}
    Topics = {announce, anyAnnounce}
    Published = {announce}
    Matching <- MCMatching
    Tasks = {k1, k2}
    Messages = {m1, m2}
    MaxPackets = 2
    Scenarios <- MCConcurrent
INVARIANT
    Served
