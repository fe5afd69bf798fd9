SPECIFICATION Spec
CONSTANTS
    s1 = s1
    s2 = s2
    m1 = m1
    m2 = m2
    lab = lab
    ssid = ssid
    NoProfile = NoProfile
    NoMapping = NoMapping
    NoSession = NoSession
    LabDevice <- MCLabDevice
    SessionOf <- MCSessionOf
    KeyOf <- MCKeyOf
    Sessions = {s1}
    Mappings = {m1, m2}
    Secret = {m2}
    Profiles = {p1, p2}
    Calls = {c1, c2}
    MaxFaults = 0
INVARIANTS TypeOK HomologatedIsTested CompletedHasProfile
SYMMETRY Interchangeable
