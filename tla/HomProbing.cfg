SPECIFICATION FairSpec
CONSTANTS
    s1 = s1
    s2 = s2
    m1 = m1
    m2 = m2
    lab = lab
    ssid = ssid
    NoProfile = NoProfile
    NoMapping = NoMapping
    NoSession = NoSession
    LabDevice <- MCLabDevice
    SessionOf <- MCSessionOf
    KeyOf <- MCKeyOf
    Sessions = {s1, s2}
    Mappings = {}
    Secret = {}
    Profiles = {}
    Calls = {c1, c2}
    MaxFaults = 1
INVARIANTS ProbingHasProbe TestingHasTree OneSessionPerDevice
PROPERTY ProbingEnds
