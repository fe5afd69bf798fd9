SPECIFICATION Spec
CONSTANTS
    hModel = hModel
    hGeneric = hGeneric
    NoHeader = NoHeader
    ReadOnlyKeys = {"vlan"}
    NoProfile = NoProfile
    Profiles = {p1}
    Headers = {hModel, hGeneric}
    Generic = {hGeneric}
    Contents <- MCContents
    Calls = {c1, c2}
    MaxVersion = 2
    MaxFaults = 1
INVARIANTS TypeOK SnapshotsExact BulkIsHomologated FieldsAreHomologated PayloadOfVersion
PROPERTY HomologatedImmutable
SYMMETRY Interchangeable
