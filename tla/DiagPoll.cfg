SPECIFICATION Spec
CONSTANTS
    NoTest = NoTest
    Tests = {t1, t2}
    Objects = {ping}
    NoObject = NoObject
    Limit = 1
    MaxFaults = 1
INVARIANTS TypeOK AloneReportsItself
PROPERTIES ResultStays TestsEnd
