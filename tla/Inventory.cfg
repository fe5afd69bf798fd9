SPECIFICATION Spec
CONSTANTS
    login1 = login1
    value = value
    Customers = {1, 2}
    Logins = {login1}
    Missing = Missing
    NoRow = NoRow
    MaxEdits = 1
    MaxFaults = 1
    Devices = {d1}
    Reports <- MCReports
    Unknown = Unknown
    NoId = NoId
    Chipsets = {"Realtek"}
    Registry <- MCRegistry
    Slug <- MCSlug
    Seed <- MCSeed
    VendorForms <- MCForms
    VendorIds = {1, 2}
    NoVendor = NoVendor
    Ticks = {"worker", "operator"}
INVARIANTS TypeOK
PROPERTIES DeviceSynced LinkFollowsLogin DeletionsEnd
