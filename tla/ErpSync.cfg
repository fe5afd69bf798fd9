SPECIFICATION ErpSpec
CONSTANTS
    login1 = login1
    Customers = {1, 2}
    Logins = {login1}
    FirstLogins <- MCFirstLogins
    Missing = Missing
    NoRow = NoRow
    PerPage = 1
    MaxEdits = 2
    MaxFaults = 1
INVARIANTS ErpTypeOK NonePassed
PROPERTIES RowsFollowErp
