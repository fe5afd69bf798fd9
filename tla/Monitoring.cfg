SPECIFICATION Spec
CONSTANTS
    d1 = d1
    Missing = Missing
    Text = Text
    mail = mail
    chat = chat
    Devices = {d1}
    Trees <- MCTrees
    MaxHosts = 2
    PageSize = 1
    Column = 999
    MaxAge = 3
    CollectTimeout = 1
    MaxBusy = 1
    CollectEvery = 4
    MaxFaults = 1
    Rules = {r1}
    Bodies <- MCBodies
    NoRule = NoRule
    NoDevice = NoDevice
    AlertIds = {1, 2}
    NoAlert = NoAlert
    MaxCooldown = 1
INVARIANTS TypeOK RowsCountOnce OneOpenAlert ChannelsRecorded
PROPERTIES HotFires CalmResolves
