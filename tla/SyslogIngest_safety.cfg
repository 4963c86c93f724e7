CONSTANTS
    None = None
    ssh = ssh
    http = http
    web = web
    noise = noise
    radiation = radiation
    Key = {ssh, http, noise}
    HighKey = {ssh}
    MediumKey = {http}
    BurstThreshold = 2
    BurstMaxEvents = 3
    MaxConcurrentAlerts = 1
    MaxLines = 4
    MaxCases = 6
    MaxFaults = 1
    MaxCrashes = 1
    MaxCommands = 1
SPECIFICATION Spec
CHECK_DEADLOCK FALSE
INVARIANTS
    TypeOK
    NothingForgotten
    AlertedOnce
    RolledUpNotAlerted
    AlertedCaseHasRow
    HighNeverWaits
    InfoStaysOutOfSlack
    BoundedGrowth
    EventsGrouped
    EventHasOneHome
PROPERTIES
    EventsNeverLeave
    DeletesFollowRollUp
