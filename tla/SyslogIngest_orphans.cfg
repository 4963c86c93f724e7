CONSTANTS
    None = None
    ssh = ssh
    http = http
    web = web
    noise = noise
    radiation = radiation
    Key = {ssh, http, noise}
    HighKey = {ssh}
    MediumKey = {http}
    BurstThreshold = 2
    BurstMaxEvents = 4
    MaxConcurrentAlerts = 1
    MaxLines = 3
    MaxCases = 4
    MaxFaults = 0
    MaxCrashes = 0
    MaxCommands = 0
SPECIFICATION FairSpec
CHECK_DEADLOCK FALSE
PROPERTIES
    NoOrphanedEvents
