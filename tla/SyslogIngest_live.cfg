CONSTANTS
    None = None
    ssh = ssh
    http = http
    web = web
    noise = noise
    radiation = radiation
    Key = {ssh, http, noise}
    HighKey = {ssh}
    MediumKey = {http}
    BurstThreshold = 2
    BurstMaxEvents = 2
    MaxConcurrentAlerts = 1
    MaxLines = 3
    MaxCases = 4
    MaxFaults = 1
    MaxCrashes = 1
    MaxCommands = 0
SPECIFICATION FairSpec
CHECK_DEADLOCK FALSE
PROPERTIES
    DeliversCases
    HeldCaseIsReleased
    QueuedAlertIsPosted
    LineIsFinished
