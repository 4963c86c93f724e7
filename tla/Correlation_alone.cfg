CONSTANTS
    None = None
    cloud = cloud
    web = web
    lan = lan
    station = station
    serve = serve
    correlate = correlate
    ingest = ingest
    Source = {cloud, station}
    Cloud = {cloud}
    KindOf <- MCKindOf
    LooksOf <- MCLooksOf
    MinPorts = 5
    MinDrops = 3
    Threshold = 2
    MaxListed = 2
    MaxEvents = 3
    MaxCases = 4
    MaxEntities = 4
    MaxLookupFailures = 0
    MaxFaults = 1
    MaxCrashes = 0
    MaxCycles = 2
    MaxCommands = 1
    Correlator = {serve}
    Ingester = {}
SPECIFICATION FairSpec
CHECK_DEADLOCK FALSE
INVARIANTS
    CaseEvidence
    LinkedBeforeAlert
PROPERTIES
    CycleEnds
