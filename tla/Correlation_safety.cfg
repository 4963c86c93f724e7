CONSTANTS
    None = None
    cloud = cloud
    web = web
    lan = lan
    station = station
    serve = serve
    correlate = correlate
    ingest = ingest
    Source = {cloud, lan}
    Cloud = {cloud}
    KindOf <- MCKindOf
    LooksOf <- MCLooksOf
    MinPorts = 5
    MinDrops = 3
    Threshold = 1
    MaxListed = 3
    MaxEvents = 2
    MaxCases = 4
    MaxEntities = 4
    MaxLookupFailures = 1
    MaxFaults = 1
    MaxCrashes = 1
    MaxCycles = 2
    MaxCommands = 0
    Correlator = {serve}
    Ingester = {ingest}
SPECIFICATION Spec
CHECK_DEADLOCK FALSE
INVARIANTS
    TypeOK
    LinksResolve
    PostedOnce
    ScannersHaveCases
