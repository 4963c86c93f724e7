CONSTANTS
    None = None
    cloud = cloud
    web = web
    lan = lan
    station = station
    serve = serve
    correlate = correlate
    ingest = ingest
    Source = {web}
    Cloud = {}
    KindOf <- MCKindOf
    LooksOf <- MCLooksOf
    MinPorts = 5
    MinDrops = 3
    Threshold = 1
    MaxListed = 3
    MaxEvents = 2
    MaxCases = 4
    MaxEntities = 4
    MaxLookupFailures = 0
    MaxFaults = 0
    MaxCrashes = 0
    MaxCycles = 2
    MaxCommands = 0
    Correlator = {serve}
    Ingester = {}
SPECIFICATION Spec
CHECK_DEADLOCK FALSE
INVARIANTS
    NoSecondOpenCase
