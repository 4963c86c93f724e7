CONSTANTS
    serve = serve
    ingest = ingest
    reingest = reingest
    Server = {serve}
    Importer = {ingest, reingest}
    MaxIds = 3
    MaxLines = 2
    MaxFaults = 1
    MaxCrashes = 1
SPECIFICATION FairSpec
CHECK_DEADLOCK FALSE
PROPERTIES
    LossIsExplained
    GapCloses
