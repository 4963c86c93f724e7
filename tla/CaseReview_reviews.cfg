CONSTANTS
    None = None
    wan = wan
    plex = plex
    nas = nas
    near = near
    mate = mate
    lone = lone
    net = net
    far = far
    tcp = tcp
    reviewer = reviewer
    WanIP = wan
    Score <- MCScore
    Benign = {lone}
    Accused = {plex}
    Network <- MCNetwork
    CidrGroupThreshold = 2
    DefaultLimit = 2
    AgentLook <- MCLook
    CollectorLook <- MCDrop
    SeverityOf <- MCSeverityOf
    KnownPort = {80}
    BurstThreshold = 1
    BurstMaxEvents = 3
    ClusterThreshold = 2
    ReviewOption <- MCReviewOption
    ExportOption <- MCExportOption
    Host = {plex, nas}
    Reviewer = {reviewer}
    MaxListed = 2
    MaxDevices = 1
    Outage <- MCOutage
    MaxEvents = 3
    MaxCases = 2
    Moment = {2}
    MaxCommands = 1
SPECIFICATION Spec
CHECK_DEADLOCK FALSE
CONSTRAINT
    InScope
INVARIANTS
    BriefingsAreSound
    SelectionKeepsNewest
    
