CONSTANTS
    MinPorts = 5
    MinDrops = 3
    MaxEvents = 15
    Look <- MCLook
SPECIFICATION Spec
CHECK_DEADLOCK FALSE
INVARIANTS
    RulesKeepSides
    BlockedIsNamed
PROPERTIES
    SeverityNeverDrops
    RuleNeverWeakens
