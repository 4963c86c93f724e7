CONSTANTS
    first = first
    second = second
    other = other
    scanner = scanner
    visitor = visitor
    None = None
    Loop = Loop
    question = question
    Case = {first, second}
    HighCase = {second}
    SrcOf <- MCSrcOf
    Mention = {question}
    MaxListed = 1
    MaxCommands = 2
    MaxFaults = 1
SPECIFICATION FairSpec
CHECK_DEADLOCK FALSE
INVARIANTS
    ThreadsStayApart
    PriorLinksAreRelated
    OneSpareThreadAtMost
PROPERTIES
    AlertsFinish
