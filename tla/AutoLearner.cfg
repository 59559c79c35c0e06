CONSTANTS
    Orgs <- FiveOrgs
    Keywords <- Words6
    Name <- FiveNames
    Similar <- Pairs
    Types <- Order
    Base <- Lists0
    MinConfidence = 2
    MaxAdds = 1
    MaxFaults = 2
    MaxCrashes = 1
SPECIFICATION FairSpec
INVARIANTS
    TypeOK
    LearnedWasApproved
    ApprovedIsKept
PROPERTIES
    ClassesMoveUp
    Learns
