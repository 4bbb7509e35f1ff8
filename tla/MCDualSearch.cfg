SPECIFICATION FairSpec
CONSTANTS
    Workers = {w1, w2}
    Pics = {"p", "q"}
    Rows = {"r", "s", "t"}
    Alone <- MCAlone
    Paired <- MCPaired
    Kind = "LAHC"
    HistorySize = 1
    Drifts <- MCDrifts
    FirstSteps = 1
    AlternateSteps = 1
    MaxEvals = 2
INVARIANTS
    TypeOK
    PublishedPairScores
    IslandPairReal
    DualBestIsLowest
PROPERTIES
    DualPublishes
    DualReturns
