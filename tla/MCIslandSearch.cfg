SPECIFICATION Spec
CONSTANTS
    Workers = {w1, w2}
    First = w1
    NoWorker = NoWorker
    Pics = {"a", "b", "c"}
    InitialPic = "a"
    MaxObjective = 1
    Cost <- MCCost
    Unscored = 9
    Kind = "DLAS"
    HistorySize = 2
    Drifts <- MCDrifts
    MaxEvals = 4
    SavedEvaluations = {0, 3, 5}
INVARIANTS
    SnapshotDescribesBest
    BestIsLowest
    CostNotInflated
    PublishedWasAccepted
    OneObjectivePerEvaluation
    OvershootBounded
PROPERTIES
    Publishes
