SPECIFICATION Spec
CONSTANTS
    Workers = {w1}
    Pics = {"p", "q"}
    Rows = {"r", "s", "t"}
    Alone <- MCAlone
    Paired <- MCPaired
    Kind = "LAHC"
    HistorySize = 1
    Drifts <- MCDrifts
    FirstSteps = 1
    AlternateSteps = 2
    MaxEvals = 4
INVARIANT EvaluationFresh
