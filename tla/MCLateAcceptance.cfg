SPECIFICATION Spec
CONSTANTS
    HistorySize = 3
    MaxCost = 4
    Drifts <- MCDrifts
INVARIANTS
    MaximaAgreeWithHistory
    CurrentWithinHistory
    SettlesAfterFullLap
PROPERTIES
    HistoryCeiling
