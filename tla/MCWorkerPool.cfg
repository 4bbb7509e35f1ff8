SPECIFICATION Spec
CONSTANTS
    Workers = {w1, w2}
    First = w1
    Main = main
    Nobody = nobody
INVARIANTS
    TypeOK
    NoWorkerUnderneath
PROPERTIES
    PauseCompletes
    StopReturns
    ResumeReachesAll
