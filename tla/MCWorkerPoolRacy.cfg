SPECIFICATION RacySpec
CONSTANTS
    Workers = {w1, w2}
    First = w1
    Main = main
    Nobody = nobody
INVARIANT
    CountAccurate
