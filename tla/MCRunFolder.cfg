SPECIFICATION Spec
CONSTANTS
    Progs = {p, q}
    Layers = {"given", "painted"}
    GivenLayer = "given"
    Params = {"off", "on"}
    Scoring = {"on"}
    Legacy = {"off", "on"}
    ScoreOn <- MCScoreOn
    EffectiveHash <- MCHash
    Targets = {"dithered", "retouched"}
    GivenTarget = "dithered"
    MaxFolders = 3
    MaxPublications = 1
    MaxEdits = 2
    MaxLives = 1
INVARIANTS ExportsAgree ErrorTableCurrent
PROPERTIES SaveRoundTrips RestorePoint ResumedOnScale
SYMMETRY Programs
