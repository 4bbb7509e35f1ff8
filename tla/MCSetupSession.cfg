SPECIFICATION Spec
CONSTANTS
    Hardware = 4
    Clock = 1
    Unlimited = 1000000000
    Images = {"a", "b"}
    Masks <- MCMasks
    Offered <- MCOffered
    TypedOutputs <- MCTyped
    Launches <- MCLaunches
    MaxRunIndex = 3
    MaxEdits = 2
    MaxStarts = 3
INVARIANTS RecipeReproduces RecipeComplete RunsKeptApart
PROPERTIES ResumesAsLeft
CHECK_DEADLOCK FALSE
