SPECIFICATION Spec
CONSTANTS
    Pictures <- MCPictures
    MaxEdits <- MCMaxEdits
    Edited <- MCEdited
    Palette = {0, 14}
    Values = {0, 14, 15}
    SampleTargets = {"COLOR0", "HPOSP1", "COLOR3"}
INVARIANTS ProgramsLegal KernelKeepsTime SavesRestore
PROPERTIES SolverKeepsContract
CHECK_DEADLOCK FALSE
