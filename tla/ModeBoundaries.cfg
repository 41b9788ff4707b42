SPECIFICATION Spec
CONSTANTS
    Mode = {m1, m2}
    NoMode = none
    Call = {}
    Diff = {}
    NoDiff = nodiff
    MaxPrompts = 3
    MaxAborts = 1
    MaxInputs = 6
    Transcripts = TRUE
INVARIANT ModeBoundariesAreRespected
