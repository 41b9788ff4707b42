SPECIFICATION Spec
CONSTANTS
    Mode = {m1, m2}
    NoMode = none
    Call = {c}
    Diff = {d}
    NoDiff = nodiff
    MaxPrompts = 3
    MaxAborts = 1
    MaxInputs = 6
    Transcripts = TRUE
INVARIANTS
    
    EveryThoughtIsClosed
PROPERTY EveryPromptIsSettled
