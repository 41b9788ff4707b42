SPECIFICATION Spec
CONSTANTS
    Tool = {t}
    MaxAttempts = 2
    MaxProcesses = 2
    MaxUpdates = 2
    Mode = {m1, m2}
    AutoApproving = {m2}
    NoMode = none
    MaxPrompts = 2
    MaxTries = 2
    MaxAborts = 1
INVARIANT AbortLeavesItActive
