SPECIFICATION LoopSpec
CONSTANTS
    Mode <- MCMode
    ModeHash <- MCModeHash
    RestartMode = 1
    StartingMode = "local"
    MaxPrompts = 3
    MaxCalls = 2
INVARIANT InItsOwnMode
CHECK_DEADLOCK FALSE
