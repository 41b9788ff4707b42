SPECIFICATION Spec
CONSTANTS
    call1 = call1
    call2 = call2
    Call <- MCCall
    EditInput = {"edit"}
    PlanInput = {"exitPlan"}
    Asks <- MCAsks
    PermissionMode = {"default", "acceptEdits"}
    MaxLaunches = 2
    Mode <- MCMode
    ModeHash <- MCModeHash
    RestartMode = 1
    StartingMode = "local"
    MaxPrompts = 3
    MaxCalls = 2
    Session = {s1, s2, s3}
    NoSession = NoSession
    MaxLines = 2
INVARIANTS
    NobodyIsForgotten
    HistoryIsTrue
    LocalYields
    GivenInOrder
    OncePerLineInOrder
    CurrentIsReadToTheEnd
PROPERTIES
    EveryCallIsAnswered
    EveryPromptIsSettled
    EveryLineIsDelivered
CHECK_DEADLOCK FALSE
