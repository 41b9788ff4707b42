SPECIFICATION Spec
CONSTANTS
    Mode <- MCMode
    ModeHash <- MCModeHash
    MaxMessages = 3
    Awaiter = {a1, a2, a3, a4}
    MaxTroubles = 4
    Common = {"bash"}
    Method = {"permission"}
    MaxEvents = 4
    MaxLines = 3
    MaxPrompts = 2
    MaxMachineUpdates = 3
    MaxWrites = 1
    MaxLosses = 1
INVARIANTS
    NoLostWakeUp
    AttemptsEnd
    ReachableWhenConnected
    NothingIsCutShort
    NothingIsUndone
PROPERTIES
    ImplementsInbox
    EveryPromptLeaves
    AnswersAreFresh
    EveryCallIsServed
CHECK_DEADLOCK FALSE
