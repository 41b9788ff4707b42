SPECIFICATION MCSpec
CONSTANTS
    Tool = {t}
    MaxAttempts = 2
    MaxProcesses = 2
    MaxUpdates = 2
    Mode = {m1, m2}
    AutoApproving = {m2}
    NoMode = none
    MaxPrompts = 2
    MaxTries = 2
    MaxAborts = 1
    Said = {"a", "b"}
    Length = {2, 4}
    MaxMessages = 3
    MaxCharacters = 5
    MaxQuoted = 3
    MaxRemembered = 4
INVARIANTS
    AnswerIsOneTrys
    TurnLeavesNothingOpen
    HistoryIsRecent
PROPERTY EveryPromptIsSettled
