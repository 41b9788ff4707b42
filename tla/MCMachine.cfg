SPECIFICATION Spec
CONSTANTS
    Process = {p1, p2, p3}
    NoProcess = NoProcess
    MaxAttempts = 2
    MaxVersion = 2
    MaxCrashes = 1
    SessionProcess = {q1, q2}
    Request = {r1, r2}
    NoSessionProcess = NoSessionProcess
    NoRequest = NoRequest
    MaxDaemons = 2
    Cli = {c1, c2}
    NoOne = noOne
    Earlier = earlier
    MaxLockAttempts = 2
    Connector = {k1, k2}
    MaxExchanges = 2
INVARIANTS
    OneUnlessRobbed
    NobodyWaitsInVain
    ReportedIsTracked
    NoUpdateIsLost
PROPERTIES
    OneInTheEnd
    EveryStartEnds
    DeadAreForgotten
    EveryConnectEnds
CHECK_DEADLOCK FALSE
