SPECIFICATION OutputSpec
CONSTANTS
    Tool = {t1, t2}
    OtherKind = {"system"}
    MaxMessages = 3
    MaxLaunches = 2
INVARIANT ResultFollowsItsCall
CHECK_DEADLOCK FALSE
