SPECIFICATION IdentitySpec
CONSTANTS
    Id = {s0, s1, s2}
    Named = s0
    NoId = none
    MaxSpawns = 2
PROPERTY OneTimeFlagsAreGivenOnce
CHECK_DEADLOCK FALSE
