SPECIFICATION OfflineSpec
CONSTANT MaxTroubles = 4
INVARIANT RealReplacesStub
CHECK_DEADLOCK FALSE
