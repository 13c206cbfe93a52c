SPECIFICATION SpokeSpec
CONSTANTS
    Spokes = {"s1"}
    Clones = {"c1", "c2"}
    SpokeOf <- MCSpokeOf
    Terms = {"hx"}
    Files = {"ledger", "log"}
    RecordFiles = {"ledger"}
    Contents <- MCContents
    FETCH_TTL = 2
    MaxTime = 4
    MaxPushes = 1
    GitFaults = {"fetch"}
INVARIANT NoMatchIsFresh
CHECK_DEADLOCK FALSE
