SPECIFICATION ClaimsSpec
CONSTANTS
    Spokes = {"s1"}
    Clones = {"c1", "c2"}
    SpokeOf <- MCSpokeOf
    Terms = {"hx"}
    Files = {"ledger", "log"}
    RecordFiles = {"ledger"}
    Contents <- MCContents
    FETCH_TTL = 2
    MaxTime = 4
    MaxPushes = 1
    GitFaults = {}
    ClaimTerm <- MCClaimTerm
    Unmeasured = {"slow?"}
    Paragraphs <- MCParagraphs
    FOCUSED_MAX_FILES = 1
    MaxParagraphs = 2
PROPERTY WritesGrowGrounded
CHECK_DEADLOCK FALSE
