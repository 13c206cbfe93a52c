SPECIFICATION RepoSpec
CONSTANTS
    HubPages <- MCHubPages
    SiblingPages <- MCFarPages
    Worlds <- MCWorlds
    QuestionLists <- MCQuestionLists
    MaxHops = 2
    FetchCaps = {1, 3}
    Layouts <- MCLayouts
    Coordinates = {"o/a", "o/b"}
    RepoIds = {"r1", "r2"}
    Heads = {"h1", "h2"}
    MaxDepth = 2
    HubMoves = 2
    Repos = {"hub", "sib"}
    AlsoCalled <- MCAlsoCalled
    Edits <- MCEdits
    FirstTrees <- MCFirstTrees
    MaxEdits = 2
    REQUIRED = {"ci"}
    Filtered = {"docs"}
    MaxCommits = 2
    MaxRuns = 2
    RunLimit = 2
    retry_total = 1
    AttemptTime = 1
    timeout_seconds = 4
    poll_interval = 1
    NeverEnds = 12
    FirstLedgers <- MCFirstLedgers
    IssueIds = {1, 2}
    Categories = {"evidence", "boundary"}
    Written <- MCWritten
    MaxLedgerSteps = 4
    Spokes = {"s1"}
    Clones = {"c1", "c2"}
    SpokeOf <- MCSpokeOf
    Terms = {"hx"}
    Files = {"ledger", "log"}
    RecordFiles = {"ledger"}
    Contents <- MCContents
    FETCH_TTL = 1
    MaxTime = 2
    MaxPushes = 1
    GitFaults = {"fetch", "grep"}
    ClaimTerm <- MCClaimTerm
    Unmeasured = {"slow?"}
    Paragraphs <- MCParagraphs
    FOCUSED_MAX_FILES = 1
    MaxParagraphs = 3
    ProfileArtifacts = {"v", "w"}
    OtherArtifacts = {}
    Digests = {"d1", "d2"}
    HubTrees <- MCHubTrees
    OVERRIDE_LIMITS <- MCOverrideLimits
    MAX_OVERRIDES = 1
    Overrides <- MCOverrides
    AdoptionSteps = 4
    Documents <- MCDocuments
    FirstDocuments <- MCFirstDocuments
    CONTINUATION_LINES = 3
    BudgetSteps = 4
    FindingEntries <- MCFindingEntries
    BaselineLists <- MCBaselineLists
    Proposals = {p1, p2}
    FirstBaseline <- MCFirstBaseline
    BaselineSteps = 4
    Pages <- MCPages
    NoteSubpaths = {"note"}
    Headings <- MCHeadings
    PageTexts <- MCPageTexts
    FirstTree <- MCFirstTree
    SwitchSteps = 3
    TIER1_LANGS = {"ja", "en", "ko"}
    DocumentTraits <- MCDocumentTraits
    CopyForms <- MCCopyForms
    FirstCopies <- MCFirstCopies
    SectionCited <- MCSectionCited
    PATH_ONLY <- MCPathOnly
    CITED_ANCHORS <- MCCitedAnchors
    TranslationSteps = 3
    None = None
    Luns = {l1}
    Initiators = {h1, h2}
    Runs = {r1, r2}
    LunAdversary = {"rejected", "lost", "interrupted", "remove"}
    LunBudget = 1
    TargetIps <- MCTargetIps
    SessionCounts = {1, 2}
    Connections = {r1, r2}
    HostTroubles = 1
    StackVolumes = {v1, v2}
    Rehosted = {v1}
    StackHolders = {e1}
    StackSecrets = {fsxadmin}
    FsxSecret = fsxadmin
    Removals = {r1, r2}
    StackTroubles = 2
INVARIANTS
    VerdictsAreTrue
    
    LocalOnlyWasNotPublic
    EveryCheckoutOnce
    OneHeadPerRepository
    PinsProtected
    ScheduledRunIsTrue
    NotRepeated
    NothingRejected
    WaitIsBounded
    EndedJobIsSeen
    PublishedFinalsWereDecided
    UpToDateIsCompared
    SearchesNewestKnown
    AcceptedIsTheHubs
    RemovedStaysRemoved
    ReductionsWereDecided
    LabelsTellTheLanguage
    SyncRepairs
    ReadersStayClose
    SecondRunPostsNothing
    CalmRunSucceeds
PROPERTIES
    SafeIsForTheHead
    FixedIsCleared
    ClaimsGrowGrounded
    NewExemptionShows
    ProseIsKept
    CitationsBreakInTheOpen
    OkMeansProvisioned
    CalmConnectSucceeds
    CalmTeardownFinishes
VIEW FocusView
CHECK_DEADLOCK FALSE
