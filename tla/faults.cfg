SPECIFICATION FairSpec
CONSTANTS
    None = None
    FileSystems = {"fsA"}
    Obj = {"sv1", "root1", "vol1", "cl1", "bk1", "na1", "oa1", "po1", "en1", "sm1"}
    Initial = {"sv1", "root1", "vol1", "bk1", "na1", "oa1", "po1", "en1", "sm1"}
    KindOf <- MCKindOf
    FsOf <- MCFsOf
    SvmsOf <- MCSvmsOf
    ParentOf <- MCParentOf
    Blocks <- MCBlocks
    RootLike <- MCRootLike
    PageLimit = 2
    Allowlist = {"fsA"}
    KeepList = {}
    MaintenanceList = {}
    Secrets = {"fsA"}
    SecretTag <- MCSecretTag
    SecretText <- MCSecretText
    Endpoints = {"fsA"}
    Runs = {r1}
    Events <- FaultEvents
    InUse <- MCInUse
    Adversary = {"denied", "lost", "resent", "timeout", "norecord", "jobfails",
                 "create", "remove", "mount", "kill"}
    Budget = 2
INVARIANTS
    TypeOK
    ClaimMeansGone
    RemovalsReported
    Sound
CHECK_DEADLOCK FALSE
