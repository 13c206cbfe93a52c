SPECIFICATION FairSpec
CONSTANTS
    None = None
    FileSystems = {"fsA"}
    Obj = {"sv1", "vol1", "cl1", "bk1", "na1", "oa1", "po1"}
    Initial = {"sv1", "vol1", "cl1", "bk1", "na1", "oa1", "po1"}
    KindOf <- MCKindOf
    FsOf <- MCFsOf
    SvmsOf <- MCSvmsOf
    ParentOf <- MCParentOf
    Blocks <- MCBlocks
    RootLike <- MCRootLike
    PageLimit = 2
    Allowlist = {"fsA"}
    KeepList = {}
    MaintenanceList = {}
    Secrets = {"fsA"}
    SecretTag <- MCSecretTag
    SecretText <- MCSecretText
    Endpoints = {"fsA"}
    Runs = {r1}
    Events <- CleanEvents
    InUse <- MCInUse
    Adversary = {"denied", "lost", "resent", "timeout", "norecord", "jobfails",
                 "create", "remove", "mount", "kill"}
    Budget = 1
PROPERTY
    EveryRunEnds
CHECK_DEADLOCK FALSE
