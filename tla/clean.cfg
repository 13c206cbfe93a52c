SPECIFICATION FairSpec
CONSTANTS
    None = None
    FileSystems = {"fsA"}
    Obj = {"sv1", "root1", "vol1", "cl1", "bk1", "na1", "oa1", "po1", "ev1", "en1", "st1",
           "sv2", "root2", "vol2", "fc2", "cl2", "oa2", "sm1", "sm12"}
    Initial = {"sv1", "root1", "vol1", "cl1", "bk1", "na1", "oa1", "po1", "ev1", "en1", "st1",
           "sv2", "root2", "vol2", "fc2", "cl2", "sm1", "sm12"}
    KindOf <- MCKindOf
    FsOf <- MCFsOf
    SvmsOf <- MCSvmsOf
    ParentOf <- MCParentOf
    Blocks <- MCBlocks
    RootLike <- MCRootLike
    PageLimit = 2
    Allowlist = {"fsA"}
    KeepList = {}
    MaintenanceList = {}
    Secrets = {"fsA"}
    SecretTag <- MCSecretTag
    SecretText <- MCSecretText
    Endpoints = {"fsA"}
    Runs = {r1}
    Events <- CleanEvents
    InUse <- MCInUse
    Adversary = {}
    Budget = 0
INVARIANT
    UndisturbedTeardownSucceeds
CHECK_DEADLOCK FALSE
