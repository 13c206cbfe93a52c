SPECIFICATION Spec
CONSTANTS
    None = None
    FileSystems = {"fsA"}
    Obj = {"sv1", "vol1", "oa1"}
    Initial = {"sv1", "vol1", "oa1"}
    KindOf <- MCKindOf
    FsOf <- MCFsOf
    SvmsOf <- MCSvmsOf
    ParentOf <- MCParentOf
    Blocks <- MCBlocks
    RootLike <- MCRootLike
    PageLimit = 2
    Allowlist = {"fsA"}
    KeepList = {}
    MaintenanceList = {}
    Secrets = {"fsA"}
    SecretTag <- MCSecretTag
    SecretText <- MCSecretText
    Endpoints = {"fsA"}
    Runs = {r1}
    Events <- CleanEvents
    InUse <- MCInUse
    Adversary = {"remove"}
    Budget = 2
INVARIANT
    AbsenceIsSuccess
CHECK_DEADLOCK FALSE
