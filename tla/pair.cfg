SPECIFICATION Spec
CONSTANTS
    None = None
    FileSystems = {"fsA"}
    Obj = {"sv2", "vol2", "cl2", "rq2", "oa2"}
    Initial = {"sv2", "vol2", "cl2", "rq2", "oa2"}
    KindOf <- MCKindOf
    FsOf <- MCFsOf
    SvmsOf <- MCSvmsOf
    ParentOf <- MCParentOf
    Blocks <- MCBlocks
    RootLike <- MCRootLike
    PageLimit = 2
    Allowlist = {"fsA"}
    KeepList = {}
    MaintenanceList = {}
    Secrets = {"fsA"}
    SecretTag <- MCSecretTag
    SecretText <- MCSecretText
    Endpoints = {"fsA"}
    Runs = {r1, r2}
    Events <- PairEvents
    InUse <- MCInUse
    Adversary = {"kill", "timeout"}
    Budget = 1
PROPERTY
    KeepsPromise
SYMMETRY RunSymmetry
CHECK_DEADLOCK FALSE
