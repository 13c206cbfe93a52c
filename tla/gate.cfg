SPECIFICATION Spec
CONSTANTS
    None = None
    FileSystems = {"fsA", "fsK", "fsM"}
    Obj = {"sv2", "vp2", "oa2", "svK", "volK", "ssK", "oaK", "svM", "volM", "rqM", "oaM"}
    Initial = {"sv2", "vp2", "svK", "volK", "ssK", "svM", "volM", "rqM"}
    KindOf <- MCKindOf
    FsOf <- MCFsOf
    SvmsOf <- MCSvmsOf
    ParentOf <- MCParentOf
    Blocks <- MCBlocks
    RootLike <- MCRootLike
    PageLimit = 2
    Allowlist = {"fsA", "fsK"}
    KeepList = {"fsK"}
    MaintenanceList = {"fsK", "fsM"}
    Secrets = {"fsA", "fsK", "fsM", "text", "none"}
    SecretTag <- MCSecretTag
    SecretText <- MCSecretText
    Endpoints = {"fsA", "fsK", "fsM"}
    Runs = {r1, r2}
    Events <- GateEvents
    InUse <- MCInUse
    Adversary = {}
    Budget = 0
INVARIANTS
    RemovalsPermitted
    Authorised
SYMMETRY RunSymmetry
CHECK_DEADLOCK FALSE
