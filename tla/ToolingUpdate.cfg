SPECIFICATION Spec
CONSTANTS
    Releases = {1, 2}
    Paths <- AllPaths
    Dirs = {"vipm/"}
    Under <- UnderVipm
    Workflows = {"dashw", "docw", "thinw", "thindash"}
    Shipped <- ShippedBy
    Catalog <- CatalogOf
    Provider <- ProviderOf
    DashboardPages = "dashw"
    PipelineYml = "glpipe"
    ProviderManifest = "glman"
    LegacyBuilder = "glold"
    ThinCaller = "thinw"
    ThinDashboard = "thindash"
    Dependabot = "dependabot"
    Owned <- OwnedPaths
    Trees <- InitTrees
    Lists = {}
    Selections = {{"dashboard"}}
    MaxStamps = 3
    MaxPushes = 1
    MaxPRs = 1
    SmallHistory = FALSE
INVARIANT OneUpdatePR
PROPERTIES UpdateWhole OwnKept NoDowngrade UpdateDelivered
CHECK_DEADLOCK FALSE
