SPECIFICATION Spec
CONSTANTS
    Releases = {1, 2}
    Paths <- AllPaths
    Dirs = {"vipm/"}
    Under <- UnderVipm
    Workflows = {"dashw", "docw", "thinw", "thindash"}
    Shipped <- ShippedBy
    Catalog <- CatalogOf
    Provider <- ProviderOf
    DashboardPages = "dashw"
    PipelineYml = "glpipe"
    ProviderManifest = "glman"
    LegacyBuilder = "glold"
    ThinCaller = "thinw"
    ThinDashboard = "thindash"
    Dependabot = "dependabot"
    Owned <- OwnedPaths
    Trees <- InitTrees
    Lists = {{"d"}}
    Selections = {{"dashboard"}}
    MaxStamps = 3
    MaxPushes = 0
    MaxPRs = 1
    SmallHistory = TRUE
PROPERTY MonitoringKept
CHECK_DEADLOCK FALSE
