SPECIFICATION Spec
INVARIANT BannerSeesWorker
CONSTANTS
  a = a  b = b  d = d  g = g  cap = cap  p1 = p1  p2 = p2  p3 = p3
  NoFile = NoFile  Corrupt = Corrupt  NoEntry = NoEntry  Everywhere = Everywhere
  NoManifest = NoManifest  NoJob = NoJob  NoRun = NoRun  NoPage = NoPage
  Antidoc = cap
  Vipcs <- MCVipcs
  Dragons <- MCDragons
  Tooling = {}
  Walked <- MCWalked
  Globbed <- MCGlobbed
  BaseName <- MCBaseName
  Rank <- MCRank
  AntidocPackages <- MCAntidocPackages
  VipcContents <- MCVipcContents
  DragonContents <- MCDragonContents
  Entries <- MCEntries
  OsChoices <- MCOsChoices
  InitRepos <- MCInitRepos
  Tags = {"latest"}
  Modes = {"replace", "new"}
  MaxPushes = 1
CHECK_DEADLOCK FALSE
