SPECIFICATION CollectSpec
CONSTANTS
    None = None
    Procs = {}
    Parts = {"tree", "packages", "mcp", "discovery", "walk", "ide", "agents", "ladder", "versions", "surfaces", "runtime"}
    \* EvidenceTree
    Scanners = {s1}
    Leaves = {1, 2, 3}
    Inodes = {1, 2}
    Data <- MCData
    MaxEntries = 2
    MaxFileSize = 2
    MaxTotalSize = 3
    MaxErrors = 1
    CacheRows = 1
    MaxEdits = 2
    \* Packages
    Entries = {"a", "s", "b"}
    Scope <- MCScope
    EntryLimit = 2
    ProbeLists <- MCProbes
    Answers <- MCAnswers
    MaxInstalls = 1
    \* McpServers
    Declarations <- MCDeclarations
    Documents <- MCDocuments
    Servers <- MCServers
    UnsafeServers = {}
    Handoffs <- MCHandoffs
    MaxConfigEdits = 1
    \* ProjectDiscovery
    Folders = {"P", "Pa", "w", "l", "W"}
    FolderOrder <- MCOrder
    Parent <- MCParent
    FileOf <- MCFileOf
    Conventional = "P"
    Excluded = {}
    Sources <- MCSources
    NoteLimit = 1
    MaxRoots = 3
    Admins <- MCAdmins
    HomeStarts <- MCStarts
    MaxMoves = 2
    \* ProjectWalk
    Items = {"root", "app", "lock1", "lock2", "mcp", "git", "hook", "launch"}
    RootItem = "root"
    In <- MCIn
    Class <- MCClass
    TooDeep = {}
    SkippedDirs = {}
    EntryBudget = 5
    FileBudget = 3
    ErrorRooms = {1}
    Provenances <- MCProvenances
    TreeStarts <- MCTrees
    MaxWrites = 1
    \* IdeExtensions
    Nodes <- MCNodes
    Up <- MCUp
    Role <- MCRole
    VRoot = "V"
    JRoot = "J"
    BadNames = {"e2"}
    VLimit = 1
    JBudget = 3
    Docs <- MCDocs
    JS <- MCJS
    DisksAtStart <- MCDisks
    MaxTouches = 1
    \* AgentPlugins
    Spots <- MCSpots
    Root = "R"
    Lies <- MCLies
    Marker <- MCMarker
    Base <- MCBase
    BundleOf <- MCBundleOf
    Deep = {}
    MaxRead = 5
    MaxManifests = 2
    Texts <- MCTexts
    GardensAtStart <- MCGardens
    MaxAgentMoves = 1
    \* Ladder
    LadderAssets = {"a1", "a2", "b"}
    IdentityOf <- MCIdentity
    VersionOf <- MCVersion
    LadderRecords = {"e1", "e2", "o", "e3", "x"}
    OwnerOf <- MCOwner
    Snapshots <- MCSoundSnapshots
    \* VersionRange
    Versions <- MCVersions
    Pythons <- MCPythons
    Ranges <- MCRanges
    Selectors <- MCSelectors
    TopNumber = 3
    \* HomeSurfaces
    Startups = {"sh"}
    GitConfigs = {"git", "xdg"}
    Pages <- MCPages
    DesksAtStart <- MCDesks
    MaxScribbles = 1
    \* RuntimeProbes
    Pids = {1, 2}
    Programs = {"x", "y"}
    Ports = {80}
    OddNames = {"y"}
    MaxForks = 3
CHECK_DEADLOCK FALSE
INVARIANTS CollectTypeOK CompleteMeansAll ReportedAsRead IdentitiesAgree DriftTold RangesSound
PROPERTIES CacheHoldsCompleted TargetsExplained
