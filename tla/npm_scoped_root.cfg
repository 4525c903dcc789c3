\* Modules of packages, scoped ones among them.
SPECIFICATION Spec
CONSTANTS
    Parts = {"names"}
    InfoName = {"a", "b", "c"}
    Caller = {1, 2}
    InfoCases <- MCInfoCases
    Releases = 2
    Task = {1, 2, 3}
    TaskCases <- MCTaskCases
    Program = {"p", "q"}
    Package = {"a", "b"}
    Copy = {"a_1"}
    Original <- ItsOriginal
    FolderCases <- MCFolderCases
    Upper = {"A"}
    Base32 <- Encoding
    PackageName <- FolderNames
    Version = {"1.0.0", "2.0.0"}
    Id <- DeepIds
    Levels <- DeepLevels
    NameCases <- MCNameCases
    Root <- NodeModules
    Snapshots <- MCSnapshots
    NodeCases <- MCNodeCases
    ProjectCases <- MCProjectCases
    Skipped = {"node_modules", "Node_Modules", ".git"}
    Wanted <- NotCss
INVARIANTS
    RootOfPackage
CHECK_DEADLOCK FALSE
