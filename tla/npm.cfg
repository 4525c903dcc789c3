\* Every part of the npm and Node support but the graph, each on its own small instance.
SPECIFICATION Spec
CONSTANTS
    Parts = {"registry", "resolution", "folders", "names", "modules", "node", "project"}
    InfoName = {"a", "b", "c"}
    Caller = {1, 2}
    InfoCases <- MCInfoCases
    Releases = 2
    Task = {1, 2, 3}
    TaskCases <- MCTaskCases
    Program = {"p", "q"}
    Package = {"a", "b"}
    Copy = {"a_1"}
    Original <- ItsOriginal
    FolderCases <- MCFolderCases
    Upper = {"A"}
    Base32 <- Encoding
    PackageName <- FolderNames
    Version = {"1.0.0", "2.0.0"}
    Id <- DeepIds
    Levels <- DeepLevels
    NameCases <- MCNameCases
    Root <- NodeModules
    Snapshots <- MCSnapshots
    NodeCases <- MCNodeCases
    ProjectCases <- MCProjectCases
    Skipped = {"node_modules", "Node_Modules", ".git"}
    Wanted <- NotCss
INVARIANTS
    InfoSound
    SnapshotSound
    PermitPassedOn
    FoldersSound
    NodeSound
    NamesSound
    SameModules
    FilesFound
PROPERTIES
    DoneWhole
CHECK_DEADLOCK FALSE
