------------------------------- MODULE Npm -------------------------------
(***************************************************************************)
(* The parts of the npm and Node support that keep to themselves: the      *)
(* package info of the registry (NpmRegistry), the resolution of a program *)
(* (NpmResolution), the folders of packages (NpmFiles) and their names     *)
(* (NpmNames), the links of node_modules (NpmModules), Node resolution     *)
(* (NodeResolve), and the files of a project (Files).  The resolution of a *)
(* graph is NpmGraph.                                                      *)
(*                                                                         *)
(* They share no state.  A behaviour is one of a single part, as the       *)
(* variable part says, and two variables of the same name are one here;    *)
(* those a part does not have keep their first value.                      *)
(***************************************************************************)
EXTENDS Naturals, Sequences

CONSTANTS
    Parts,                                               \* the parts that may be at work
    InfoName, Caller, InfoCases, Releases,               \* of NpmRegistry
    Task, TaskCases,                                     \* of NpmResolution
    Program, Package, Copy, Original(_), FolderCases,    \* of NpmFiles
    Upper, Base32(_), PackageName, Version, Id, Levels, NameCases,   \* of NpmNames
    Root, Snapshots,                                     \* of NpmModules
    NodeCases,                                           \* of NodeResolve
    ProjectCases, Skipped, Wanted(_)                     \* of Files

VARIABLES
    part, case,
    latest, file, reloaded, load, caller, faulted,       \* of NpmRegistry
    memory,                                              \* of NpmRegistry and NpmResolution
    snapshot, installed, lockfile, task,                 \* of NpmResolution
    queue,                                               \* of it, NpmModules and NodeResolve
    cache, modules, flag, program, job,                  \* of NpmFiles
    links,                                               \* of NpmFiles and NpmModules
    stage, written, read,                                \* of NpmNames
    todo, found,                                         \* of NpmModules
    pc, handled, exports, count, code,                   \* of NodeResolve
    next, top, entries, prepared                         \* of Files

OnlyRegistry == <<latest, file, reloaded, load, caller, faulted>>
OnlyResolution == <<snapshot, installed, lockfile, task>>
OnlyFolders == <<cache, modules, flag, program, job>>
OnlyNames == <<stage, written, read>>
OnlyModules == <<todo, found>>
OnlyNode == <<pc, handled, exports, count, code>>
OnlyProject == <<next, top, entries, prepared>>
vars == <<part, case, OnlyRegistry, memory, OnlyResolution, queue, OnlyFolders, links, OnlyNames,
          OnlyModules, OnlyNode, OnlyProject>>

Registry == INSTANCE NpmRegistry WITH Name <- InfoName, Cases <- InfoCases
Resolution == INSTANCE NpmResolution WITH Cases <- TaskCases
Folders == INSTANCE NpmFiles WITH Cases <- FolderCases
Names == INSTANCE NpmNames WITH Cases <- NameCases, Name <- PackageName
Modules == INSTANCE NpmModules WITH Cases <- Snapshots
Node == INSTANCE NodeResolve WITH Cases <- NodeCases
Project == INSTANCE Files WITH Cases <- ProjectCases

-----------------------------------------------------------------------------
NoRegistry ==
    latest = "" /\ file = "" /\ reloaded = "" /\ load = "" /\ caller = "" /\ faulted = ""
NoResolution == snapshot = "" /\ installed = "" /\ lockfile = "" /\ task = ""
NoFolders == cache = "" /\ modules = "" /\ flag = "" /\ program = "" /\ job = ""
NoNames == stage = "" /\ written = "" /\ read = ""
NoModules == todo = "" /\ found = ""
NoNode == pc = "" /\ handled = "" /\ exports = "" /\ count = "" /\ code = ""
NoProject == next = "" /\ top = "" /\ entries = "" /\ prepared = ""

Init ==
    /\ part \in Parts
    /\ part # "registry" => NoRegistry
    /\ part # "resolution" => NoResolution
    /\ part # "folders" => NoFolders
    /\ part # "names" => NoNames
    /\ part # "modules" => NoModules
    /\ part # "node" => NoNode
    /\ part # "project" => NoProject
    /\ part \notin {"registry", "resolution"} => memory = ""
    /\ part \notin {"resolution", "modules", "node"} => queue = ""
    /\ part \notin {"folders", "modules"} => links = ""
    /\ \/ part = "registry" /\ Registry!Init
       \/ part = "resolution" /\ Resolution!Init
       \/ part = "folders" /\ Folders!Init
       \/ part = "names" /\ Names!Init
       \/ part = "modules" /\ Modules!Init
       \/ part = "node" /\ Node!Init
       \/ part = "project" /\ Project!Init

Next ==
    /\ \/ part = "registry" /\ Registry!Next /\ UNCHANGED <<queue, links>>
       \/ part = "resolution" /\ Resolution!Next /\ UNCHANGED links
       \/ part = "folders" /\ Folders!Next /\ UNCHANGED <<memory, queue>>
       \/ part = "names" /\ Names!Next /\ UNCHANGED <<memory, queue, links>>
       \/ part = "modules" /\ Modules!Next /\ UNCHANGED memory
       \/ part = "node" /\ Node!Next /\ UNCHANGED <<memory, links>>
       \/ part = "project" /\ Project!Next /\ UNCHANGED <<memory, queue, links>>
    /\ part # "registry" => UNCHANGED OnlyRegistry
    /\ part # "resolution" => UNCHANGED OnlyResolution
    /\ part # "folders" => UNCHANGED OnlyFolders
    /\ part # "names" => UNCHANGED OnlyNames
    /\ part # "modules" => UNCHANGED OnlyModules
    /\ part # "node" => UNCHANGED OnlyNode
    /\ part # "project" => UNCHANGED OnlyProject
    /\ UNCHANGED part

Spec == Init /\ [][Next]_vars

-----------------------------------------------------------------------------
(* Properties                                                              *)

\* TypeOK, SameInfo and OrderlyReloadIsFresh of NpmRegistry: a batch is told the same of a package
\* whenever it asks, whatever callers, the file and the registry do meanwhile; and where only
\* batches ask, for a package once each, and every request is answered, --reload uses nothing from
\* before the program.
InfoSound ==
    part = "registry" =>
        Registry!TypeOK /\ Registry!SameInfo /\ Registry!OrderlyReloadIsFresh

\* SnapshotWhole, AddedResolve and LockfileLoads of NpmResolution: the snapshot has no dangling
\* identifiers, what was added resolves, and the lockfile can be loaded by the next program.
SnapshotSound ==
    part = "resolution" =>
        Resolution!SnapshotWhole /\ Resolution!AddedResolve /\ Resolution!LockfileLoads

\* PermitPassedOn of NpmResolution: a task that fails does not keep others waiting.
PermitPassedOn == part = "resolution" => Resolution!PermitPassedOn

\* TypeOK, CacheWhole, ModulesWhole and OncePerRun of NpmFiles: a folder that a program would take is
\* whole, but for one that another program is filling in the global cache, and no package is
\* downloaded twice in a program.
FoldersSound ==
    part = "folders" =>
        Folders!TypeOK /\ Folders!CacheWhole /\ Folders!ModulesWhole /\ Folders!OncePerRun

\* DoneWhole of NpmFiles: what a program is done with is whole when it says so, or another one is
\* still at it.
DoneWhole == [][part = "folders" => Folders!DoneStep]_vars

\* ResolutionSound, ReexportsComplete and DeclaredOnce of NodeResolve: what is resolved is there but
\* where nobody looks, and a translated module exports all that it reexports, each once.
NodeSound ==
    part = "node" =>
        Node!ResolutionSound /\ Node!ReexportsComplete /\ Node!DeclaredOnce

\* ReexportsComplete of NodeResolve: all that a module reexports is exported.
ReexportsComplete == part = "node" => Node!ReexportsComplete

\* IdentifiersReadBack and FoldersApart of NpmNames: names are read back as they were written.
NamesSound == part = "names" => Names!IdentifiersReadBack /\ Names!FoldersApart

\* RootOfPackage of NpmNames: the root of the package a module is in.
RootOfPackage == part = "names" => Names!RootOfPackage

\* SameModules of NpmModules: node_modules has the packages that the snapshot has, and of those
\* that compete for a name the ones the project asks for.
SameModules == part = "modules" => Modules!SameModules

\* Collected and Agree of Files: the list of files is what the configuration says, no more and no
\* less, and matches_specifier says the same of a file where there are no symlinks.
FilesFound == part = "project" => Project!Collected /\ Project!Agree
=============================================================================
