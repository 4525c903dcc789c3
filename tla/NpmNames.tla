------------------------------ MODULE NpmNames ------------------------------
(***************************************************************************)
(* What packages are called where: the identifiers that a lockfile keeps   *)
(* (NpmPackageId, npm/resolution/mod.rs), the folders of the global cache  *)
(* (npm/cache.rs) and those of node_modules (npm/resolvers/local.rs).  A   *)
(* name is written, and read back by other functions later: by a program   *)
(* that starts with the lockfile, or for a module that imports another.    *)
(*                                                                         *)
(* A text is a sequence of tokens: the words of names and versions, and    *)
(* the characters that mean something: "@", "/", "_" and "+".  A path is a *)
(* sequence of texts.                                                      *)
(***************************************************************************)
EXTENDS Naturals, Sequences, SequencesExt

CONSTANTS
    Upper,        \* words with a capital letter
    Base32(_),    \* the base32 encoding of a name, a word
    Name, Version, \* the names and versions there are
    Id,           \* the identifiers there are, with those of their peers
    Levels,       \* Levels[id]: how deep the peers of an identifier go
    Cases         \* what is written and read, see Init

VARIABLES
    case,     \* the case at hand; never changes
    stage,    \* "new", "written" or "read"
    written,  \* what was written
    read      \* what was read back

vars == <<case, stage, written, read>>

Mark == {"@", "/", "_", "+"}
NotRead == [ok |-> FALSE]

Replaced(t, a, b) == [i \in DOMAIN t |-> IF t[i] = a THEN b ELSE t[i]]
First(S) == CHOOSE i \in S : \A j \in S : i <= j

\* What is before and after a slash; there is one in the name of a scoped package.
Split(name) ==
    LET slashes == {i \in DOMAIN name : name[i] = "/"} IN
    IF slashes = {} THEN <<name>>
    ELSE <<SubSeq(name, 1, First(slashes) - 1), SubSeq(name, First(slashes) + 1, Len(name))>>

-----------------------------------------------------------------------------
(* Identifiers: [name, version, peers]                                     *)

\* as_serialized: peers follow, each after as many underscores as it is deep.
OneUnderscore(level) == <<"_">>   \* mutant: levels look alike
Underscores(level) == [i \in 1..level |-> "_"]

SerializedAt[id \in Id] == [level \in Nat |->
    (IF level = 0 THEN id.name ELSE Replaced(id.name, "/", "+")) \o <<"@", id.version>>
    \o FlattenSeq([i \in DOMAIN id.peers |->
                     Underscores(level + 1) \o SerializedAt[id.peers[i]][level + 1]])]
Serialized(id) == SerializedAt[id][0]

\* from_serialized: parsers of the text t from a place on.  What one has read is a value
\* and the place after it.
Parsed(value, next) == [ok |-> TRUE, value |-> value, next |-> next]

\* The name ends at an @ that is not its first character, the version at an underscore.
ParseNameAndVersion(t, at) ==
    LET ats == {i \in at + 1..Len(t) : t[i] = "@"}
        v   == First(ats) + 1 IN
    IF ats # {} /\ v <= Len(t) /\ t[v] \in Version /\ (v < Len(t) => t[v + 1] = "_")
    THEN Parsed([name |-> SubSeq(t, at, v - 2), version |-> t[v]], v + 1)
    ELSE NotRead

\* How many underscores there are
Depth(t, at) == First({i \in at..Len(t) : t[i] # "_"} \cup {Len(t) + 1}) - at

\* Peers follow as long as there are underscores for their level: idAt[i] is the
\* identifier of that level at the place i.  Each takes four tokens or more.
MostPeers(t) == Len(t) \div 4
ParsePeers(t, level, idAt, at) ==
    LET got[k \in 0..MostPeers(t)] ==
            LET done == got[k - 1]
                peer == idAt[done.next + level] IN
            IF k = 0 THEN Parsed(<<>>, at)
            ELSE IF ~done.ok \/ Depth(t, done.next) # level THEN done
            ELSE IF ~peer.ok THEN NotRead
            ELSE Parsed(Append(done.value, peer.value), peer.next)
    IN got[MostPeers(t)]

ParseId(t, level, idAt, at) ==
    LET nv == ParseNameAndVersion(t, at)
        name == IF level > 0 THEN Replaced(nv.value.name, "+", "/") ELSE nv.value.name
        peers == ParsePeers(t, level + 1, idAt, nv.next) IN
    IF ~nv.ok \/ ~peers.ok THEN NotRead
    ELSE Parsed([name |-> name, version |-> nv.value.version, peers |-> peers.value], peers.next)

\* There are no more levels than characters.
FromSerialized(t) ==
    LET ids[level \in 0..Len(t) + 1] ==
            [at \in 1..Len(t) + 1 |-> IF level > Len(t) THEN NotRead
                                      ELSE ParseId(t, level, ids[level + 1], at)]
        r == ids[0][1] IN
    IF r.ok /\ r.next = Len(t) + 1 THEN r.value ELSE NotRead

-----------------------------------------------------------------------------
(* Folders: [name, version, copy], with the copy_index as a word           *)

Mixed(name) == \E i \in DOMAIN name : name[i] \in Upper
Encoded(name) == <<"_", Base32(name)>>
Decoded(word) == {n \in Name : Mixed(n) /\ Base32(n) = word}

\* package_folder_for_id, below the folder of the registry
PackageNameFolder(name) == IF Mixed(name) THEN <<Encoded(name)>> ELSE Split(name)
VersionFolder(f) == <<f.version>> \o (IF f.copy = "0" THEN <<>> ELSE <<"_", f.copy>>)
CacheFolder(f) == Append(PackageNameFolder(f.name), VersionFolder(f))

\* maybe_resolve_package_folder_id_from_specifier, of a path below that folder: its first
\* text may be an encoded name, and two or three are the name and the version.
FolderIdOf(path) ==
    LET first == path[1]
        mixed == first # <<>> /\ first[1] = "_"
        names == Decoded(IF Len(first) = 2 THEN first[2] ELSE "")
        all   == IF mixed THEN Split(CHOOSE n \in names : TRUE) \o Tail(path) ELSE path
        many  == IF all[1] # <<>> /\ all[1][1] = "@" /\ Len(all) > 2 THEN 3 ELSE 2
        last  == all[many] IN
    IF (mixed /\ names = {}) \/ Len(all) < 2 THEN NotRead
    ELSE IF last = <<>> \/ last[1] \notin Version \/ Len(last) \notin {1, 3} THEN NotRead
    ELSE [name |-> IF many = 3 THEN all[1] \o <<"/">> \o all[2] ELSE all[1], version |-> last[1],
          copy |-> IF Len(last) = 3 THEN last[3] ELSE "0"]

\* get_package_folder_id_folder_name: a folder of node_modules/.deno
LocalFolderName(f) ==
    Replaced((IF Mixed(f.name) THEN Encoded(f.name) ELSE f.name)
             \o <<"@", f.version>> \o (IF f.copy = "0" THEN <<>> ELSE <<"_", f.copy>>), "/", "+")

\* get_package_id_folder, below node_modules
NodeModules == <<"node_modules">>
LocalFolder(f) ==
    << <<".deno">>, LocalFolderName(f), NodeModules >> \o Split(f.name)

\* resolve_package_root: up to the folder below the last node_modules
PackageRoot(path) ==
    LET below == {i \in 2..Len(path) : path[i - 1] = NodeModules}
        last  == CHOOSE i \in below : \A j \in below : j <= i IN
    IF below = {} THEN path ELSE SubSeq(path, 1, last)

\* What the registry calls packages: no part of a name begins with what is put before names
\* or between them, and a scoped name has one slash.  The base32 encoding can be read.
NameOK(n) ==
    /\ n \in Seq(STRING) /\ n # <<>> /\ n[1] # "_"
    /\ \A i \in DOMAIN n : n[i] # "+" /\ (n[i] = "@" => i = 1)
    /\ n[1] # "@" => \A i \in DOMAIN n : n[i] # "/"
    /\ n[1] = "@" => \E i \in DOMAIN n \ {1, Len(n)} : \A j \in DOMAIN n : n[j] = "/" <=> j = i
NamesOK ==
    /\ \A n \in Name : NameOK(n) /\ (Mixed(n) => Base32(n) \in STRING \ Mark)
    /\ \A m, n \in Name : Mixed(m) /\ Mixed(n) /\ Base32(m) = Base32(n) => m = n
    /\ Version \subseteq STRING \ Mark
\* Identifiers are finite.
IdsOK ==
    /\ Levels \in [Id -> Nat]
    /\ \A id \in Id :
          /\ id = [name |-> id.name, version |-> id.version, peers |-> id.peers]
          /\ id.name \in Name /\ id.version \in Version /\ id.peers \in Seq(Id)
          /\ \A i \in DOMAIN id.peers : Levels[id.peers[i]] < Levels[id]
FolderOK(f) ==
    /\ f = [name |-> f.name, version |-> f.version, copy |-> f.copy]
    /\ f.name \in Name /\ f.version \in Version /\ f.copy \in STRING \ Mark
CaseOK(k) ==
    \/ k.kind = "id" /\ k.id \in Id
    \/ k.kind = "folder" /\ FolderOK(k.folder) /\ FolderOK(k.other) /\ k.file \in Seq(Seq(STRING))
ConstantsOK == NamesOK /\ IdsOK /\ \A k \in Cases : CaseOK(k)

-----------------------------------------------------------------------------
(* A case is [kind |-> "id", id] or [kind |-> "folder", folder, other, file]: an identifier, *)
(* or a module of a package, and another package.                          *)

Init ==
    /\ case \in Cases
    /\ stage = "new" /\ written = <<>> /\ read = NotRead

Does(kind, from, to) ==
    /\ case.kind = kind /\ stage = from /\ stage' = to
    /\ UNCHANGED case

\* lock of the one program and from_lockfile of the next
WriteId ==
    /\ Does("id", "new", "written")
    /\ written' = Serialized(case.id) /\ UNCHANGED read
ReadId ==
    /\ Does("id", "written", "read")
    /\ read' = FromSerialized(written) /\ UNCHANGED written

\* A package is resolved; one of its modules imports something.
FindFolder ==
    /\ Does("folder", "new", "written")
    /\ written' = [cache |-> CacheFolder(case.folder), local |-> LocalFolder(case.folder)]
    /\ UNCHANGED read
FromModule ==
    /\ Does("folder", "written", "read")
    /\ read' = [id |-> FolderIdOf(written.cache \o case.file),
                root |-> PackageRoot(written.local \o case.file)]
    /\ UNCHANGED written

Next == WriteId \/ ReadId \/ FindFolder \/ FromModule

Spec == Init /\ [][Next]_vars
-----------------------------------------------------------------------------
(* Properties                                                              *)

Read(kind) == case.kind = kind /\ stage = "read"

\* "WARNING: This should not change because it's used in the lockfile": what as_serialized writes,
\* from_serialized reads as the same identifier, however deep its peers are.
IdentifiersReadBack == Read("id") => read = case.id

\* A module of the global cache belongs to the package in whose folder it is, and
\* different packages and copies have different folders, in the cache and in node_modules.
FoldersApart ==
    /\ Read("folder") => read.id = case.folder
    /\ case.kind = "folder" /\ case.other # case.folder =>
          /\ CacheFolder(case.other) # CacheFolder(case.folder)
          /\ LocalFolderName(case.other) # LocalFolderName(case.folder)

\* "Resolve the root folder of the package the provided specifier is in": for a module in
\* node_modules it is the folder of its package.
RootOfPackage == Read("folder") => read.root = written.local
=============================================================================
