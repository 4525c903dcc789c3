-------------------------------- MODULE MCNpm --------------------------------
(* Small instances of Npm for TLC.                                         *)
EXTENDS Npm, FiniteSets, SequencesExt, Functions, TLC

-----------------------------------------------------------------------------
(* Package info of the registry: two callers that ask for two packages one *)
(* after the other, at once or not, under every cache setting; a second    *)
(* release of a, nothing of c.                                             *)

InfoSetting(kind, list) == [kind |-> kind, list |-> list]
InfoSettings == {InfoSetting("Use", {}), InfoSetting("Only", {}), InfoSetting("ReloadAll", {}),
                 InfoSetting("ReloadSome", {"a"})}
InfoCase(setting, sync, w1, w2, batch) ==
    [setting |-> setting, sync |-> sync, wants |-> (1 :> w1 @@ 2 :> w2),
     batch |-> batch, faults |-> TRUE,
     latest |-> ("a" :> 2 @@ "b" :> 1 @@ "c" :> 0),
     file |-> ("a" :> 1 @@ "b" :> 0 @@ "c" :> 0)]
MCInfoCases ==
    {InfoCase(s, FALSE, w, <<"a">>, (1 :> TRUE @@ 2 :> b)) :
        s \in InfoSettings, w \in {<<"a", "b">>, <<"a", "a">>}, b \in BOOLEAN}
    \cup {InfoCase(s, TRUE, <<"b", "c">>, <<"b", "a">>, (1 :> TRUE @@ 2 :> FALSE)) : s \in InfoSettings}
    \cup {InfoCase(s, TRUE, <<"c", "a">>, <<"b", "a">>, (1 :> TRUE @@ 2 :> TRUE)) : s \in InfoSettings}

-----------------------------------------------------------------------------
(* The resolution: three tasks on three packages in a circle, two versions *)
(* of two of them, one of which depends on itself, and a fourth with a     *)
(* dependency that is nowhere; with a lockfile and without, requests may   *)
(* fail.                                                                   *)

Req(name, req) == [name |-> name, req |-> req]
Dependencies ==
    (<<1, 1>> :> {Req(3, {1, 2})}) @@ (<<1, 2>> :> {Req(2, {1})}) @@ (<<2, 1>> :> {Req(3, {1})})
    @@ (<<3, 1>> :> {Req(1, {1, 2})}) @@ (<<3, 2>> :> {Req(3, {1, 2})})
    @@ (<<4, 1>> :> {Req(5, {1}), Req(1, {2})})
Any1 == Req(1, {1, 2})
Old1 == Req(1, {1})
Old2 == Req(2, {1})
Any3 == Req(3, {1, 2})
New3 == Req(3, {3})      \* there is no such version
Only4 == Req(4, {1})
Asks(kind, reqs) == [kind |-> kind, reqs |-> reqs]
TaskLists ==
    {<<Asks("add", {Any1}), Asks("add", {Old1, Old2}), Asks("add", {Any3})>>,
     <<Asks("add", {Any1}), Asks("set", {Old1, Old2}), Asks("add", {Any3})>>,
     <<Asks("add", {Any1, New3}), Asks("set", {}), Asks("set", {Any3, Any1})>>,
     <<Asks("add", {}), Asks("add", {Old2, Any1, Only4}), Asks("add", {Any1, Old1})>>}
Installs ==
    {<<Asks("install", {Any1, Old2}), Asks("install", {Any1, Old2}), Asks("add", {Any3, Old1})>>,
     <<Asks("install", {Any3, New3}), Asks("add", {}), Asks("set", {Any1})>>}
NoLockfile == [specifiers |-> <<>>, packages |-> <<>>]
OldLockfile ==
    [specifiers |-> (Any3 :> <<3, 1>>),
     packages |-> (<<3, 1>> :> (1 :> <<1, 1>>)) @@ (<<1, 1>> :> (3 :> <<3, 1>>))]
MCTaskCases ==
    [registry : {Dependencies}, jobs : TaskLists \cup Installs, locked : {TRUE},
     start : {NoLockfile, OldLockfile}, faults : BOOLEAN]
    \cup [registry : {Dependencies}, jobs : TaskLists \cup Installs, locked : {FALSE},
          start : {NoLockfile}, faults : BOOLEAN]

-----------------------------------------------------------------------------
(* Package folders: two programs, at one time or one after the other,      *)
(* which put packages into the global cache or node_modules and are killed *)
(* where the code can stand it, see Safe and Shared.                       *)

OfBoth(x, y) == "p" :> x @@ "q" :> y
FolderCase(settings, places, rounds, apart, cached, faults, killed) ==
    [cached |-> cached, setting |-> settings, place |-> places, rounds |-> rounds,
     apart |-> apart, lax |-> cached, faults |-> faults, killed |-> killed, own |-> {}]
\* A program that is killed between the folder and its lock file, or while it removes a
\* folder, leaves what looks whole; so does --reload that copies over a folder.
Steps == {"todo", "look", "locked?", "fetch", "folder", "extract", "write", "unlock", "copy",
          "copying", "link", "relink", "init", "done", "error"}
Filling == {"lock", "extract", "write", "relink", "unlock", "clean"}   \* FilledAtOnce of NpmFiles
Safe(settings) == IF settings = {"Use"} \/ settings = {"Use", "Only"} THEN Steps ELSE Steps \ {"copying"}
Where == {"cache", "modules"}
Fresh == {"Use", "ReloadAll"}
Settings == {"Use", "ReloadAll", "Only"}
MCFolderCases ==
    \* one after the other; killed anywhere that is safe
    {FolderCase(OfBoth(s, t), OfBoth(w, x), 1, TRUE, FALSE, "ReloadAll" \notin {s, t}, Safe({s, t})) :
        s \in Fresh, t \in Settings, w \in Where, x \in Where}
    \* at once, in one node_modules directory
    \cup {FolderCase(OfBoth(s, t), OfBoth("modules", "modules"), 1, FALSE, FALSE, FALSE, Safe({s, t})) :
            s \in Fresh, t \in Settings}
    \* at once, in the global cache; killed before they fill a folder
    \cup {FolderCase(OfBoth(s, t), OfBoth("cache", "cache"), 1, FALSE, FALSE, FALSE,
                     Steps \ Filling) : s \in Fresh, t \in Settings}
    \* twice in a program
    \cup {FolderCase(OfBoth(s, "Use"), OfBoth(w, "modules"), 2, TRUE, FALSE, FALSE, {}) :
            s \in Settings, w \in Where}
    \* without the lock, from a global cache that has it all
    \cup {FolderCase(OfBoth(s, "Use"), OfBoth("modules", "modules"), 1, FALSE, TRUE, FALSE, {}) :
            s \in {"Use", "Only"}}

-----------------------------------------------------------------------------
(* Names: identifiers with peers two levels deep; folders of five names,   *)
(* two of them scoped and two with capitals, in two versions and copies.   *)

Encoding(name) == "base32 of " \o ToString(Len(name))
PlainNames == {<<"a">>, <<"a", "_", "b">>, <<"@", "s", "/", "a">>}
FolderNames == PlainNames \cup {<<"A">>, <<"@", "s", "/", "A">>}
PeerId(name, peers) == [name |-> name, version |-> "1.0.0", peers |-> peers]
UpToTwo(S) == {<<>>} \cup {<<x>> : x \in S} \cup {<<x, y>> : x \in S, y \in S}
NoPeers == {PeerId(n, <<>>) : n \in PlainNames}
WithPeers == {PeerId(n, ps) : n \in PlainNames, ps \in UpToTwo(NoPeers)}
DeepIds == WithPeers \cup {PeerId(<<"a">>, ps) : ps \in UpToTwo(WithPeers)}
DeepLevels == [id \in DeepIds |-> IF id.peers = <<>> THEN 0 ELSE IF id \in WithPeers THEN 1 ELSE 2]
FolderIds == [name : FolderNames, version : {"1.0.0", "2.0.0"}, copy : {"0", "1"}]
MCNameCases ==
    [kind : {"id"}, id : DeepIds]
    \cup [kind : {"folder"}, folder : FolderIds, other : FolderIds,
          file : {<< <<"lib">> >>, << <<"lib">>, <<"2.0.0">> >>}]

-----------------------------------------------------------------------------
(* The links of node_modules: snapshots of up to five packages, two        *)
(* versions of b and a copy of one of them, aliases x and y, circles.      *)

Pkg(name, version, copy) == [name |-> name, version |-> version, copy |-> copy]
PkgA == Pkg("a", 1, 0)
PkgB1 == Pkg("b", 1, 0)
PkgB2 == Pkg("b", 2, 0)
PkgB2Copy == Pkg("b", 2, 1)
PkgC == Pkg("c", 1, 0)
AllPkgs == {PkgA, PkgB1, PkgB2, PkgB2Copy, PkgC}
DepsOf(p) ==
    CASE p = PkgA -> {<<>>, "b" :> PkgB1, "b" :> PkgB2, "x" :> PkgB1 @@ "b" :> PkgB2,
                      "b" :> PkgB2Copy @@ "c" :> PkgC, "c" :> PkgC}
      [] p = PkgC -> {<<>>, "b" :> PkgB1, "b" :> PkgB2, "y" :> PkgB2Copy, "a" :> PkgA}
      [] OTHER -> {<<>>, "c" :> PkgC}
RECURSIVE ReachedFrom(_, _)
ReachedFrom(roots, deps) ==
    LET more == roots \cup UNION {Range(deps[p]) : p \in roots} IN
    IF more = roots THEN roots ELSE ReachedFrom(more, deps)
MCSnapshots ==
    {[deps |-> [p \in ReachedFrom(roots, f) |-> f[p]], roots |-> roots] :
        roots \in {{PkgA}, {PkgA, PkgB1}, {PkgA, PkgB1, PkgB2}, {PkgC, PkgB2}, {PkgB2, PkgB1}, {PkgA, PkgC}},
        f \in {g \in [AllPkgs -> UNION {DepsOf(p) : p \in AllPkgs}] : \A p \in AllPkgs : g[p] \in DepsOf(p)}}

-----------------------------------------------------------------------------
(* Node resolution: package p in the form of CommonJS, with a folder lib   *)
(* that may have a package.json; q with exports and modules, one of them   *)
(* in a folder; r without a package.json.                                  *)

File(dir, name, ext) == [dir |-> dir, name |-> name, ext |-> ext]
Js == <<"js">>
P == <<"p">>
Lib == <<"p", "lib">>
Q == <<"q">>
PA == File(P, "a", Js)
PB == File(P, "b", Js)
PBJs == File(P, "b", <<"js", "js">>)
LibB == File(Lib, "b", Js)
LibIndex == File(Lib, "index", Js)
PData == File(P, "data", <<"json">>)
QIndex == File(Q, "index", Js)
QMain == File(Q, "main", <<"mjs">>)
QTypes == File(Q, "main", <<"d", "ts">>)
QDeep == File(<<"q", "deep">>, "x", Js)
PSource == File(P, "src", <<"ts">>)
Stray == File(<<"stray">>, "x", Js)
WorldFiles == {PA, PB, LibIndex, QIndex, QMain, QTypes, QDeep, PData, PSource, Stray}

PackageJson(exp, main, type, bin, imp) ==
    [exports |-> exp, main |-> main, type |-> type, bin |-> bin, imports |-> imp]
PackageJsons ==
    P :> PackageJson(<<>>, {PA}, "none", "x" :> PA @@ "y" :> PB, "#x" :> PB)
    @@ Q :> PackageJson("none" :> QMain @@ "sub" :> QIndex @@ "gone" :> File(Q, "gone", Js), {}, "module",
                        "" :> QMain, <<>>)
LibJson == PackageJson(<<>>, {LibB}, "module", <<>>, <<>>)

\* Names that are exported
Text(t) == <<t, 0>>
Texts(S) == {Text(t) : t \in S}
SomeNames == Texts({"dashed-export", "static", "app", "default"})
Clashing == {Texts({"dashed-export", "static", "mod"}), Texts({"static"}) \cup {<<"__deno_export__", 1>>}}

Relative(name, ext) == [kind |-> "relative", name |-> name, ext |-> ext]
Bare(pkg, sub, ext) == [kind |-> "bare", pkg |-> pkg, sub |-> sub, ext |-> ext, valid |-> TRUE]
SomeRequests ==
    {Relative("b", <<>>), Relative("b", Js), Relative("lib", <<>>), Relative("gone", <<>>),
     Relative("data", <<"json">>), [kind |-> "builtin"], Bare("q", "sub", <<>>), Bare("p", "b", Js),
     Bare("p", "lib", <<>>), Bare("p", "none", <<>>), Bare("q", "none", <<>>), Bare("r", "none", <<>>)}
Found(names, reexports) == [ok |-> TRUE, exports |-> names, reexports |-> reexports]
World(files, jsons, ofA, ofB, ofIndex, names) ==
    [files |-> files, dirs |-> {P, Lib, Q, <<"q", "deep">>, <<"r">>, <<"stray">>},
     packages |-> ("p" :> P @@ "q" :> Q @@ "r" :> <<"r">>), json |-> jsons, dashed |-> Texts({"dashed-export"}),
     modules |-> (PA :> Found(names, ofA)) @@ (PB :> Found(Texts({"b1", "default"}), ofB))
                 @@ (LibIndex :> Found(Texts({"static"}), ofIndex)) @@ (QIndex :> Found(Texts({"q1"}), <<>>))
                 @@ (LibB :> Found(Texts({"c1"}), <<>>)) @@ (PBJs :> Found(Texts({"bb"}), <<>>))
                 @@ [p \in {QTypes, QDeep, PSource, Stray} |-> Found({}, <<>>)] @@ (QMain :> [ok |-> FALSE])]
Translate(world) == [world |-> world, job |-> "translate", file |-> PA, referrer |-> PA]
RequestLists ==
    {<<>>, <<Relative("b", <<>>), Relative("lib", <<>>)>>, <<Relative("lib", <<>>), Relative("b", <<>>)>>}
    \cup {<<r>> : r \in SomeRequests}
Translations ==
    {Translate(World(files, PackageJsons, a, b, i, SomeNames)) :
        files \in {WorldFiles, WorldFiles \cup {PBJs}}, a \in RequestLists, b \in RequestLists,
        i \in {<<>>, <<Relative("x", <<>>)>>, <<Relative("index", Js)>>}}
    \cup {Translate(World(files, PackageJsons @@ Lib :> LibJson, a, b, <<>>, SomeNames)) :
             files \in {WorldFiles, WorldFiles \cup {LibB}}, a \in RequestLists, b \in RequestLists}
    \cup {Translate(World(WorldFiles, PackageJsons, a, <<>>, <<>>, names)) :
             a \in RequestLists, names \in Clashing}
\* Two modules that reexport different files by the same request.
SameRequests ==
    {Translate(World(WorldFiles \cup {LibB}, PackageJsons, <<Relative("lib", <<>>), Relative("b", <<>>)>>, <<>>,
                     <<Relative("b", <<>>)>>, Texts({"app"})))}

Worlds ==
    {World(WorldFiles \cup {LibB}, jsons, <<>>, <<>>, <<>>, {}) : jsons \in {PackageJsons, PackageJsons @@ Lib :> LibJson}}
Specifiers ==
    SomeRequests \cup {Bare("zz", "none", <<>>), Bare("q", "gone", <<>>), Bare("p", "gone", Js)}
    \cup {[kind |-> "import", key |-> "#x"], [kind |-> "absolute", dir |-> Q, name |-> "main", ext |-> <<"mjs">>]}
    \cup [kind : {"url"}, scheme : {"file"}, path : {PA, QTypes, QDeep, PSource, LibIndex, Stray, File(P, "gone", Js)}]
    \cup [kind : {"url"}, scheme : {"data", "node", "https"}, known : BOOLEAN]
Resolutions ==
    [world : Worlds, job : {"import"}, spec : Specifiers,
     referrer : {PA, QIndex, LibIndex, QDeep, File(<<"data:">>, "x", <<>>)}, types : BOOLEAN]
    \cup [world : Worlds, job : {"npm"}, spec : {r \in Specifiers : r.kind = "bare"},
          referrer : {PA}, types : BOOLEAN]
    \cup [world : Worlds, job : {"bin"}, spec : {Bare(p, "none", <<>>) : p \in {"p", "q", "r", "zz"}},
          bin : {"none", "x", "p", "q"}, referrer : {PA}]
MCNodeCases == Translations \cup Resolutions

-----------------------------------------------------------------------------
(* Files of a project: a tree with a node_modules directory in two         *)
(* spellings, one symlink, and includes and excludes that overlap.         *)

ProjectDirs ==
    {<<>>, <<"r">>, <<"r", "a">>, <<"r", "ab">>, <<"r", "node_modules">>, <<"r", "node_modules", "c">>,
     <<"r", "a", "Node_Modules">>, <<"out">>}
ProjectFiles ==
    {<<"r", "m.ts">>, <<"r", "a", "m.ts">>, <<"r", "ab", "m.ts">>, <<"r", "a", "x.css">>, <<"out", "m.ts">>,
     <<"r", "node_modules", "c", "m.ts">>, <<"r", "a", "Node_Modules", "m.ts">>}
ProjectLinks ==
    {<<>>}
    \cup [{<<"r", "l.ts">>} -> {<<"out", "m.ts">>, <<"out">>, <<"nowhere">>, <<"r", "node_modules", "c", "m.ts">>,
                               <<"r", "a", "x.css">>}]
    \cup [{<<"r", "a", "l">>} -> {<<"out">>}]
    \cup [{<<"r", "ab", "x.css">>} -> {<<"out", "m.ts">>}]
MCProjectCases ==
    [dirs : {ProjectDirs}, files : {ProjectFiles}, links : ProjectLinks, cwd : {<<"r">>},
     include : {<<>>, << <<"r">> >>, << <<"r", "a">> >>, << <<"r", "node_modules">>, <<"r", "m.ts">> >>,
                << <<"r", "a", "m.ts">> >>, << <<"r", "l.ts">>, <<"r", "ab">> >>,
                << <<"nothing">>, <<"r", "a">>, <<"r", "a">> >>},
     exclude : {{}, {<<"r", "a">>}, {<<"r", "a", "m.ts">>}, {<<"r", "gone">>}, {<<"out">>}, {<<"r", "a", "l">>}}]

-----------------------------------------------------------------------------
\* The constants that a .cfg cannot write
ItsOriginal(copy) == "a"
NodeModules == Pkg("node_modules", 0, 0)
NotCss(name) == name # "x.css"

-----------------------------------------------------------------------------
(* What the theorems about the parts assume holds of these instances.      *)

ASSUME RegistryOK == Registry!ConstantsOK
ASSUME ResolutionOK == \A k \in TaskCases : Resolution!CaseOK(k)
ASSUME FoldersOK == Folders!ConstantsOK /\ \A k \in FolderCases : Folders!Stands(k)
ASSUME NamesOK == Names!ConstantsOK
ASSUME ModulesOK == \A k \in Snapshots : Modules!SnapshotOK(k)
ASSUME NodeOK == \A k \in MCNodeCases : Node!CaseOK(k)
ASSUME ProjectOK == \A k \in ProjectCases : Project!CaseOK(k)
=============================================================================
