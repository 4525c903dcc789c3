----------------------------- MODULE NodeResolve -----------------------------
(***************************************************************************)
(* Node compatibility (node/mod.rs): which file a specifier means and of   *)
(* which kind it is, and the ES module that stands for a CommonJS module.  *)
(*                                                                         *)
(* A path is [dir, name, ext], the directory a sequence of names and the   *)
(* extension one of its parts: <<"d", "ts">> for .d.ts.  A name that a     *)
(* module exports, and an identifier, is a text with a number in it, 0     *)
(* where it does not matter: <<"app", 0>>.  A specifier is [kind, ...];    *)
(* what is not told apart by its text is a field: kind "relative" and      *)
(* "absolute" have a name and an extension (and a directory), "bare" and   *)
(* "import" a package or key and a subpath, "builtin" nothing, "url" a     *)
(* scheme and the path of a file: URL.                                     *)
(***************************************************************************)
EXTENDS Naturals, Sequences, FiniteSets, SequencesExt, Functions

CONSTANTS Cases   \* what to resolve or translate, see Init

VARIABLES
    case,      \* the case at hand; never changes
    pc,        \* "start", "reexports", "done", "failed" or "panicked"
    queue,     \* reexports_to_handle: [request, referrer]
    handled,   \* handled_reexports
    exports,   \* all_exports
    count,     \* temp_var_count
    code       \* the declarations of the translation, or the resolution

vars == <<case, pc, queue, handled, exports, count, code>>

\* case.world is [files, dirs, packages, json, modules, dashed]: the files, the directories,
\* the directories of packages by name, the package.json files by directory, what the
\* analysis of a CommonJS file finds, and the names that are no identifiers.  A package.json
\* is [exports, main, type, bin, imports].
World == case.world

\* What a case is like whose module is translated: there is an analysis of each file but JSON, and
\* no two files name different files by one request (translate_cjs_to_esm looks at its text alone).
CaseOK(k) ==
    LET scripts == {p \in k.world.files : p.ext # <<"json">>}
        parsed  == {p \in scripts : k.world.modules[p].ok}
        Requested(p) == Range(k.world.modules[p].reexports) IN
    /\ k.job \in {"import", "npm", "bin", "translate"}
    /\ k.job = "translate" =>
          /\ IsFiniteSet(k.world.files) /\ k.file \in k.world.files /\ scripts \subseteq DOMAIN k.world.modules
          /\ \A p \in parsed : k.world.modules[p].reexports \in Seq(Requested(p))
          /\ \A p, q \in parsed : \A r \in Requested(p) \cap Requested(q) :
                r.kind = "relative" => p.dir = q.dir

None == "none"   \* no subpath, no name of a command
Path(dir, name, ext) == [dir |-> dir, name |-> name, ext |-> ext]
WithJs(p) == [p EXCEPT !.ext = Append(@, "js")]
Index(dir) == Path(dir, "index", <<"js">>)
DirAt(p) == Append(p.dir, p.name)   \* the directory that a path without an extension names
IsFile(p) == p \in World.files
IsDir(p) == p.ext = <<>> /\ DirAt(p) \in World.dirs

Error == [kind |-> "error"]
Panic == [kind |-> "panic"]
At(p) == [kind |-> "path", path |-> p]
Nothing == [kind |-> "nothing"]

-----------------------------------------------------------------------------
(* Packages                                                                *)

Single(S) == CHOOSE x \in S : TRUE

\* parse_specifier and resolve_package_folder_from_package; a name that is none, like
\* "@scope", has no package.
Known(spec) == spec.pkg \in DOMAIN World.packages
Folder(spec) == World.packages[spec.pkg]

\* PackageJson::load: nothing is set where there is none.
HasJson(dir) == dir \in DOMAIN World.json
NoJson == [exports |-> <<>>, main |-> {}, type |-> "none", bin |-> <<>>, imports |-> <<>>]
Json(dir) == IF HasJson(dir) THEN World.json[dir] ELSE NoJson

\* get_closest_package_json: the directory itself, or the nearest above it, that has one
Closest(dir) ==
    {d \in Prefixes(dir) : HasJson(d) /\ \A e \in Prefixes(dir) : HasJson(e) => Len(e) <= Len(d)}

\* The functions of deno_node, as far as the files of the world go.
FromExports(dir, sub) ==
    IF sub \in DOMAIN Json(dir).exports THEN At(Json(dir).exports[sub]) ELSE Error
LegacyMain(dir) ==
    IF \E p \in Json(dir).main : IsFile(p) THEN At(CHOOSE p \in Json(dir).main : IsFile(p))
    ELSE IF IsFile(Index(dir)) THEN At(Index(dir)) ELSE Nothing
Declaration(p) ==
    LET d == Path(p.dir, p.name, <<"d", "ts">>) IN
    IF p.ext = <<"d", "ts">> THEN At(p) ELSE IF IsFile(d) THEN At(d) ELSE Nothing
PackageResolve(spec) ==
    IF ~Known(spec) THEN Error
    ELSE IF Json(Folder(spec)).exports # <<>> THEN FromExports(Folder(spec), spec.sub)
    ELSE IF spec.sub = None THEN LegacyMain(Folder(spec))
    ELSE At(Path(Folder(spec), spec.sub, spec.ext))

\* package_config_resolve, with the main module for types that exports do not have
ConfigResolve(spec, types) ==
    LET dir   == Folder(spec)
        found == FromExports(dir, spec.sub) IN
    IF Json(dir).exports # <<>>
    THEN IF found # Error \/ ~(types /\ spec.sub = None) THEN found ELSE LegacyMain(dir)
    ELSE IF spec.sub = None THEN LegacyMain(dir)
    ELSE At(Path(dir, spec.sub, spec.ext))

\* url_to_node_resolution
KindOf(p) ==
    CASE p.ext \in {<<"js">>, <<"d", "ts">>} ->
             IF Closest(p.dir) = {} THEN "error"
             ELSE IF Json(Single(Closest(p.dir))).type = "module" THEN "esm" ELSE "cjs"
      [] p.ext \in {<<"mjs">>, <<"d", "mts">>} -> "esm"
      [] p.ext = <<"ts">> -> "error"
      [] OTHER -> "cjs"

-----------------------------------------------------------------------------
(* node_resolve, node_resolve_npm_reference and the commands of a package  *)

\* module_resolve, up to finalize_resolution
Join(spec, referrer) ==
    Path(IF spec.kind = "absolute" THEN spec.dir ELSE referrer.dir, spec.name, spec.ext)
ModuleResolve(spec, referrer, types) ==
    CASE spec.kind \in {"relative", "absolute"} ->
             IF types THEN Declaration(Join(spec, referrer)) ELSE At(Join(spec, referrer))
      [] spec.kind = "import" ->
             LET imports == Json(Single(Closest(referrer.dir))).imports IN
             IF Closest(referrer.dir) # {} /\ spec.key \in DOMAIN imports THEN At(imports[spec.key]) ELSE Error
      [] spec.kind = "url" -> At(spec.path)
      [] OTHER -> PackageResolve(spec)

Data == <<"data:">>   \* the directory of a data: URL

FinalizeNothing(r) == r   \* mutant: what is not there is found
Finalize(r) == IF r.kind = "path" /\ ~IsFile(r.path) THEN Error ELSE r
Resolved(p) ==
    IF KindOf(p) = "error" THEN Error ELSE [kind |-> KindOf(p), path |-> p]
ForTypes(r, types) == IF types /\ r.kind = "path" THEN Declaration(r.path) ELSE r

Unfinished(r, types) ==
    LET t == ForTypes(r, types) IN IF t.kind = "path" THEN Resolved(t.path) ELSE t

NodeResolve(spec, referrer, types) ==
    CASE spec.kind = "builtin" -> [kind |-> "builtin"]
      [] spec.kind = "url" /\ spec.scheme = "data" -> [kind |-> "esm"]
      [] spec.kind = "url" /\ spec.scheme = "node" ->
             IF spec.known THEN [kind |-> "builtin"] ELSE Error
      [] spec.kind = "url" /\ spec.scheme \notin {"data", "node", "file"} -> Error
      [] spec.kind = "url" /\ referrer.dir = Data -> [kind |-> "esm", path |-> spec.path]
      [] spec.kind \in {"relative", "absolute"} /\ referrer.dir = Data -> Error
      [] OTHER -> Unfinished(Finalize(ModuleResolve(spec, referrer, types)), types)

\* node_resolve_npm_reference: without finalize_resolution
NpmReference(spec, types) ==
    IF Known(spec) THEN Unfinished(ConfigResolve(spec, types), types) ELSE Error

\* resolve_bin_entry_value; bin is empty, one path under the key "", or paths by name.
BinEntry(spec, bin, name) ==
    IF bin = <<>> THEN Error
    ELSE IF DOMAIN bin = {""}
    THEN IF name \notin {None, spec.pkg} THEN Error ELSE At(bin[""])
    ELSE IF name # None THEN IF name \in DOMAIN bin THEN At(bin[name]) ELSE Error
    ELSE IF Cardinality(Range(bin)) = 1 THEN At(Single(Range(bin)))
    ELSE IF spec.pkg \in DOMAIN bin THEN At(bin[spec.pkg]) ELSE Error
BinExport(spec, name) ==
    LET entry == BinEntry(spec, Json(Folder(spec)).bin, name) IN
    IF ~Known(spec) \/ entry = Error THEN Error ELSE Resolved(entry.path)

-----------------------------------------------------------------------------
(* resolve, for the reexports of CommonJS modules                          *)

\* file_extension_probe: a name with ".js" goes before a name.
Probe(p) ==
    IF IsFile(WithJs(p)) THEN At(WithJs(p))
    ELSE IF IsDir(p) THEN At(Index(DirAt(p)))
    ELSE IF IsFile(p) THEN At(p) ELSE Error

\* Whether it is there is seen when its source is asked for.
MainOf(dir) ==
    At(IF Json(dir).main # {} THEN Single(Json(dir).main) ELSE Index(dir))
Resolve(spec, referrer) ==
    CASE spec.kind = "absolute" -> Panic
      [] spec.kind = "relative" -> Probe(Join(spec, referrer))
      [] spec.kind = "bare" /\ ~spec.valid -> Panic
      [] spec.kind # "bare" \/ ~Known(spec) -> Error
      [] OTHER ->
           LET dir == Folder(spec)
               sub == Path(dir, spec.sub, spec.ext) IN
           IF ~HasJson(dir) THEN Error
           ELSE IF Json(dir).exports # <<>> THEN FromExports(dir, spec.sub)
           ELSE IF spec.sub = None THEN MainOf(dir)
           ELSE IF IsDir(sub) THEN MainOf(DirAt(sub))
           ELSE Probe(sub)

-----------------------------------------------------------------------------
(* translate_cjs_to_esm                                                    *)

\* perform_cjs_analysis: nothing is asked of JSON, and not every file can be parsed.
Analysis(p) ==
    IF p.ext = <<"json">> THEN [ok |-> TRUE, exports |-> {}, reexports |-> <<>>]
    ELSE World.modules[p]

Default == <<"default", 0>>

Requests(analysis, p) ==
    [i \in DOMAIN analysis.reexports |-> [request |-> analysis.reexports[i], referrer |-> p]]

Init ==
    /\ case \in Cases
    /\ pc = "start" /\ queue = <<>> /\ handled = {} /\ exports = {} /\ count = 0 /\ code = {}

\* A resolution is one step.
ResolveOne ==
    /\ pc = "start" /\ case.job # "translate"
    /\ code' = {CASE case.job = "import" -> NodeResolve(case.spec, case.referrer, case.types)
                  [] case.job = "npm"    -> NpmReference(case.spec, case.types)
                  [] case.job = "bin"    -> BinExport(case.spec, case.bin)}
    /\ pc' = "done"
    /\ UNCHANGED <<case, queue, handled, exports, count>>

StartTranslation ==
    LET analysis == Analysis(case.file) IN
    /\ pc = "start" /\ case.job = "translate"
    /\ IF analysis.ok
       THEN /\ queue' = Requests(analysis, case.file)
            /\ exports' = analysis.exports
            /\ pc' = "reexports"
       ELSE pc' = "failed" /\ UNCHANGED <<queue, exports>>
    /\ UNCHANGED <<case, handled, count, code>>

HandledAlready(next) == next.request \in handled
Skip ==
    /\ pc = "reexports" /\ queue # <<>> /\ HandledAlready(Head(queue))
    /\ queue' = Tail(queue)
    /\ UNCHANGED <<case, pc, handled, exports, count, code>>

Handle ==
    LET next  == Head(queue)
        found == Resolve(next.request, next.referrer) IN
    /\ pc = "reexports" /\ queue # <<>> /\ ~HandledAlready(next)
    /\ handled' = handled \cup {next.request}
    /\ IF found = Panic THEN pc' = "panicked" /\ UNCHANGED <<queue, exports>>
       ELSE IF found = Error \/ ~IsFile(found.path) \/ ~Analysis(found.path).ok
       THEN pc' = "failed" /\ UNCHANGED <<queue, exports>>
       ELSE /\ queue' = Tail(queue) \o Requests(Analysis(found.path), found.path)
            /\ exports' = exports \cup (Analysis(found.path).exports \ {Default})
            /\ UNCHANGED pc
    /\ UNCHANGED <<case, count, code>>

Reserved ==
    {"break", "case", "catch", "class", "const", "continue", "debugger", "default", "delete",
     "do", "else", "export", "extends", "false", "finally", "for", "function", "if", "import",
     "in", "instanceof", "new", "null", "return", "super", "switch", "this", "throw", "true",
     "try", "typeof", "var", "void", "while", "with", "yield", "let", "enum", "implements",
     "interface", "package", "private", "protected", "public", "static"}
NeedsTemporary(name) == name[1] \in Reserved \/ name \in World.dashed

Exported == {d.as : d \in code}
Left == exports \ ({Default} \cup Exported)   \* what is yet to be declared
Temporary(n) == <<"__deno_export__", n>>
Constant(name) == [id |-> name, as |-> name]
Renamed(name, n) == [id |-> Temporary(n), as |-> name]

\* add_export, for the next in the order of a hash set: a constant of the name, or a numbered one
\* that is exported as the name.
AddExport ==
    /\ pc = "reexports" /\ queue = <<>>
    /\ \E name \in Left :
          IF NeedsTemporary(name)
          THEN count' = count + 1 /\ code' = code \cup {Renamed(name, count + 1)}
          ELSE code' = code \cup {Constant(name)} /\ UNCHANGED count
    /\ UNCHANGED <<case, pc, queue, handled, exports>>

Finish ==
    /\ pc = "reexports" /\ queue = <<>> /\ Left = {}
    /\ pc' = "done"
    /\ UNCHANGED <<case, queue, handled, exports, count, code>>

Next == ResolveOne \/ StartTranslation \/ Skip \/ Handle \/ AddExport \/ Finish

Spec == Init /\ [][Next]_vars
-----------------------------------------------------------------------------
(* Properties                                                              *)

\* What is left to a package.json or to the reference itself, and not looked at: a subpath, what
\* exports names, and what bin names.
Declares(spec) == case.job = "bin" \/ spec.sub # None \/ Json(Folder(spec)).exports # <<>>

\* What an import means is there when it is resolved, and so is what an npm reference means, unless
\* it was declared and not looked for; where types are asked for it is a declaration.  From a data:
\* URL nothing is looked for.
ResolutionSound ==
    \A r \in IF case.job = "translate" \/ case.referrer.dir = Data THEN {} ELSE code :
        r.kind \in {"esm", "cjs"} /\ "path" \in DOMAIN r =>
            /\ IsFile(r.path) \/ (case.job # "import" /\ Declares(case.spec))
            /\ case.job # "bin" /\ case.types => r.path.ext = <<"d", "ts">>

\* The files that a module reexports, in one or more steps.
FilesFrom(p) ==
    {Resolve(r, p).path : r \in {q \in ToSet(Analysis(p).reexports) : Resolve(q, p).kind = "path"}}
Reach[n \in 0..Cardinality(World.files)] ==
    IF n = 0 THEN {case.file} ELSE Reach[n - 1] \cup UNION {FilesFrom(p) : p \in Reach[n - 1]}

\* "For all discovered reexports the analysis will be performed recursively": what a
\* translation exports are the exports of all files it reexports.
ReexportsComplete ==
    case.job = "translate" /\ pc = "done" =>
        Exported = (UNION {Analysis(p).exports : p \in Reach[Cardinality(World.files)]}) \ {Default}

\* Names that a translation declares besides the exports: two at its start, "mod" before them.
Around == {<<"mod", 0>>, <<"require", 0>>, <<"__internalCreateRequire", 0>>}

\* "a temporary variable that won't have a conflict": no identifier is declared twice, nor one of
\* the code around, in whatever order the exports come, unless an export has the name of one.
DeclaredOnce ==
    case.job = "translate" /\ exports \cap (Around \cup {Temporary(n) : n \in 1..count}) = {} =>
        /\ \A d, e \in code : d.id = e.id => d = e
        /\ \A d \in code : d.id \notin Around
=============================================================================
