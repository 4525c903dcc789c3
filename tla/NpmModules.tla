----------------------------- MODULE NpmModules -----------------------------
(***************************************************************************)
(* How a package finds the packages it imports.  Without a node_modules    *)
(* directory the resolver looks into the snapshot (npm/resolvers/global.rs *)
(* and resolve_package_from_package of snapshot.rs).  With one it walks up *)
(* the directories (npm/resolvers/local.rs), which                         *)
(* sync_resolution_with_fs has filled with links in its steps 3 and 4.     *)
(*                                                                         *)
(* Packages are [nv, copy]; the folder .deno/<folder of p>/node_modules is *)
(* p itself, the directory node_modules is Root.  Links are made in the    *)
(* order of hash maps, any order.  Left out: the content of folders        *)
(* (NpmFiles), what folders are called (NpmNames), resolution for types.   *)
(***************************************************************************)
EXTENDS Naturals, Sequences, FiniteSets, TLC, Functions

CONSTANTS
    Root,     \* the directory node_modules itself
    Cases     \* snapshots: packages with their dependencies, and the roots

VARIABLES
    case,     \* the snapshot; never changes
    links,    \* links[d]: where the links of directory d lead, by name
    todo,     \* packages whose links step 3 has yet to make
    queue,    \* pending_packages of step 4: [pkg, top]
    found     \* found_names

vars == <<case, links, todo, queue, found>>

\* A case is [deps, roots]: deps[p] the packages that p depends on, by the name it uses for
\* them.  A package is [name, version, copy].
Packages == DOMAIN case.deps
Deps(p) == case.deps[p]
Orders(S) == {q \in [1..Cardinality(S) -> S] : Range(q) = S}

\* A link of node_modules other than the name of a package
NameAndVersion(p) == p.name \o "@" \o ToString(p.version)

\* A snapshot has the packages it names; a name and version are read as nothing else, for no
\* name has an @ but the first of a scope.  No package depends on one of its own name, itself
\* or another version: symlink_package_dir would remove the package's folder, which all who
\* depend on it link to, and put the link in its place.
SnapshotOK(k) ==
    /\ IsFiniteSet(DOMAIN k.deps) /\ Root \notin DOMAIN k.deps /\ k.roots \subseteq DOMAIN k.deps
    /\ \A p \in DOMAIN k.deps : /\ p.name \notin DOMAIN k.deps[p]
                               /\ k.deps[p] \in [DOMAIN k.deps[p] -> DOMAIN k.deps]
    /\ \A p, q \in DOMAIN k.deps :
          /\ NameAndVersion(p) # q.name
          /\ NameAndVersion(p) = NameAndVersion(q) => p.name = q.name /\ p.version = q.version

-----------------------------------------------------------------------------
(* Step 3 and 4 of sync_resolution_with_fs                                 *)

LinkTo(name, p) == [n \in {name} |-> p]
WithLinks(old, new) ==
    [n \in DOMAIN old \cup DOMAIN new |-> IF n \in DOMAIN new THEN new[n] ELSE old[n]]

\* Steps 1 and 2 have put every package into its folder.
Init ==
    /\ case \in Cases
    /\ links = [d \in DOMAIN case.deps \cup {Root} |-> IF d = Root THEN <<>> ELSE LinkTo(d.name, d)]
    /\ todo = DOMAIN case.deps
    /\ queue = <<>> /\ found = {}

\* Each dependency gets a link, by the name that p uses, to the folder of its own copy.
DepLinks(p) == Deps(p)

LinkDependencies(p) ==
    /\ p \in todo
    /\ todo' = todo \ {p}
    /\ links' = [links EXCEPT ![p] = WithLinks(@, DepLinks(p))]
    /\ \/ todo # {p} /\ UNCHANGED queue
       \/ todo = {p} /\ \E o \in Orders(case.roots) :
                            queue' = [i \in DOMAIN o |-> [pkg |-> o[i], top |-> TRUE]]
    /\ UNCHANGED <<case, found>>

\* A package gets its name, a further top level package of that name its name and
\* version; what it depends on comes later.
Sooner(q, ps) == [i \in DOMAIN ps |-> [pkg |-> ps[i], top |-> FALSE]] \o q    \* mutant: put in front
Later(q, ps) == q \o [i \in DOMAIN ps |-> [pkg |-> ps[i], top |-> FALSE]]
TopName(p) == IF p.name \notin found THEN p.name ELSE NameAndVersion(p)
LinkTop ==
    LET p == Head(queue).pkg IN
    /\ todo = {} /\ queue # <<>>
    /\ \/ /\ p.name \notin found \/ Head(queue).top
          /\ links' = [links EXCEPT ![Root] = WithLinks(@, LinkTo(TopName(p), p))]
          /\ found' = found \cup {p.name}
          /\ \E o \in Orders(Range(Deps(p))) : queue' = Later(Tail(queue), o)
       \/ /\ p.name \in found /\ ~Head(queue).top
          /\ queue' = Tail(queue)
          /\ UNCHANGED <<links, found>>
    /\ UNCHANGED <<case, todo>>

Next == (\E p \in Packages : LinkDependencies(p)) \/ LinkTop

Spec == Init /\ [][Next]_vars

-----------------------------------------------------------------------------
(* Resolution                                                              *)

\* resolve_package_from_package: a dependency, the package itself, or the best version
\* of that name, whichever copy of it comes first
Global(p, n) ==
    LET same == {q \in Packages : q.name = n}
        best == {q \in same : \A r \in same : r.version <= q.version} IN
    IF n \in DOMAIN Deps(p) THEN {Deps(p)[n]}
    ELSE IF p.name = n THEN {p} ELSE best

\* resolve_package_folder_from_package: the nearest directory that has it
Local(p, n) ==
    IF n \in DOMAIN links[p] THEN {links[p][n]}
    ELSE IF n \in DOMAIN links[Root] THEN {links[Root][n]} ELSE {}

-----------------------------------------------------------------------------
(* Properties                                                              *)

Named(S, n) == {q \in S : q.name = n}
\* r is at the top, by its name or by its name and version; perhaps another copy of it.
AtTop(r) ==
    \E n \in {r.name, NameAndVersion(r)} \cap DOMAIN links[Root] :
        LET q == links[Root][n] IN q \in case.roots /\ q.name = r.name /\ q.version = r.version

\* A program runs the same with and without a node_modules directory: once the links are
\* made, a package finds in node_modules the very package that the snapshot has for each of
\* its dependencies and for its own name, in whatever order the links were made.  Of the
\* packages that compete for any other name those that the project itself asks for win
\* (local.rs:353): what is found is one of them, or of that name if there is none; and each
\* of them is at the top.  Which of several versions is found may differ from the snapshot,
\* which has the best one; and a name may not be found that the snapshot knows, for what
\* only the second version of a package depends on is nowhere at the top.
SameModules ==
    todo = {} /\ queue = <<>> =>
        /\ \A p \in Packages : \A n \in {q.name : q \in Packages} \cup DOMAIN Deps(p) :
              IF n \in DOMAIN Deps(p) \cup {p.name} THEN Local(p, n) = Global(p, n)
              ELSE /\ Local(p, n) \subseteq Named(Packages, n)
                   /\ Named(case.roots, n) # {} => Local(p, n) \cap case.roots # {}
        /\ \A r \in case.roots : AtTop(r)
=============================================================================
