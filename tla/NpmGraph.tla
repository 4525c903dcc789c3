------------------------------- MODULE NpmGraph -------------------------------
(***************************************************************************)
(* How module_fetcher resolves npm packages (npm/resolution/graph.rs): the *)
(* requirements become roots of a graph of nodes, paths through the graph  *)
(* are analysed in breadth, a peer dependency is looked up along the path  *)
(* above it, and every node on the way down gets an identity that names    *)
(* the peer.  The finished graph becomes a snapshot, and the next batch of *)
(* requirements starts from that snapshot.                                 *)
(*                                                                         *)
(* Names, versions and specifiers are numbers, ordered like the texts they *)
(* stand for; a requirement is the set of versions it matches (a tag       *)
(* matches the tagged version).  A hash of a resolved identifier is the    *)
(* tuple it is computed from.  Nodes and paths are numbered in the order   *)
(* of their creation.  The registry always answers.                        *)
(***************************************************************************)
EXTENDS Naturals, Sequences, FiniteSets, SequencesExt, FiniteSetsExt, Functions, TLC

CONSTANT Cases   \* [registry, rounds]: what is published, what is asked for
CONSTANT MaxPaths   \* bound: paths in one batch

VARIABLES
    case,     \* the case at hand; never changes
    round,    \* the batch of requirements that is resolved
    phase,    \* "idle", "resolving", "failed" or "panicked"
    graph,    \* Graph and GraphDependencyResolver, while resolving
    snapshot  \* NpmResolutionSnapshot

vars == <<case, round, phase, graph, snapshot>>

Registry == case.registry

-----------------------------------------------------------------------------
(* What a version's package.json says, and which version a requirement gets *)

Before(x, y) ==
    \/ x.name < y.name
    \/ x.name = y.name /\ Max(x.req) > Max(y.req)
    \/ x.name = y.name /\ Max(x.req) = Max(y.req) /\ x.spec < y.spec

\* dependencies_as_entries, sorted by DepEntryCache.store.  A specifier that is a
\* peer dependency and a dependency is one entry.
Entries(nv) ==
    LET info == Registry[nv]
        both(p) == {d \in info.deps : d.spec = p.spec}
        peers == {[kind |-> IF p.optional THEN "optional" ELSE "peer",
                   spec |-> p.spec, name |-> p.name, req |-> p.req,
                   own |-> IF both(p) = {} THEN p.req
                           ELSE (CHOOSE d \in both(p) : TRUE).req] : p \in info.peers}
        deps == {[kind |-> "dep", spec |-> d.spec, name |-> d.name, req |-> d.req,
                  own |-> d.req] :
                    d \in {x \in info.deps : \A p \in info.peers : p.spec # x.spec}}
    IN SetToSortSeq(peers \cup deps, Before)

Published(name) == {nv[2] : nv \in {x \in DOMAIN Registry : x[1] = name}}

\* resolve_best_package_version_and_info: the best version that is in use already,
\* or else the best there is; 0 if there is none.
ReuseAny(name, req, known) ==   \* mutant: a version in use is taken unseen
    LET used == {nv[2] : nv \in {x \in known : x[1] = name}}
        all  == req \cap Published(name) IN
    IF used # {} THEN Max(used) ELSE IF all # {} THEN Max(all) ELSE 0
Best(name, req, known) ==
    LET used == {nv[2] : nv \in {x \in known : x[1] = name}} \cap req
        all  == req \cap Published(name) IN
    IF used # {} THEN Max(used) ELSE IF all # {} THEN Max(all) ELSE 0

-----------------------------------------------------------------------------
(* Nodes and resolved identifiers                                          *)

\* ResolvedIdPeerDep: the child nv of what the path at leads to (0: of the root), or
\* a node that came with the snapshot.
ParentReference(at, root, nv) == [kind |-> "parent", at |-> at, root |-> root, nv |-> nv]
SnapshotNodeId(n) == [kind |-> "snapshot", node |-> n]

\* current_state_hash, of a peer and of an identifier
PeerHash(g, p) ==
    IF p.kind = "snapshot" THEN <<"snapshot", p.node>>
    ELSE IF p.at = 0 THEN <<"root", p.root, p.nv>>
    ELSE <<"node", g.paths[p.at].node, p.nv>>

HashOfVersion(g, id) == <<id.nv>>   \* mutant: the peers are not part of the hash
IdHash(g, id) == <<id.nv, [i \in DOMAIN id.peers |-> PeerHash(g, id.peers[i])]>>

\* push_peer_dep
Pushed(g, id, p) ==
    IF \E i \in DOMAIN id.peers : PeerHash(g, id.peers[i]) = PeerHash(g, p)
    THEN id ELSE [id EXCEPT !.peers = Append(@, p)]

\* create_node, ResolvedNodeIds.set
NewNode(g, id) ==
    LET n == Len(g.nodes) + 1 IN
    [g EXCEPT !.nodes = Append(@, [children |-> <<>>, noPeers |-> FALSE]),
              !.ids = Append(@, id),
              !.known = @ \cup {id.nv},
              !.byHash = (IdHash(g, id) :> n) @@ @]

\* get_or_create_for_id: the node there is for the identifier, if any.
HasNode(g, id) == IdHash(g, id) \in DOMAIN g.byHash
WithNode(g, id) == IF HasNode(g, id) THEN g ELSE NewNode(g, id)
NodeOf(g, id) == g.byHash[IdHash(g, id)]

Panic(g) == [g EXCEPT !.panic = TRUE]

\* set_child_of_parent_node, with its assert_ne!
SetChild(g, parent, spec, child) ==
    IF parent = child THEN Panic(g)
    ELSE [g EXCEPT !.nodes[parent].children = (spec :> child) @@ @]

InOrder(S) == SetToSortSeq(S, <)
NvBefore(a, b) == a[1] < b[1] \/ (a[1] = b[1] /\ a[2] < b[2])

-----------------------------------------------------------------------------
(* Paths                                                                   *)

\* for_root, with_id: 0 is the root.
RootPath(n, nv) ==
    [prev |-> 0, root |-> nv, node |-> n, spec |-> 0, nv |-> nv, linked |-> <<>>]
Below(g, p, n, spec, nv) ==
    [prev |-> p, root |-> g.paths[p].root, node |-> n, spec |-> spec, nv |-> nv,
     linked |-> <<>>]

WithPath(g, path) == [g EXCEPT !.paths = Append(@, path)]
LastPath(g) == Len(g.paths)
Queue(g, path) ==
    LET h == WithPath(g, path) IN [h EXCEPT !.pending = Append(@, LastPath(h))]

\* ancestors, from the nearest to the topmost path
AncestorsOf(g, p) ==
    LET up[q \in 0..p] == IF q = 0 THEN <<>> ELSE <<q>> \o up[g.paths[q].prev]
    IN up[g.paths[p].prev]

\* find_ancestor: 0 if there is none.
NoAncestor(g, p, nv) == 0   \* mutant: circles are not noticed
FindAncestor(g, p, nv) ==
    LET found == SelectSeq(AncestorsOf(g, p), LAMBDA a : g.paths[a].nv = nv)
    IN IF found = <<>> THEN 0 ELSE Head(found)

\* get_path_to_ancestor_exclusive
PathToAncestor(g, p, node) ==
    LET up == AncestorsOf(g, p)
        at == SelectInSeq(up, LAMBDA a : g.paths[a].node = node)
    IN IF at = 0 THEN up ELSE SubSeq(up, 1, at - 1)

-----------------------------------------------------------------------------
(* Peer dependencies                                                       *)

Stopped(g) == g.panic \/ g.error

PeerNv(g, p) == IF p.kind = "snapshot" THEN g.ids[p.node].nv ELSE p.nv

\* add_peer_deps_to_path: the nodes of a path (bottom first), from the top down, get
\* the peers into their identity; the paths that lead back to one of them follow.
RECURSIVE AddPeerDeps(_, _, _)

\* copy_children: a node of its own starts with the children of the one it replaces.
CopiedNode(g, old, id) ==
    IF HasNode(g, id) THEN g
    ELSE LET h == NewNode(g, id)
         IN [h EXCEPT !.nodes[Len(h.nodes)].children = h.nodes[old].children]

\* The path that d has to the node new, which it depends on in a circle
LeadBack(g, d, new) ==
    LET h == [g EXCEPT !.paths[d].node = new]
    IN SetChild(h, h.paths[h.paths[d].prev].node, h.paths[d].spec, new)
Follow(g, d, path, new, peers) ==
    IF Stopped(g) \/ path = <<>> THEN Panic(g)
    ELSE LeadBack(AddPeerDeps(g, path, peers), d, new)

\* The parent of the path, or the root, gets the new node.
Replaced(g, p, new) ==
    LET up == g.paths[p].prev IN
    IF up = 0 THEN [g EXCEPT !.roots = (g.paths[p].root :> new) @@ @]
    ELSE [g EXCEPT !.nodes[g.paths[up].node].children = (g.paths[p].spec :> new) @@ @]

Renamed(g, p, new, peers) ==
    LET follow(h, d) == Follow(h, d, PathToAncestor(h, d, new), new, peers)
    IN Replaced(FoldLeft(follow, [g EXCEPT !.paths[p].node = new], g.paths[p].linked), p, new)

AddPeersAt(g, p, peers) ==
    LET old   == g.paths[p].node
        add(id, x) == IF PeerNv(g, x) = id.nv THEN id ELSE Pushed(g, id, x)
        rename(id) == LET h == CopiedNode(g, old, id)
                      IN IF id = g.ids[old] THEN g ELSE Renamed(h, p, NodeOf(h, id), peers)
    IN IF Stopped(g) THEN g ELSE rename(FoldLeft(add, g.ids[old], peers))
AddPeerDeps(g, path, peers) ==
    FoldLeft(LAMBDA h, p : AddPeersAt(h, p, peers), g, Reverse(path))

\* set_new_peer_dep: path leads from the node that has the peer dependency up to the
\* place where its package was found.
Linked(g, a, d) == [g EXCEPT !.paths[a].linked = Append(@, d)]
PeerChild(g, bottom, top, spec, id, nv) ==
    LET new == Below(g, bottom, id, spec, nv) IN
    IF Stopped(g) THEN g
    ELSE IF g.paths[top].nv = nv THEN Linked(WithPath(g, new), top, LastPath(g) + 1)
    ELSE Queue(g, new)
SetNewPeerDep(g, path, at, root, spec, id) ==
    LET nv   == g.ids[id].nv
        rest == IF g.paths[Last(path)].nv = nv THEN Front(path) ELSE path
        child(h) == SetChild(h, h.paths[Head(rest)].node, spec, id)
    IN IF rest = <<>> THEN Panic(g)
       ELSE PeerChild(child(AddPeerDeps(g, rest, <<ParentReference(at, root, nv)>>)),
                      Head(rest), Last(path), spec, id, nv)

\* add_linked_circular_descendant
LinkPath(g, a, d, path) ==
    LET child(h) == SetChild(h, h.paths[Head(path)].node, h.paths[d].spec, h.paths[d].node)
    IN IF path = <<>> THEN Panic(g)
       ELSE Linked(child(AddPeerDeps(g, path, g.ids[g.paths[a].node].peers)), a, d)
LinkDescendant(g, a, descendant) ==
    LET h == WithPath(g, descendant)
        d == LastPath(g) + 1
    IN LinkPath(h, a, d, PathToAncestor(h, d, g.paths[a].node))

Satisfies(e, nv) == nv[1] = e.name /\ nv[2] \in e.req

\* find_peer_dep_in_node: where a node, or one of its children, is the peer;
\* find_matching_child takes the first in the order of the specifiers.
NotFound == [at |-> 0, root |-> <<0, 0>>, id |-> 0]
FindPeerInNode(g, p, e) ==
    LET n == g.paths[p].node
        kids == g.nodes[n].children
        matching == {s \in DOMAIN kids : Satisfies(e, g.ids[kids[s]].nv)} IN
    IF Satisfies(e, g.ids[n].nv)
    THEN [at |-> g.paths[p].prev, root |-> g.paths[p].root, id |-> n]
    ELSE IF matching = {} THEN NotFound
    ELSE [at |-> p, root |-> g.paths[p].root, id |-> kids[Min(matching)]]

FindPeerInRoots(g, p, e) ==
    LET matching == {nv \in DOMAIN g.roots : Satisfies(e, nv)} IN
    IF matching = {} THEN NotFound
    ELSE [at |-> 0, root |-> g.paths[p].root,
          id |-> g.roots[SetToSortSeq(matching, NvBefore)[1]]]

-----------------------------------------------------------------------------
(* Dependencies                                                            *)

Fail(g) == [g EXCEPT !.error = TRUE]

\* resolve_node_from_info: [g, nv, id] of the version a requirement gets.
ResolveNode(g, name, req) ==
    LET v  == Best(name, req, g.known)
        id == [nv |-> <<name, v>>, peers |-> <<>>]
        g1 == WithNode(g, id)
        n  == NodeOf(g1, id) IN
    IF v = 0 THEN [g |-> Fail(g), nv |-> <<name, 0>>, id |-> 0]
    ELSE [g  |-> IF Entries(id.nv) = <<>> THEN [g1 EXCEPT !.nodes[n].noPeers = TRUE] ELSE g1,
          nv |-> id.nv, id |-> n]

\* resolve_peer_dep: the nearest place on the way up where the peer is there already,
\* the root packages last; or else a version of its own, unless it is optional.
ResolvePeerDep(g, p, e) ==
    LET up    == <<p>> \o AncestorsOf(g, p)
        at    == SelectInSeq(up, LAMBDA a : FindPeerInNode(g, a, e) # NotFound)
        root  == FindPeerInRoots(g, p, e)
        found == IF at > 0 THEN FindPeerInNode(g, up[at], e) ELSE root
        own   == ResolveNode(g, e.name, e.own)
    IN IF found # NotFound
       THEN [g  |-> SetNewPeerDep(g, IF at > 0 THEN SubSeq(up, 1, at) ELSE up,
                                  found.at, found.root, e.spec, found.id),
             id |-> found.id]
       ELSE IF e.kind = "optional" THEN [g |-> g, id |-> 0]
       ELSE IF own.id = 0 THEN [g |-> own.g, id |-> 0]
       ELSE [g  |-> SetNewPeerDep(own.g, <<p>>, p, g.paths[p].root, e.spec, own.id),
             id |-> own.id]

\* resolve_pending for an entry of kind Dep; analyze_dependency when the node has no
\* such child yet.
ResolveDep(g, p, e) ==
    LET parent == g.paths[p].node
        kids   == g.nodes[parent].children
        known  == e.spec \in DOMAIN kids
        r      == IF known THEN [g |-> g, nv |-> g.ids[kids[e.spec]].nv, id |-> kids[e.spec]]
                  ELSE ResolveNode(g, e.name, e.req)
        a      == FindAncestor(r.g, p, r.nv)
        child  == IF known \/ a = 0 THEN r.id ELSE r.g.paths[a].node
        new    == Below(r.g, p, child, e.spec, r.nv)
        g1     == IF known THEN r.g ELSE SetChild(r.g, parent, e.spec, child)
    IN IF r.id = 0 \/ (~known /\ r.id = parent) THEN [g |-> r.g, id |-> r.id]
       ELSE IF a # 0 THEN [g |-> LinkDescendant(r.g, a, new), id |-> child]
       ELSE [g |-> Queue(g1, new), id |-> child]

\* An optional peer that is found goes to every earlier path to the same version that
\* did without; one that is not found waits for a later path.
OptionalPeers(g, nv, p, e, id) ==
    LET waiting == IF nv \in DOMAIN g.optional THEN g.optional[nv] ELSE <<>>
        g1 == [g EXCEPT !.optional = (nv :> <<>>) @@ @] IN
    IF id = 0
    THEN [g EXCEPT !.optional = (nv :> Append(waiting, [spec |-> e.spec, path |-> p])) @@ @]
    ELSE FoldLeft(LAMBDA h, w : IF Stopped(h) THEN h
                                ELSE SetNewPeerDep(h, <<w.path>>, w.path, h.paths[w.path].root,
                                                   w.spec, id),
                  g1, waiting)

\* found: an entry that is a peer, or may have peers below it
EntryResolved(r, p, nv, e, found) ==
    [g |-> IF e.kind = "optional" /\ ~Stopped(r.g)
           THEN OptionalPeers(r.g, nv, p, e, r.id) ELSE r.g,
     found |-> found \/ e.kind # "dep" \/ (r.id # 0 /\ ~r.g.nodes[r.id].noPeers)]
ResolveEntry(s, p, nv, e) ==
    IF Stopped(s.g) THEN s
    ELSE EntryResolved(IF e.kind = "dep" THEN ResolveDep(s.g, p, e) ELSE ResolvePeerDep(s.g, p, e),
                       p, nv, e, s.found)

\* resolve_pending, for the path p at the head of the queue
Analyzed(r, p) ==
    IF r.found \/ Stopped(r.g) THEN r.g
    ELSE [r.g EXCEPT !.nodes[r.g.paths[p].node].noPeers = TRUE]
Analyze(g, p) ==
    LET node == g.paths[p].node
        nv   == g.ids[node].nv
        resolve(s, e) == ResolveEntry(s, p, nv, e)
    IN IF g.nodes[node].noPeers THEN g
       ELSE Analyzed(FoldLeft(resolve, [g |-> g, found |-> FALSE], Entries(nv)), p)

-----------------------------------------------------------------------------
(* Between the snapshot and the graph                                      *)

EmptySnapshot == [reqs |-> <<>>, roots |-> <<>>, packages |-> <<>>]

\* What get_or_create_graph_node reaches: peers and dependencies of a package.
Reaches(s, ids) ==
    ids \cup UNION {ToSet(id.peers) : id \in ids}
        \cup UNION {Range(s.packages[id].deps) : id \in ids \cap DOMAIN s.packages}
Reached(s) ==
    LET RECURSIVE Close(_)
        Close(ids) == IF Reaches(s, ids) = ids THEN ids ELSE Close(Reaches(s, ids))
    IN Close(Range(s.roots))

\* Graph::from_snapshot: one node for a package, its peers among them.
FromSnapshot(s) ==
    LET order == FoldSet(LAMBDA id, q : Append(q, id), <<>>, Reached(s))
        node(id) == SelectInSeq(order, LAMBDA x : x = id)
        rids == [i \in DOMAIN order |->
                    [nv |-> order[i].nv,
                     peers |-> [j \in DOMAIN order[i].peers |->
                                   SnapshotNodeId(node(order[i].peers[j]))]]]
        deps(id) == IF id \in DOMAIN s.packages THEN s.packages[id].deps ELSE <<>>
    IN [reqs     |-> s.reqs,
        roots    |-> [nv \in DOMAIN s.roots |-> node(s.roots[nv])],
        known    |-> {id.nv : id \in Range(order)},
        nodes    |-> [i \in DOMAIN order |->
                        [children |-> [x \in DOMAIN deps(order[i]) |-> node(deps(order[i])[x])],
                         noPeers |-> FALSE]],
        ids      |-> rids,
        byHash   |-> [h \in {<<rids[i].nv, [j \in DOMAIN rids[i].peers |->
                                 <<"snapshot", rids[i].peers[j].node>>]>> : i \in DOMAIN rids}
                        |-> CHOOSE i \in DOMAIN rids :
                               h = <<rids[i].nv, [j \in DOMAIN rids[i].peers |->
                                        <<"snapshot", rids[i].peers[j].node>>]>>],
        paths    |-> <<>>, pending |-> <<>>, optional |-> <<>>,
        panic    |-> FALSE,
        error    |-> ~(Reached(s) \subseteq DOMAIN s.packages)]

ChildOfParent(g, p) ==
    LET kids == g.nodes[g.paths[p.at].node].children
        same == {x \in DOMAIN kids : g.ids[kids[x]].nv = p.nv}
    IN IF same = {} THEN 0 ELSE kids[Min(same)]
RootPackage(g, p) == IF p.nv \in DOMAIN g.roots THEN g.roots[p.nv] ELSE 0

\* The node a peer of an identifier is: 0 if there is none any more.
OwnPeersOnly(g, p) ==   \* mutant: peers that came with the snapshot are dropped
    IF p.kind = "snapshot" THEN 0
    ELSE IF p.at = 0 THEN RootPackage(g, p) ELSE ChildOfParent(g, p)
PeerNode(g, p) ==
    IF p.kind = "snapshot" THEN p.node
    ELSE IF p.at = 0 THEN RootPackage(g, p) ELSE ChildOfParent(g, p)

\* get_npm_pkg_id: the peers in order and each once, a node on the way not again.
RECURSIVE PkgIdOf(_, _, _)
PkgIdOf(g, id, seen) ==
    LET add(ids, p) ==
            LET n == PeerNode(g, p)
                peer == PkgIdOf(g, g.ids[n], seen \cup {n}) IN
            IF n = 0 \/ n \in seen THEN ids
            ELSE IF peer \in ToSet(ids) THEN ids ELSE Append(ids, peer)
    IN [nv |-> id.nv, peers |-> FoldLeft(add, <<>>, id.peers)]
PkgId(g, n) == PkgIdOf(g, g.ids[n], {})

CopiesFromZero(indexes, id) ==   \* mutant: every new copy gets index 0
    IF id \in DOMAIN indexes THEN indexes[id] ELSE 0
\* SnapshotPackageCopyIndexResolver: a copy keeps its index, a new one gets the next
CopyIndex(indexes, id) ==
    LET same == {indexes[x] : x \in {y \in DOMAIN indexes : y.nv = id.nv}} IN
    IF id \in DOMAIN indexes THEN indexes[id]
    ELSE IF same = {} THEN 0 ELSE Max(same) + 1

\* into_snapshot: the packages, in breadth from the roots; the first node of an
\* identifier stands for all of them.
RECURSIVE Collect(_, _, _, _, _)
Collect(g, pkg, queue, packages, indexes) ==
    LET n    == Head(queue)
        kids == g.nodes[n].children
        id   == pkg[n]
        seen == DOMAIN packages \cup {pkg[queue[i]] : i \in DOMAIN queue}
        add(q, x) ==
            IF pkg[kids[x]] \in seen \cup {pkg[q[i]] : i \in DOMAIN q} THEN q
            ELSE Append(q, kids[x])
        index == CopyIndex(indexes, id)
    IN IF queue = <<>> THEN packages
       ELSE Collect(g, pkg, FoldLeft(add, Tail(queue), InOrder(DOMAIN kids)),
                    (id :> [copy |-> index, deps |-> [x \in DOMAIN kids |-> pkg[kids[x]]]])
                        @@ packages,
                    (id :> index) @@ indexes)

IntoSnapshot(g, before) ==
    LET pkg == [n \in DOMAIN g.nodes |-> PkgId(g, n)]
        add(q, nv) == IF pkg[g.roots[nv]] \in {pkg[q[i]] : i \in DOMAIN q} THEN q
                      ELSE Append(q, g.roots[nv])
    IN [reqs     |-> g.reqs,
        roots    |-> [nv \in DOMAIN g.roots |-> pkg[g.roots[nv]]],
        packages |-> Collect(g, pkg,
                        FoldLeft(add, <<>>, SetToSortSeq(DOMAIN g.roots, NvBefore)),
                        <<>>, [id \in DOMAIN before.packages |-> before.packages[id].copy])]

-----------------------------------------------------------------------------
(* A batch of requirements                                                 *)

Init ==
    /\ case \in Cases
    /\ round = 1
    /\ phase = "idle"
    /\ graph = <<>>
    /\ snapshot = EmptySnapshot

\* add_package_req; a requirement is [name, req].
AddReq(g, r) ==
    LET n == ResolveNode(g, r.name, r.req)
        g1 == [n.g EXCEPT !.reqs = (r :> n.nv) @@ @, !.roots = (n.nv :> n.id) @@ @] IN
    IF Stopped(g) \/ r \in DOMAIN g.reqs THEN g
    ELSE IF n.id = 0 THEN n.g
    ELSE Queue(g1, RootPath(n.id, n.nv))

\* The requirements of the round become roots.
Begin ==
    /\ phase = "idle" /\ round <= Len(case.rounds)
    /\ graph' = FoldLeft(AddReq, FromSnapshot(snapshot), case.rounds[round])
    /\ phase' = "resolving"
    /\ UNCHANGED <<case, round, snapshot>>

\* One turn of resolve_pending's loop
ResolveOne ==
    /\ phase = "resolving" /\ ~Stopped(graph) /\ graph.pending # <<>>
    /\ Len(graph.paths) < MaxPaths
    /\ graph' = Analyze([graph EXCEPT !.pending = Tail(@)], Head(graph.pending))
    /\ UNCHANGED <<case, round, phase, snapshot>>

Finish ==
    /\ phase = "resolving" /\ ~Stopped(graph) /\ graph.pending = <<>>
    /\ snapshot' = IntoSnapshot(graph, snapshot)
    /\ phase' = "idle" /\ round' = round + 1 /\ graph' = <<>>
    /\ UNCHANGED case

\* The caller gets the error, or the thread dies; the snapshot stays as it was.
Abandon ==
    /\ phase = "resolving" /\ Stopped(graph)
    /\ phase' = IF graph.panic THEN "panicked" ELSE "failed"
    /\ graph' = <<>>
    /\ UNCHANGED <<case, round, snapshot>>

Next == Begin \/ ResolveOne \/ Finish \/ Abandon

Spec == Init /\ [][Next]_vars
-----------------------------------------------------------------------------
(* Properties                                                              *)

Packages == snapshot.packages

\* A snapshot holds what the registry has, and a package for every identifier in it:
\* they are looked up with unwrap().
TypeOK ==
    /\ round \in 1..(Len(case.rounds) + 1)
    /\ phase \in {"idle", "resolving", "failed", "panicked"}
    /\ {id.nv : id \in DOMAIN Packages} \subseteq DOMAIN Registry
    /\ Range(snapshot.roots) \subseteq DOMAIN Packages
    /\ \A id \in DOMAIN Packages : Range(Packages[id].deps) \subseteq DOMAIN Packages

\* Somebody wants this version as a peer.
WantedAsPeer(nv) == \E x \in DOMAIN Registry : \E p \in Registry[x].peers : Satisfies(p, nv)

\* Every dependency and every peer dependency that is not optional has a package, of
\* the right name and of a version that the requirement matches, through all the
\* nodes that are copied, shared between paths and renamed by their peers.  Only a
\* peer of a package that is itself somebody's peer can be lost: nodes are found by the
\* hash that an identifier had when it was set (graph.rs:162), so that two paths may
\* share a node after one of them gave it a child with peers, and the other sets this
\* child back to one without.
Satisfied ==
    \A id \in DOMAIN Packages : \A e \in Range(Entries(id.nv)) :
        LET deps == Packages[id].deps IN
        IF e.spec \in DOMAIN deps
        THEN Satisfies(e, deps[e.spec].nv) \/ Satisfies([e EXCEPT !.req = e.own], deps[e.spec].nv)
        ELSE \/ e.kind = "optional" \/ Satisfies(e, id.nv)
             \/ e.kind = "peer" /\ WantedAsPeer(id.nv)

Depends(a, b) ==
    LET more(ids) == ids \cup UNION {Range(Packages[x].deps) : x \in ids}
        reach[n \in 0..Cardinality(DOMAIN Packages)] ==
            IF n = 0 THEN {a} ELSE more(reach[n - 1])
    IN b \in reach[Cardinality(DOMAIN Packages)]

\* What peer dependencies are for: in one batch a package and its dependency get the
\* same version of a third package that one of them wants itself and the other as a
\* peer, unless they depend on each other in a circle.
PeersShared ==
    round = 2 => \A id \in DOMAIN Packages : \A d, f \in Range(Entries(id.nv)) :
        LET deps  == Packages[id].deps
            child == deps[d.spec]
            third == deps[f.spec].nv IN
        {d.spec, f.spec} \subseteq DOMAIN deps
        /\ d.kind = "dep" /\ f.kind # "optional" /\ ~Depends(child, id) =>
            \A e \in Range(Entries(child.nv)) :
                e.kind = "peer" /\ Satisfies(e, third)
                    /\ ~Satisfies(e, id.nv) /\ ~Satisfies(e, child.nv) =>
                        \E g \in Range(Entries(id.nv)) :
                            /\ g.spec \in DOMAIN deps /\ Satisfies(e, deps[g.spec].nv)
                            /\ Packages[child].deps[e.spec].nv = deps[g.spec].nv

\* Two copies of a version have different indexes, so different folders, also when
\* one of them came with an earlier snapshot.
CopiesApart ==
    \A a, b \in DOMAIN Packages :
        a.nv = b.nv /\ Packages[a].copy = Packages[b].copy => a = b

\* "recreated snapshot should be the same" (run_resolver_and_get_output): a snapshot
\* that the program made is one it can start from again.
Recreated ==
    phase = "idle" =>
        LET g == FromSnapshot(snapshot) IN ~g.error /\ IntoSnapshot(g, snapshot) = snapshot

\* "this should always be set": the node that a peer in an identifier stands for is
\* still there when the identifiers are made.
PeersSet ==
    phase = "resolving" /\ ~Stopped(graph) /\ graph.pending = <<>> =>
        \A id \in Range(graph.ids) : \A p \in Range(id.peers) : PeerNode(graph, p) # 0

\* All of a snapshot is there, and what is there fits.
Resolved == TypeOK /\ Satisfied

\* Peers are found for the whole of an identifier, and they are the ones of who wants it.
PeersAgree == PeersShared /\ PeersSet

\* A requirement of the batch, or of a package in its graph, that no version matches.
Unmatched(name, req) == Published(name) \cap req = {}
Hopeless ==
    \/ \E r \in Range(case.rounds[round]) : Unmatched(r.name, r.req)
    \/ \E id \in Range(graph.ids) : \E e \in Range(Entries(id.nv)) :
          e.kind # "optional" /\ Unmatched(e.name, e.own)

\* Every batch comes to its end, whatever circles the dependencies make: it never panics,
\* fails only when there is no version to be had, and the bound on its paths, each of
\* which is analysed once, is never met.
BatchesEnd ==
    /\ phase # "panicked"
    /\ phase = "resolving" => /\ Stopped(graph) => ~graph.panic /\ Hopeless
                              /\ Len(graph.paths) < MaxPaths

=============================================================================
