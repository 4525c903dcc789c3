---------------------------- MODULE NpmResolution ----------------------------
(***************************************************************************)
(* The snapshot of the npm resolution (npm/resolution/mod.rs) and the      *)
(* tasks that change it: add_package_reqs and set_package_reqs, and the    *)
(* installer of package.json (npm/installer.rs), whose requirements are    *)
(* pending until resolve_pending.  A task that resolves holds the permit   *)
(* of update_queue, works on a clone and writes it back; a requirement is  *)
(* made pending under the snapshot's lock alone.                           *)
(*                                                                         *)
(* A resolution adds its requirements to the clone, then what was pending, *)
(* then the dependencies of every package it has come to, and waits for    *)
(* package infos in between.  What NpmGraph shows is left out, the peers:  *)
(* a package is a name and a version, and is looked at once.  Of what      *)
(* NpmRegistry shows, only the packages in memory matter.                  *)
(***************************************************************************)
EXTENDS Naturals, Sequences, FiniteSets, SequencesExt, FiniteSetsExt, Functions

CONSTANTS
    Task,     \* tasks of the program
    Cases     \* what they are to do, see Init

VARIABLES
    case,      \* the case at hand; never changes
    snapshot,  \* NpmResolutionInner.snapshot
    queue,     \* update_queue; the head has the permit
    memory,    \* packages in the registry's mem_cache
    installed, \* has_installed
    lockfile,  \* [specifiers, packages]; nothing without a lockfile
    task       \* task[t]: where t is, and the resolution it is at

vars == <<case, snapshot, queue, memory, installed, lockfile, task>>

\* A case is [registry, jobs, locked, start, faults]: what versions depend on; what each
\* task does, [kind, reqs] with kind "add", "set" or "install"; whether there is a
\* lockfile and what is in it; whether requests may fail.  A requirement is [name, req],
\* with the set of versions it matches.
Registry == case.registry
Job(t) == case.jobs[t]

NamesOf(S) == {x.name : x \in S}
Before(x, y) == x.name < y.name \/ (x.name = y.name /\ Max(x.req) < Max(y.req))
First(x, S) == x \in S /\ \A y \in S : ~Before(y, x)

\* insert of a HashMap, and the union of two of which the first counts
With(f, x, y) == [z \in DOMAIN f \cup {x} |-> IF z = x THEN y ELSE f[z]]
Over(f, g) == [z \in DOMAIN f \cup DOMAIN g |-> IF z \in DOMAIN f THEN f[z] ELSE g[z]]

-----------------------------------------------------------------------------
(* Snapshots                                                               *)

Matches(nv, r) == nv[1] = r.name /\ nv[2] \in r.req

Empty == [reqs |-> <<>>, roots |-> {}, packages |-> <<>>, byName |-> {}, pending |-> <<>>]
UpToDate(s, reqs) == s.pending = <<>> /\ reqs \subseteq DOMAIN s.reqs

\* resolve_best_package_version_and_info; 0 if there is no such version.
Matching(r, S) == {nv[2] : nv \in {x \in S : Matches(x, r)}}
Best(r, known) ==
    LET used == Matching(r, known)
        all  == Matching(r, DOMAIN Registry) IN
    IF used # {} THEN Max(used) ELSE IF all # {} THEN Max(all) ELSE 0

\* resolve_pkg_from_pkg_req: a package, or an error.
Resolves(s, r) ==
    r \in DOMAIN s.reqs /\ s.reqs[r] \in s.roots /\ s.reqs[r] \in DOMAIN s.packages

\* resolve_package_from_package: a dependency of the referrer, the referrer itself, or
\* the best version there is of that name; 0 if there is none.
FromPackage(s, name, referrer) ==
    LET same == {nv[2] : nv \in {x \in s.byName : x[1] = name}} IN
    IF name \in DOMAIN s.packages[referrer] THEN s.packages[referrer][name]
    ELSE IF referrer[1] = name THEN referrer
    ELSE IF same # {} /\ <<name, Max(same)>> \in DOMAIN s.packages THEN <<name, Max(same)>>
    ELSE <<name, 0>>

-----------------------------------------------------------------------------
(* The lockfile                                                            *)

\* What a resolution writes: specifiers are replaced, packages that are there stay.
Locked(lock, s) ==
    [specifiers |-> Over(s.reqs, lock.specifiers), packages |-> Over(lock.packages, s.packages)]

\* from_lockfile: every package that is named must be there.
NamedIn(lock) ==
    Range(lock.specifiers) \cup UNION {Range(deps) : deps \in Range(lock.packages)}
Corrupt(lock) == ~(NamedIn(lock) \subseteq DOMAIN lock.packages)
FromLockfile(lock) ==
    [reqs |-> lock.specifiers, roots |-> Range(lock.specifiers), packages |-> lock.packages,
     byName |-> DOMAIN lock.packages, pending |-> <<>>]

\* What cases are like: a package depends on a name once, and a lockfile is of the registry:
\* its specifiers and dependencies lead to versions that match.
CaseOK(k) ==
    LET versions == DOMAIN k.registry
        packages == k.start.packages
        specifiers == k.start.specifiers IN
    /\ IsFiniteSet(versions)
    /\ \A nv \in versions : nv = <<nv[1], nv[2]>> /\ nv[2] \in Nat \ {0}
    /\ \A nv \in versions : \A d, e \in k.registry[nv] : d.name = e.name => d = e
    /\ ~Corrupt(k.start) /\ DOMAIN packages \subseteq versions
    /\ \A r \in DOMAIN specifiers : Matches(specifiers[r], r)
    /\ \A nv \in DOMAIN packages : \A d \in k.registry[nv] :
          IF d.name \in DOMAIN packages[nv] THEN Matches(packages[nv][d.name], d) ELSE Matches(nv, d)

\* The specifiers are looked up with unwrap().
CanLock(s) == Range(s.reqs) \subseteq s.roots

-----------------------------------------------------------------------------
\* A task: packages whose info is to be loaded, requirements and pending packages that are
\* to be added, packages whose dependencies are to be, the one at hand with those of its
\* dependencies that are left, and the clone.
Idle == [pc |-> "start", todo |-> {}, reqs |-> {}, left |-> <<>>, nodes |-> <<>>,
         at |-> <<>>, deps |-> {}, local |-> Empty]

Init ==
    /\ case \in Cases
    /\ lockfile = case.start
    /\ snapshot = IF case.locked THEN FromLockfile(case.start) ELSE Empty
    /\ queue = <<>> /\ memory = {} /\ installed = FALSE
    /\ task = [t \in Task |-> Idle]

At(t, pc) == task[t].pc = pc
Becomes(t, w) == task' = [task EXCEPT ![t] = w]
Goes(t, pc) == Becomes(t, [task[t] EXCEPT !.pc = pc])
Ends(t, pc) == Becomes(t, [Idle EXCEPT !.pc = pc])

AnyPermit(t) == t \in ToSet(queue)   \* mutant: no queue
HasPermit(t) == Head(queue) = t
ReleaseNever(t) == queue' = queue   \* mutant: a failed task keeps the permit
Release(t) == queue' = IF queue # <<>> /\ HasPermit(t) THEN Tail(queue) ELSE queue

\* NpmPackageResolver::add_package_reqs does nothing without requirements.
Start(t) ==
    /\ At(t, "start")
    /\ \/ /\ Job(t).kind = "add" /\ Job(t).reqs = {}
          /\ Ends(t, "done") /\ UNCHANGED <<queue, installed>>
       \/ /\ Job(t).kind = "set" \/ (Job(t).kind = "add" /\ Job(t).reqs # {})
          /\ Goes(t, "queued") /\ queue' = Append(queue, t) /\ UNCHANGED installed
       \/ /\ Job(t).kind = "install" /\ ~installed /\ installed' = TRUE
          /\ Becomes(t, [Idle EXCEPT !.pc = "installing", !.todo = NamesOf(Job(t).reqs),
                                     !.reqs = Job(t).reqs])
          /\ UNCHANGED queue
       \/ /\ Job(t).kind = "install" /\ installed
          /\ Goes(t, "installed") /\ UNCHANGED <<queue, installed>>
    /\ UNCHANGED <<case, snapshot, memory, lockfile>>

\* The info of one package is loaded.
Loading == {"installing", "caching", "resolved"}
Cache(t) ==
    /\ task[t].pc \in Loading
    /\ \E n \in task[t].todo :
          /\ memory' = memory \cup {n}
          /\ Becomes(t, [task[t] EXCEPT !.todo = @ \ {n}])
    /\ UNCHANGED <<case, snapshot, queue, installed, lockfile>>

\* A request fails.  The memory is cleared even if it was for the new snapshot.
RequestFails(t) ==
    /\ case.faults /\ task[t].pc \in Loading /\ task[t].todo # {}
    /\ memory' = IF At(t, "resolved") THEN {} ELSE memory
    /\ Ends(t, "failed") /\ Release(t)
    /\ UNCHANGED <<case, snapshot, installed, lockfile>>

\* resolve_package_req_as_pending for the next requirement of package.json
AsPending(t) ==
    /\ At(t, "installing") /\ task[t].todo = {}
    /\ \E r \in task[t].reqs :
          LET nv == <<r.name, Best(r, {x \in snapshot.byName : x[1] = r.name})>> IN
          /\ First(r, task[t].reqs)
          /\ IF r.name \notin memory THEN Ends(t, "panicked") /\ UNCHANGED snapshot
             ELSE IF nv[2] = 0 THEN Ends(t, "failed") /\ UNCHANGED snapshot
             ELSE /\ snapshot' = [snapshot EXCEPT !.reqs = With(@, r, nv),
                                                  !.byName = @ \cup {nv},
                                                  !.pending = Append(@, nv)]
                  /\ Becomes(t, [task[t] EXCEPT !.reqs = @ \ {r}])
    /\ UNCHANGED <<case, queue, memory, installed, lockfile>>

\* ensure_top_level_install has returned; resolve_pending follows.
Installed(t) ==
    /\ \/ At(t, "installing") /\ task[t].todo = {} /\ task[t].reqs = {}
          /\ Goes(t, "installed") /\ UNCHANGED queue
       \/ At(t, "installed") /\ Goes(t, "queued") /\ queue' = Append(queue, t)
    /\ UNCHANGED <<case, snapshot, memory, installed, lockfile>>

Reqs(t) == IF Job(t).kind = "install" THEN {} ELSE Job(t).reqs

\* With the permit: the snapshot is cloned, or thrown away if set_package_reqs removes
\* something.  A clone that is not up to date becomes a graph.
Clone(t) ==
    LET removed == Job(t).kind = "set" /\ ~(DOMAIN snapshot.reqs \subseteq Job(t).reqs)
        s == IF removed THEN Empty ELSE snapshot
        new == Reqs(t) \ DOMAIN s.reqs IN
    /\ At(t, "queued") /\ HasPermit(t)
    /\ IF UpToDate(s, Reqs(t))
       THEN Becomes(t, [Idle EXCEPT !.pc = "write", !.local = s])
       ELSE Becomes(t, [Idle EXCEPT !.pc = "caching",
                                    !.todo = (NamesOf(new) \cup {nv[1] : nv \in ToSet(s.pending) \ s.roots})
                                             \ memory,
                                    !.reqs = new, !.left = s.pending,
                                    !.local = [s EXCEPT !.pending = <<>>]])
    /\ UNCHANGED <<case, snapshot, queue, memory, installed, lockfile>>

-----------------------------------------------------------------------------
(* The resolution: the packages of the graph, and those to look at         *)

Known(w) == DOMAIN w.local.packages \cup ToSet(w.nodes)
Chosen(w, r) == <<r.name, Best(r, Known(w))>>
Reach(w, nv) == IF nv \in Known(w) THEN w.nodes ELSE Append(w.nodes, nv)

Resolving(t) ==
    /\ At(t, "caching") /\ task[t].todo = {}
    /\ UNCHANGED <<case, snapshot, memory, installed, lockfile>>

Fails(t) == Ends(t, "failed") /\ Release(t)

\* add_package_req
AddReq(t) ==
    LET w == task[t] IN
    /\ Resolving(t)
    /\ \E r \in w.reqs :
          LET nv == Chosen(w, r)
              local == [w.local EXCEPT !.reqs = With(@, r, nv), !.roots = @ \cup {nv}] IN
          /\ First(r, w.reqs)
          /\ \/ nv[2] = 0 /\ Fails(t)
             \/ /\ nv[2] # 0 /\ UNCHANGED queue
                /\ Becomes(t, [w EXCEPT !.reqs = @ \ {r}, !.nodes = Reach(w, nv), !.local = local])

\* add_root_package for what was pending, a version that is there; nothing happens if it is
\* a root by now.
AddPending(t) ==
    LET w == task[t]
        nv == Head(w.left)
        local == [w.local EXCEPT !.roots = @ \cup {nv}] IN
    /\ Resolving(t) /\ w.reqs = {} /\ w.left # <<>>
    /\ \/ nv \in w.local.roots /\ Becomes(t, [w EXCEPT !.left = Tail(@)])
       \/ /\ nv \notin w.local.roots
          /\ Becomes(t, [w EXCEPT !.left = Tail(@), !.nodes = Reach(w, nv), !.local = local])
    /\ UNCHANGED queue

\* The next package of pending_unresolved_nodes: its dependencies' infos are loaded.
NextPackage(t) ==
    LET w == task[t]
        nv == Head(w.nodes)
        local == [w.local EXCEPT !.packages = With(@, nv, <<>>)] IN
    /\ Resolving(t) /\ w.reqs = {} /\ w.left = <<>> /\ w.deps = {} /\ w.nodes # <<>>
    /\ Becomes(t, [w EXCEPT !.nodes = Tail(@), !.at = nv, !.deps = Registry[nv],
                            !.todo = NamesOf(Registry[nv]) \ memory, !.local = local])
    /\ UNCHANGED queue

\* analyze_dependency: one that resolves to the package itself is no child of it.
AddDep(t) ==
    LET w == task[t] IN
    /\ Resolving(t)
    /\ \E d \in w.deps :
          LET nv == Chosen(w, d)
              children == IF nv = w.at THEN w.local.packages[w.at]
                          ELSE With(w.local.packages[w.at], d.name, nv)
              local == [w.local EXCEPT !.packages = With(@, w.at, children)] IN
          /\ First(d, w.deps)
          /\ \/ nv[2] = 0 /\ Fails(t)
             \/ /\ nv[2] # 0 /\ UNCHANGED queue
                /\ Becomes(t, [w EXCEPT !.deps = @ \ {d}, !.nodes = Reach(w, nv), !.local = local])

\* into_snapshot, which needs the info of every package
IntoSnapshot(t) ==
    LET w == task[t]
        packages == DOMAIN w.local.packages IN
    /\ Resolving(t) /\ w.reqs = {} /\ w.left = <<>> /\ w.deps = {} /\ w.nodes = <<>>
    /\ Becomes(t, [Idle EXCEPT !.pc = "resolved", !.todo = {nv[1] : nv \in packages} \ memory,
                               !.local = [w.local EXCEPT !.byName = packages]])
    /\ UNCHANGED queue

\* The memory is cleared, the lockfile gets the result.
Clear(t) ==
    /\ At(t, "resolved") /\ task[t].todo = {}
    /\ memory' = {}
    /\ IF case.locked /\ ~CanLock(task[t].local)
       THEN Ends(t, "panicked") /\ Release(t) /\ UNCHANGED lockfile
       ELSE /\ Goes(t, "write") /\ UNCHANGED queue
            /\ lockfile' = IF case.locked THEN Locked(lockfile, task[t].local) ELSE lockfile
    /\ UNCHANGED <<case, snapshot, installed>>

WriteBack(t) ==
    /\ At(t, "write")
    /\ snapshot' = task[t].local
    /\ Release(t)
    /\ Ends(t, IF Job(t).kind = "add" /\ case.locked THEN "lock" ELSE "done")
    /\ UNCHANGED <<case, memory, installed, lockfile>>

\* lock, at the end of NpmPackageResolver::add_package_reqs
Lock(t) ==
    /\ At(t, "lock")
    /\ IF CanLock(snapshot) THEN Ends(t, "done") /\ lockfile' = Locked(lockfile, snapshot)
       ELSE Ends(t, "panicked") /\ UNCHANGED lockfile
    /\ UNCHANGED <<case, snapshot, queue, memory, installed>>

Resolve(t) == AddReq(t) \/ AddPending(t) \/ NextPackage(t) \/ AddDep(t) \/ IntoSnapshot(t)

Step(t) ==
    \/ Start(t) \/ Cache(t) \/ AsPending(t) \/ Installed(t) \/ Clone(t) \/ RequestFails(t)
    \/ Resolve(t) \/ Clear(t) \/ WriteBack(t) \/ Lock(t)

Next == \E t \in Task : Step(t)

Spec == Init /\ [][Next]_vars
-----------------------------------------------------------------------------
(* Properties                                                              *)

Ended(t) == task[t].pc \in {"done", "failed", "panicked"}

\* A snapshot is whole, whoever reads it: requirements lead to a version they match that
\* is a root or pending, roots and dependencies to packages, and what a package may
\* require resolves to a version that it asked for.
SnapshotWhole ==
    /\ \A r \in DOMAIN snapshot.reqs :
          LET nv == snapshot.reqs[r] IN
          /\ Matches(nv, r)
          /\ nv \in snapshot.roots \cup ToSet(snapshot.pending)
    /\ snapshot.roots \subseteq DOMAIN snapshot.packages
    /\ \A nv \in DOMAIN snapshot.packages : \A d \in Registry[nv] :
          LET to == FromPackage(snapshot, d.name, nv) IN
          to \in DOMAIN snapshot.packages /\ to[2] \in d.req

OnlyAdds == \A t \in Task : Job(t).kind = "add"

\* "Adds package requirements to the resolver and ensures everything is setup": when
\* add_package_reqs has returned, the requirements resolve, whatever other tasks add.
AddedResolve ==
    OnlyAdds => \A t \in Task : At(t, "done") => \A r \in Job(t).reqs : Resolves(snapshot, r)

\* The program can start from the lockfile it writes, and without an installer it never
\* panics while it writes it.
LockfileLoads ==
    /\ ~Corrupt(lockfile)
    /\ (\A t \in Task : Job(t).kind # "install") => \A t \in Task : ~At(t, "panicked")

\* The permit is with a task that goes on, so that every task gets its turn: one that
\* fails or panics passes it on.
PermitPassedOn ==
    /\ queue # <<>> => task[Head(queue)].pc \in {"queued", "caching", "resolved", "write"}
    /\ \A t \in Task : At(t, "queued") => t \in ToSet(queue)
=============================================================================
