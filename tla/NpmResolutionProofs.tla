------------------------- MODULE NpmResolutionProofs -------------------------
(***************************************************************************)
(* Proofs about NpmResolution, for any tasks, registries and lockfiles.    *)
(*                                                                         *)
(* PermitInv: those who wait are the tasks that ask for the permit, once   *)
(* each, and only the first has gone on.                                   *)
(*                                                                         *)
(* SnapshotInv: the snapshot is whole, and so is what a resolution will    *)
(* write back.  Until then its clone is only Growing: what it leads to may *)
(* be in the queue, and the package at hand has dependencies left.         *)
(***************************************************************************)
EXTENDS NpmResolution, FiniteSetTheorems, NaturalsInduction, WellFoundedInduction, TLAPS

-----------------------------------------------------------------------------
(* The permit                                                              *)

\* A task has the fields of one, and a snapshot those of a snapshot.
TaskFields == {"pc", "todo", "reqs", "left", "nodes", "at", "deps", "local"}
IsTask(w) == w = [x \in TaskFields |-> w[x]]
SnapshotFields == {"reqs", "roots", "packages", "byName", "pending"}
IsSnapshot(s) == s = [x \in SnapshotFields |-> s[x]]
Fields == task = [t \in Task |-> task[t]] /\ \A t \in Task : IsTask(task[t])

\* Those who wait for the permit or have it are in the queue, once; who is past waiting has it.
Asking == {"queued", "caching", "resolved", "write"}
Queued ==
    /\ queue \in Seq(Task)
    /\ \A i, j \in DOMAIN queue : queue[i] = queue[j] => i = j
    /\ \A t \in Task : task[t].pc \in Asking <=> \E i \in DOMAIN queue : queue[i] = t
    /\ \A t \in Task : task[t].pc \in Asking /\ task[t].pc # "queued" => queue # <<>> /\ Head(queue) = t

PermitInv == Fields /\ Queued

\* The first task and the first snapshot are such.
LEMMA IdleTask == /\ IsTask(Idle) /\ Idle.pc = "start" /\ IsSnapshot(Empty)
                  /\ Idle.nodes = <<>> /\ Idle.deps = {} /\ Idle.local = Empty
  BY DEF IsTask, Idle, TaskFields, IsSnapshot, Empty, SnapshotFields

\* At first no task waits.
LEMMA PermitInit == Init => PermitInv
  <1> SUFFICES ASSUME Init PROVE PermitInv
    OBVIOUS
  <1>1. queue = <<>> /\ task = [t \in Task |-> Idle]
    BY DEF Init
  <1>2. Fields
    BY <1>1, IdleTask DEF Fields
  <1>3. \A t \in Task : task[t].pc = "start"
    BY <1>1 DEF Idle
  <1>4. queue \in Seq(Task) /\ DOMAIN queue = {}
    BY <1>1
  <1> QED BY <1>2, <1>3, <1>4 DEF PermitInv, Queued, Asking

\* Of all tasks t alone goes on, to pc.
Moves(t, to) ==
    /\ Fields' /\ task'[t].pc = to
    /\ \A u \in Task \ {t} : task'[u] = task[u]

\* What the steps make of their task.
LEMMA Changes ==
  ASSUME Fields, NEW t \in Task
  PROVE  /\ \A w : IsTask(w) /\ Becomes(t, w) => Moves(t, w.pc) /\ task'[t] = w
         /\ \A to : Goes(t, to) => Moves(t, to) /\ task'[t] = [task[t] EXCEPT !.pc = to]
         /\ \A to : Ends(t, to) => Moves(t, to) /\ task'[t] = [Idle EXCEPT !.pc = to]
  <1>1. ASSUME NEW w, IsTask(w), Becomes(t, w) PROVE Moves(t, w.pc) /\ task'[t] = w
    <2>1. task' = [u \in Task |-> IF u = t THEN w ELSE task[u]]
      BY <1>1 DEF Becomes, Fields
    <2>2. Fields'
      BY <1>1, <2>1 DEF Fields
    <2> QED BY <2>1, <2>2 DEF Moves
  <1>2. ASSUME NEW to, Goes(t, to) PROVE Moves(t, to) /\ task'[t] = [task[t] EXCEPT !.pc = to]
    <2> DEFINE w == [task[t] EXCEPT !.pc = to]
    <2>1. IsTask(w) /\ w.pc = to
      BY DEF Fields, IsTask, TaskFields
    <2>2. Becomes(t, w)
      BY <1>2 DEF Goes
    <2> QED BY <1>1, <2>1, <2>2
  <1>3. ASSUME NEW to, Ends(t, to) PROVE Moves(t, to) /\ task'[t] = [Idle EXCEPT !.pc = to]
    <2> DEFINE w == [Idle EXCEPT !.pc = to]
    <2>1. IsTask(w) /\ w.pc = to
      BY IdleTask DEF IsTask, TaskFields
    <2>2. Becomes(t, w)
      BY <1>3 DEF Ends
    <2> QED BY <1>1, <2>1, <2>2
  <1> QED BY <1>1, <1>2, <1>3

\* One task goes on, and does not begin to wait or give the permit up.
LEMMA SameQueue ==
  ASSUME PermitInv, NEW t \in Task, NEW to, Moves(t, to),
         queue' = queue, task[t].pc \in Asking <=> to \in Asking,
         to \in Asking /\ to # "queued" => queue # <<>> /\ Head(queue) = t
  PROVE  PermitInv'
  <1>1. \A u \in Task : task'[u].pc = IF u = t THEN to ELSE task[u].pc
    BY DEF Moves
  <1>2. Fields'
    BY DEF Moves
  <1>3. Queued'
    BY <1>1 DEF PermitInv, Queued
  <1> QED BY <1>2, <1>3 DEF PermitInv

\* It begins to wait.
LEMMA QueueUp ==
  ASSUME PermitInv, NEW t \in Task, NEW to, Moves(t, to),
         queue' = Append(queue, t), task[t].pc \notin Asking, to = "queued"
  PROVE  PermitInv'
  <1>1. \A u \in Task : task'[u].pc = IF u = t THEN to ELSE task[u].pc
    BY DEF Moves
  <1>2. Fields'
    BY DEF Moves
  <1> DEFINE n == Len(queue)
  <1>3. /\ queue \in Seq(Task) /\ n \in Nat /\ DOMAIN queue = 1..n
        /\ queue' \in Seq(Task) /\ DOMAIN queue' = 1..(n + 1)
        /\ queue'[n + 1] = t /\ \A i \in 1..n : queue'[i] = queue[i]
        /\ queue # <<>> => queue' # <<>> /\ Head(queue') = Head(queue)
    BY DEF PermitInv, Queued
  <1>4. \A i \in 1..n : queue[i] # t
    BY <1>3 DEF PermitInv, Queued
  <1> HIDE DEF n
  <1>5. \A i \in 1..(n + 1) : i \in 1..n \/ i = n + 1
    BY <1>3
  <1>6. \A i, j \in DOMAIN queue' : queue'[i] = queue'[j] => i = j
    BY <1>3, <1>4, <1>5 DEF PermitInv, Queued
  <1>7. ASSUME NEW u \in Task PROVE task'[u].pc \in Asking <=> \E i \in DOMAIN queue' : queue'[i] = u
    <2>1. n + 1 \in DOMAIN queue' /\ \A i \in 1..n : i \in DOMAIN queue'
      BY <1>3
    <2>2. CASE u = t
      BY <1>1, <1>3, <2>1, <2>2 DEF Asking
    <2>3. CASE u # t
      <3>1. task[u].pc \in Asking <=> \E i \in 1..n : queue[i] = u
        BY <1>3 DEF PermitInv, Queued
      <3> QED BY <1>1, <1>3, <1>5, <2>1, <2>3, <3>1
    <2> QED BY <2>2, <2>3
  <1>8. Queued'
    BY <1>1, <1>3, <1>6, <1>7 DEF PermitInv, Queued
  <1> QED BY <1>2, <1>8 DEF PermitInv

\* It gives up the permit if it has it.
LEMMA PassOn ==
  ASSUME PermitInv, NEW t \in Task, NEW to, Moves(t, to),
         Release(t), task[t].pc # "queued", to \notin Asking
  PROVE  PermitInv'
  <1>1. \A u \in Task : task'[u].pc = IF u = t THEN to ELSE task[u].pc
    BY DEF Moves
  <1>2. Fields'
    BY DEF Moves
  <1>3. CASE queue # <<>> /\ Head(queue) = t
    <2> DEFINE n == Len(queue)
    <2>1. /\ queue \in Seq(Task) /\ n \in Nat /\ n >= 1 /\ DOMAIN queue = 1..n /\ queue[1] = t
          /\ queue' \in Seq(Task) /\ DOMAIN queue' = 1..(n - 1)
          /\ \A i \in 1..(n - 1) : queue'[i] = queue[i + 1]
      BY <1>3 DEF PermitInv, Queued, Release, HasPermit
    <2> HIDE DEF n
    <2>2. \A i \in 1..(n - 1) : i + 1 \in 1..n /\ i \in Nat
      BY <2>1
    <2>3. \A i, j \in DOMAIN queue' : queue'[i] = queue'[j] => i = j
      <3> SUFFICES ASSUME NEW i \in 1..(n - 1), NEW j \in 1..(n - 1), queue'[i] = queue'[j] PROVE i = j
        BY <2>1
      <3>1. queue[i + 1] = queue[j + 1] /\ i + 1 \in 1..n /\ j + 1 \in 1..n
        BY <2>1, <2>2
      <3>2. \A k, l \in 1..n : queue[k] = queue[l] => k = l
        BY <2>1 DEF PermitInv, Queued
      <3>3. i + 1 = j + 1
        BY <3>1, <3>2
      <3> QED BY <2>2, <3>3
    <2>4. ASSUME NEW u \in Task PROVE task'[u].pc \in Asking <=> \E i \in DOMAIN queue' : queue'[i] = u
      <3>1. CASE u = t
        <4>1. \A i \in 1..(n - 1) : queue'[i] # t
          <5> SUFFICES ASSUME NEW i \in 1..(n - 1), queue'[i] = t PROVE FALSE
            OBVIOUS
          <5>1. i + 1 = 1
            BY <2>1, <2>2 DEF PermitInv, Queued
          <5> QED BY <2>1, <5>1
        <4> QED BY <1>1, <2>1, <3>1, <4>1
      <3>2. CASE u # t
        <4>1. task[u].pc \in Asking <=> \E i \in 1..n : queue[i] = u
          BY <2>1 DEF PermitInv, Queued
        <4>2. \A i \in 1..n : queue[i] = u => i - 1 \in 1..(n - 1) /\ queue'[i - 1] = queue[i]
          <5> SUFFICES ASSUME NEW i \in 1..n, queue[i] = u PROVE i - 1 \in 1..(n - 1) /\ queue'[i - 1] = queue[i]
            OBVIOUS
          <5>1. i # 1
            BY <2>1, <3>2
          <5>2. i - 1 \in 1..(n - 1) /\ (i - 1) + 1 = i
            BY <2>1, <5>1
          <5> QED BY <2>1, <5>2
        <4>3. (\E i \in 1..n : queue[i] = u) <=> \E i \in 1..(n - 1) : queue'[i] = u
          <5>1. ASSUME NEW i \in 1..n, queue[i] = u PROVE \E k \in 1..(n - 1) : queue'[k] = u
            BY <4>2, <5>1
          <5>2. ASSUME NEW i \in 1..(n - 1), queue'[i] = u PROVE \E k \in 1..n : queue[k] = u
            BY <2>1, <2>2, <5>2
          <5> QED BY <5>1, <5>2
        <4> QED BY <1>1, <2>1, <3>2, <4>1, <4>3
      <3> QED BY <3>1, <3>2
    <2>5. \A u \in Task : u # t => task[u].pc \notin Asking \/ task[u].pc = "queued"
      BY <1>3 DEF PermitInv, Queued
    <2>6. Queued'
      BY <1>1, <2>1, <2>3, <2>4, <2>5 DEF Queued
    <2> QED BY <1>2, <2>6 DEF PermitInv
  <1>4. CASE ~(queue # <<>> /\ Head(queue) = t)
    <2>1. queue' = queue
      BY <1>4 DEF Release, HasPermit
    <2>2. task[t].pc \notin Asking
      BY <1>4 DEF PermitInv, Queued
    <2> QED BY <2>1, <2>2, SameQueue
  <1> QED BY <1>3, <1>4

\* A task that takes its clone, and what it may become while it resolves
LEMMA CloneMoves ==
  ASSUME Fields, NEW t \in Task, Clone(t)
  PROVE  LET removed == Job(t).kind = "set" /\ ~(DOMAIN snapshot.reqs \subseteq Job(t).reqs)
             s == IF removed THEN Empty ELSE snapshot
             new == Reqs(t) \ DOMAIN s.reqs
             v == task'[t] IN
         /\ task[t].pc = "queued" /\ Head(queue) = t
         /\ UNCHANGED <<case, snapshot, queue, memory, installed, lockfile>>
         /\ \/ Moves(t, "write") /\ UpToDate(s, Reqs(t)) /\ v.local = s
            \/ /\ Moves(t, "caching") /\ v.reqs = new /\ v.left = s.pending /\ v.nodes = <<>> /\ v.deps = {}
               /\ v.local = [s EXCEPT !.pending = <<>>]
  <1> DEFINE removed == Job(t).kind = "set" /\ ~(DOMAIN snapshot.reqs \subseteq Job(t).reqs)
             s == IF removed THEN Empty ELSE snapshot
             new == Reqs(t) \ DOMAIN s.reqs
             names == (NamesOf(new) \cup {nv[1] : nv \in ToSet(s.pending) \ s.roots}) \ memory
             written == [Idle EXCEPT !.pc = "write", !.local = s]
             graph == [Idle EXCEPT !.pc = "caching", !.todo = names, !.reqs = new, !.left = s.pending,
                                   !.local = [s EXCEPT !.pending = <<>>]]
  <1>1. /\ At(t, "queued") /\ HasPermit(t)
        /\ UNCHANGED <<case, snapshot, queue, memory, installed, lockfile>>
        /\ IF UpToDate(s, Reqs(t)) THEN Becomes(t, written) ELSE Becomes(t, graph)
    BY DEF Clone
  <1>2. IsTask(written) /\ written.pc = "write" /\ written.local = s
    <2> HIDE DEF s
    <2> QED BY IdleTask DEF IsTask, TaskFields
  <1>3. /\ IsTask(graph) /\ graph.pc = "caching" /\ graph.reqs = new /\ graph.left = s.pending
        /\ graph.nodes = <<>> /\ graph.deps = {} /\ graph.local = [s EXCEPT !.pending = <<>>]
    <2> DEFINE local == [s EXCEPT !.pending = <<>>]
    <2> HIDE DEF s, new, names, local
    <2> QED BY IdleTask DEF IsTask, TaskFields
  <1> HIDE DEF s, new, written, graph
  <1>4. \/ UpToDate(s, Reqs(t)) /\ Moves(t, "write") /\ task'[t] = written
        \/ Moves(t, "caching") /\ task'[t] = graph
    BY <1>1, <1>2, <1>3, Changes
  <1>5. \/ UpToDate(s, Reqs(t)) /\ Moves(t, "write") /\ task'[t].local = s
        \/ /\ Moves(t, "caching") /\ task'[t].reqs = new /\ task'[t].left = s.pending
           /\ task'[t].nodes = <<>> /\ task'[t].deps = {} /\ task'[t].local = [s EXCEPT !.pending = <<>>]
    BY <1>2, <1>3, <1>4
  <1> QED BY <1>1, <1>5 DEF At, HasPermit, s, new

\* What the steps of a resolution make of their task: v is what becomes of w.
AddsReq(w, v, r, nv) ==
    /\ v.reqs = w.reqs \ {r} /\ v.nodes = Reach(w, nv)
    /\ v.left = w.left /\ v.at = w.at /\ v.deps = w.deps
    /\ v.local = [w.local EXCEPT !.reqs = With(@, r, nv), !.roots = @ \cup {nv}]
AddsPending(w, v) ==
    LET nv == Head(w.left) IN
    /\ w.left # <<>> /\ v.left = Tail(w.left) /\ v.reqs = w.reqs /\ v.at = w.at /\ v.deps = w.deps
    /\ \/ nv \in w.local.roots /\ v.nodes = w.nodes /\ v.local = w.local
       \/ v.nodes = Reach(w, nv) /\ v.local = [w.local EXCEPT !.roots = @ \cup {nv}]
LooksAt(k, w, v) ==
    /\ w.left = <<>> /\ w.deps = {} /\ w.nodes # <<>>
    /\ v.reqs = w.reqs /\ v.left = <<>> /\ v.nodes = Tail(w.nodes)
    /\ v.at = Head(w.nodes) /\ v.deps = k.registry[v.at]
    /\ v.local = [w.local EXCEPT !.packages = With(@, v.at, <<>>)]
AddsDep(w, v, d, nv) ==
    LET own == w.local.packages[w.at]
        children == IF nv = w.at THEN own ELSE With(own, d.name, nv) IN
    /\ v.reqs = w.reqs /\ v.left = w.left /\ v.nodes = Reach(w, nv)
    /\ v.at = w.at /\ v.deps = w.deps \ {d}
    /\ v.local = [w.local EXCEPT !.packages = With(@, w.at, children)]
MakesSnapshot(w, s) ==
    /\ w.reqs = {} /\ w.left = <<>> /\ w.deps = {} /\ w.nodes = <<>>
    /\ s = [w.local EXCEPT !.byName = DOMAIN w.local.packages]

LEMMA AddReqMoves ==
  ASSUME Fields, NEW t \in Task, AddReq(t), ~Fails(t)
  PROVE  /\ UNCHANGED queue /\ Moves(t, "caching")
         /\ \E r \in task[t].reqs :
               /\ Chosen(task[t], r)[2] # 0
               /\ AddsReq(task[t], task'[t], r, Chosen(task[t], r))
  <1> DEFINE w == task[t]
             local(r) == [w.local EXCEPT !.reqs = With(@, r, Chosen(w, r)), !.roots = @ \cup {Chosen(w, r)}]
             graph(r) == [w EXCEPT !.reqs = @ \ {r}, !.nodes = Reach(w, Chosen(w, r)), !.local = local(r)]
  <1>1. Resolving(t) /\ \E r \in w.reqs : Chosen(w, r)[2] # 0 /\ UNCHANGED queue /\ Becomes(t, graph(r))
    BY Zenon DEF AddReq
  <1>2. PICK r \in w.reqs : Chosen(w, r)[2] # 0 /\ UNCHANGED queue /\ Becomes(t, graph(r))
    BY <1>1, Zenon
  <1>3. w.pc = "caching" /\ IsTask(w)
    BY <1>1 DEF Fields, Resolving, At
  <1> DEFINE new == local(r)
             nodes == Reach(w, Chosen(w, r))
             v == [w EXCEPT !.reqs = @ \ {r}, !.nodes = nodes, !.local = new]
  <1>4. Becomes(t, v)
    BY <1>2, Zenon
  <1> HIDE DEF w, new, nodes
  <1>5. /\ IsTask(v) /\ v.pc = "caching" /\ v.reqs = w.reqs \ {r} /\ v.nodes = nodes
        /\ v.left = w.left /\ v.at = w.at /\ v.deps = w.deps /\ v.local = new
    BY <1>3 DEF IsTask, TaskFields
  <1> HIDE DEF v
  <1>6. Moves(t, "caching") /\ task'[t] = v
    BY <1>4, <1>5, Changes
  <1>7. AddsReq(w, v, r, Chosen(w, r))
    BY <1>5, Zenon DEF AddsReq, new, nodes
  <1> QED BY <1>2, <1>6, <1>7, Zenon DEF w

LEMMA AddPendingMoves ==
  ASSUME Fields, NEW t \in Task, AddPending(t)
  PROVE  UNCHANGED queue /\ Moves(t, "caching") /\ AddsPending(task[t], task'[t])
  <1> DEFINE w == task[t]
             nv == Head(w.left)
             local == [w.local EXCEPT !.roots = @ \cup {nv}]
             nodes == Reach(w, nv)
             old == [w EXCEPT !.left = Tail(@)]
             graph == [w EXCEPT !.left = Tail(@), !.nodes = nodes, !.local = local]
  <1>1. /\ Resolving(t) /\ w.reqs = {} /\ w.left # <<>> /\ UNCHANGED queue
        /\ (nv \in w.local.roots /\ Becomes(t, old)) \/ Becomes(t, graph)
    BY Zenon DEF AddPending
  <1>2. w.pc = "caching" /\ IsTask(w)
    BY <1>1 DEF Fields, Resolving, At
  <1> HIDE DEF w, local, nodes
  <1>3. /\ IsTask(old) /\ old.pc = "caching" /\ old.reqs = w.reqs /\ old.left = Tail(w.left)
        /\ old.at = w.at /\ old.deps = w.deps /\ old.nodes = w.nodes /\ old.local = w.local
    BY <1>2 DEF IsTask, TaskFields
  <1>4. /\ IsTask(graph) /\ graph.pc = "caching" /\ graph.reqs = w.reqs /\ graph.left = Tail(w.left)
        /\ graph.at = w.at /\ graph.deps = w.deps /\ graph.nodes = nodes /\ graph.local = local
    BY <1>2 DEF IsTask, TaskFields
  <1> HIDE DEF old, graph
  <1>5. Moves(t, "caching") /\ ((nv \in w.local.roots /\ task'[t] = old) \/ task'[t] = graph)
    BY <1>1, <1>3, <1>4, Changes
  <1> QED BY <1>1, <1>3, <1>4, <1>5, Zenon DEF AddsPending, w, local, nodes

LEMMA NextPackageMoves ==
  ASSUME Fields, NEW t \in Task, NextPackage(t)
  PROVE  UNCHANGED queue /\ Moves(t, "caching") /\ LooksAt(case, task[t], task'[t])
  <1> DEFINE w == task[t]
             nv == Head(w.nodes)
             local == [w.local EXCEPT !.packages = With(@, nv, <<>>)]
             deps == Registry[nv]
             names == NamesOf(Registry[nv]) \ memory
             v == [w EXCEPT !.nodes = Tail(@), !.at = nv, !.deps = deps, !.todo = names, !.local = local]
  <1>1. /\ Resolving(t) /\ w.reqs = {} /\ w.left = <<>> /\ w.deps = {} /\ w.nodes # <<>>
        /\ UNCHANGED queue /\ Becomes(t, v)
    BY Zenon DEF NextPackage
  <1>2. w.pc = "caching" /\ IsTask(w)
    BY <1>1 DEF Fields, Resolving, At
  <1> HIDE DEF w, local, deps, names, nv
  <1>3. /\ IsTask(v) /\ v.pc = "caching" /\ v.reqs = w.reqs /\ v.left = w.left
        /\ v.at = nv /\ v.deps = deps /\ v.nodes = Tail(w.nodes) /\ v.local = local
    BY <1>2 DEF IsTask, TaskFields
  <1> HIDE DEF v
  <1>4. Moves(t, "caching") /\ task'[t] = v
    BY <1>1, <1>3, Changes
  <1>5. LooksAt(case, w, v)
    BY <1>1, <1>3, Zenon DEF LooksAt, Registry, local, deps, nv
  <1> QED BY <1>1, <1>4, <1>5, Zenon DEF w

LEMMA AddDepMoves ==
  ASSUME Fields, NEW t \in Task, AddDep(t), ~Fails(t)
  PROVE  /\ UNCHANGED queue /\ Moves(t, "caching")
         /\ \E d \in task[t].deps :
               /\ Chosen(task[t], d)[2] # 0
               /\ AddsDep(task[t], task'[t], d, Chosen(task[t], d))
  <1> DEFINE w == task[t]
             own == w.local.packages[w.at]
             children(d) == IF Chosen(w, d) = w.at THEN own ELSE With(own, d.name, Chosen(w, d))
             local(d) == [w.local EXCEPT !.packages = With(@, w.at, children(d))]
             graph(d) == [w EXCEPT !.deps = @ \ {d}, !.nodes = Reach(w, Chosen(w, d)), !.local = local(d)]
  <1>1. Resolving(t) /\ \E d \in w.deps : Chosen(w, d)[2] # 0 /\ UNCHANGED queue /\ Becomes(t, graph(d))
    BY Zenon DEF AddDep
  <1>2. PICK d \in w.deps : Chosen(w, d)[2] # 0 /\ UNCHANGED queue /\ Becomes(t, graph(d))
    BY <1>1, Zenon
  <1>3. w.pc = "caching" /\ IsTask(w)
    BY <1>1 DEF Fields, Resolving, At
  <1> DEFINE new == local(d)
             nodes == Reach(w, Chosen(w, d))
             v == [w EXCEPT !.deps = @ \ {d}, !.nodes = nodes, !.local = new]
  <1>4. Becomes(t, v)
    BY <1>2, Zenon
  <1> HIDE DEF w, new, nodes
  <1>5. /\ IsTask(v) /\ v.pc = "caching" /\ v.reqs = w.reqs /\ v.nodes = nodes
        /\ v.left = w.left /\ v.at = w.at /\ v.deps = w.deps \ {d} /\ v.local = new
    BY <1>3 DEF IsTask, TaskFields
  <1> HIDE DEF v
  <1>6. Moves(t, "caching") /\ task'[t] = v
    BY <1>4, <1>5, Changes
  <1>7. AddsDep(w, v, d, Chosen(w, d))
    BY <1>5, Zenon DEF AddsDep, new, nodes
  <1> QED BY <1>2, <1>6, <1>7, Zenon DEF w

LEMMA IntoSnapshotMoves ==
  ASSUME Fields, NEW t \in Task, IntoSnapshot(t)
  PROVE  UNCHANGED queue /\ Moves(t, "resolved") /\ MakesSnapshot(task[t], task'[t].local)
  <1> DEFINE w == task[t]
             local == [w.local EXCEPT !.byName = DOMAIN w.local.packages]
             names == {nv[1] : nv \in DOMAIN w.local.packages} \ memory
             v == [Idle EXCEPT !.pc = "resolved", !.todo = names, !.local = local]
  <1>1. /\ w.reqs = {} /\ w.left = <<>> /\ w.deps = {} /\ w.nodes = <<>>
        /\ UNCHANGED queue /\ Becomes(t, v)
    BY Zenon DEF IntoSnapshot
  <1> HIDE DEF w, local, names
  <1>2. IsTask(v) /\ v.pc = "resolved" /\ v.local = local
    BY IdleTask DEF IsTask, TaskFields
  <1> HIDE DEF v
  <1>3. Moves(t, "resolved") /\ task'[t] = v
    BY <1>1, <1>2, Changes
  <1> QED BY <1>1, <1>2, <1>3, Zenon DEF MakesSnapshot, w, local

LEMMA ResolveMoves ==
  ASSUME Fields, NEW t \in Task, Resolve(t)
  PROVE  /\ task[t].pc = "caching" /\ UNCHANGED <<case, snapshot, memory, installed, lockfile>>
         /\ Fails(t) \/ (UNCHANGED queue /\ (Moves(t, "caching") \/ Moves(t, "resolved")))
  <1>1. Resolving(t)
    BY Zenon DEF Resolve, AddReq, AddPending, NextPackage, AddDep, IntoSnapshot
  <1> DEFINE Goal == Fails(t) \/ (UNCHANGED queue /\ (Moves(t, "caching") \/ Moves(t, "resolved")))
  <1>2. AddReq(t) => Goal
    BY AddReqMoves, Zenon
  <1>3. AddPending(t) => Goal
    BY AddPendingMoves, Zenon
  <1>4. NextPackage(t) => Goal
    BY NextPackageMoves, Zenon
  <1>5. AddDep(t) => Goal
    BY AddDepMoves, Zenon
  <1>6. IntoSnapshot(t) => Goal
    BY IntoSnapshotMoves, Zenon
  <1> QED BY <1>1, <1>2, <1>3, <1>4, <1>5, <1>6 DEF Resolve, Resolving, At

LEMMA PermitNext == PermitInv /\ [Next]_vars => PermitInv'
  <1> SUFFICES ASSUME PermitInv, [Next]_vars PROVE PermitInv'
    OBVIOUS
  <1>1. CASE UNCHANGED vars
    BY <1>1 DEF vars, PermitInv, Fields, Queued
  <1>2. ASSUME NEW t \in Task, Step(t) PROVE PermitInv'
    <2>0. /\ \A w : IsTask(w) /\ Becomes(t, w) => Moves(t, w.pc)
          /\ \A to : Goes(t, to) => Moves(t, to)
          /\ \A to : Ends(t, to) => Moves(t, to)
      BY Changes DEF PermitInv
    <2>1. CASE Start(t)
      <3>0. task[t].pc = "start"
        BY <2>1 DEF Start, At
      <3>1. CASE Ends(t, "done") /\ UNCHANGED queue
        <4>1. Moves(t, "done")
          BY <2>0, <3>1
        <4> QED BY <3>0, <3>1, <4>1, SameQueue DEF Asking
      <3>2. CASE Goes(t, "queued") /\ queue' = Append(queue, t)
        <4>1. Moves(t, "queued")
          BY <2>0, <3>2
        <4> QED BY <3>0, <3>2, <4>1, QueueUp DEF Asking
      <3>3. CASE /\ UNCHANGED queue
                 /\ Becomes(t, [Idle EXCEPT !.pc = "installing", !.todo = NamesOf(Job(t).reqs),
                                            !.reqs = Job(t).reqs])
        <4> DEFINE w == [Idle EXCEPT !.pc = "installing", !.todo = NamesOf(Job(t).reqs),
                                     !.reqs = Job(t).reqs]
        <4>1. IsTask(w) /\ w.pc = "installing"
          BY IdleTask DEF IsTask, TaskFields
        <4>2. Moves(t, "installing")
          BY <2>0, <3>3, <4>1
        <4> QED BY <3>0, <3>3, <4>2, SameQueue DEF Asking
      <3>4. CASE Goes(t, "installed") /\ UNCHANGED queue
        <4>1. Moves(t, "installed")
          BY <2>0, <3>4
        <4> QED BY <3>0, <3>4, <4>1, SameQueue DEF Asking
      <3> QED BY <2>1, <3>1, <3>2, <3>3, <3>4 DEF Start
    <2>2. CASE Cache(t)
      <3>1. PICK n \in task[t].todo : Becomes(t, [task[t] EXCEPT !.todo = @ \ {n}])
        BY <2>2 DEF Cache
      <3> DEFINE w == [task[t] EXCEPT !.todo = @ \ {n}]
      <3>2. IsTask(w) /\ w.pc = task[t].pc
        BY DEF PermitInv, Fields, IsTask, TaskFields
      <3>3. Moves(t, task[t].pc)
        BY <2>0, <3>1, <3>2
      <3>4. UNCHANGED queue
        BY <2>2 DEF Cache
      <3> QED BY <3>3, <3>4, SameQueue DEF PermitInv, Queued
    <2>3. CASE AsPending(t)
      <3>1. task[t].pc = "installing" /\ UNCHANGED queue
        BY <2>3 DEF AsPending, At
      <3>2. CASE Ends(t, "panicked") \/ Ends(t, "failed")
        <4>1. Moves(t, "panicked") \/ Moves(t, "failed")
          BY <2>0, <3>2
        <4> QED BY <3>1, <4>1, SameQueue DEF Asking
      <3>3. ASSUME NEW r, Becomes(t, [task[t] EXCEPT !.reqs = @ \ {r}]) PROVE PermitInv'
        <4> DEFINE w == [task[t] EXCEPT !.reqs = @ \ {r}]
        <4>1. IsTask(w) /\ w.pc = task[t].pc
          BY DEF PermitInv, Fields, IsTask, TaskFields
        <4>2. Moves(t, task[t].pc)
          BY <2>0, <3>3, <4>1
        <4> QED BY <3>1, <4>2, SameQueue DEF Asking
      <3> QED BY <2>3, <3>2, <3>3 DEF AsPending
    <2>4. CASE Installed(t)
      <3>1. CASE At(t, "installing") /\ Goes(t, "installed") /\ UNCHANGED queue
        <4>1. Moves(t, "installed")
          BY <2>0, <3>1
        <4> QED BY <3>1, <4>1, SameQueue DEF At, Asking
      <3>2. CASE At(t, "installed") /\ Goes(t, "queued") /\ queue' = Append(queue, t)
        <4>1. Moves(t, "queued")
          BY <2>0, <3>2
        <4> QED BY <3>2, <4>1, QueueUp DEF At, Asking
      <3> QED BY <2>4, <3>1, <3>2 DEF Installed
    <2>5. CASE Clone(t)
      <3>1. /\ task[t].pc = "queued" /\ UNCHANGED queue /\ Head(queue) = t
            /\ Moves(t, "write") \/ Moves(t, "caching")
        BY <2>5, CloneMoves DEF PermitInv
      <3>2. queue # <<>>
        BY <3>1 DEF PermitInv, Queued, Asking
      <3> QED BY <3>1, <3>2, SameQueue DEF Asking
    <2>6. CASE RequestFails(t)
      <3>1. Moves(t, "failed") /\ Release(t) /\ task[t].pc # "queued"
        BY <2>0, <2>6 DEF RequestFails, Loading
      <3> QED BY <3>1, PassOn DEF Asking
    <2>7. CASE Resolve(t)
      <3>1. task[t].pc = "caching"
        BY <2>7, ResolveMoves DEF PermitInv
      <3>2. CASE Fails(t)
        <4>1. Moves(t, "failed") /\ Release(t)
          BY <2>0, <3>2 DEF Fails
        <4> QED BY <3>1, <4>1, PassOn DEF Asking
      <3>3. CASE UNCHANGED queue /\ (Moves(t, "caching") \/ Moves(t, "resolved"))
        BY <3>1, <3>3, SameQueue DEF PermitInv, Queued, Asking
      <3> QED BY <2>7, <3>2, <3>3, ResolveMoves DEF PermitInv
    <2>8. CASE Clear(t)
      <3>1. task[t].pc = "resolved"
        BY <2>8 DEF Clear, At
      <3>2. CASE Ends(t, "panicked") /\ Release(t)
        <4>1. Moves(t, "panicked")
          BY <2>0, <3>2
        <4> QED BY <3>1, <3>2, <4>1, PassOn DEF Asking
      <3>3. CASE Goes(t, "write") /\ UNCHANGED queue
        <4>1. Moves(t, "write")
          BY <2>0, <3>3
        <4> QED BY <3>1, <3>3, <4>1, SameQueue DEF PermitInv, Queued, Asking
      <3> QED BY <2>8, <3>2, <3>3 DEF Clear
    <2>9. CASE WriteBack(t)
      <3>1. task[t].pc = "write" /\ Release(t) /\ (Moves(t, "lock") \/ Moves(t, "done"))
        BY <2>0, <2>9 DEF WriteBack, At
      <3> QED BY <3>1, PassOn DEF Asking
    <2>10. CASE Lock(t)
      <3>1. task[t].pc = "lock" /\ UNCHANGED queue /\ (Moves(t, "panicked") \/ Moves(t, "done"))
        BY <2>0, <2>10 DEF Lock, At
      <3> QED BY <3>1, SameQueue DEF Asking
    <2> QED BY <1>2, <2>1, <2>2, <2>3, <2>4, <2>5, <2>6, <2>7, <2>8, <2>9, <2>10 DEF Step
  <1> QED BY <1>1, <1>2 DEF Next

LEMMA PermitHolds == PermitInv => PermitPassedOn
  <1> SUFFICES ASSUME PermitInv PROVE PermitPassedOn
    OBVIOUS
  <1>1. ASSUME queue # <<>> PROVE task[Head(queue)].pc \in Asking
    <2>1. queue \in Seq(Task) /\ 1 \in DOMAIN queue /\ Head(queue) = queue[1] /\ queue[1] \in Task
      BY <1>1 DEF PermitInv, Queued
    <2> QED BY <2>1 DEF PermitInv, Queued
  <1>2. ASSUME NEW t \in Task, At(t, "queued") PROVE t \in ToSet(queue)
    BY <1>2 DEF At, PermitInv, Queued, Asking, ToSet
  <1> QED BY <1>1, <1>2 DEF PermitPassedOn, Asking

-----------------------------------------------------------------------------
(* What is in a sequence, and the best version                             *)

LEMMA SetOfEmpty == ToSet(<<>>) = {}
  BY DEF ToSet

LEMMA SetOfAppend ==
  ASSUME NEW R, NEW s \in Seq(R), NEW x \in R
  PROVE  Append(s, x) \in Seq(R) /\ ToSet(Append(s, x)) = ToSet(s) \cup {x}
  <1>1. /\ Len(s) \in Nat /\ DOMAIN s = 1..Len(s) /\ DOMAIN Append(s, x) = 1..(Len(s) + 1)
        /\ \A i \in 1..Len(s) : Append(s, x)[i] = s[i] 
        /\ Append(s, x)[Len(s) + 1] = x /\ Append(s, x) \in Seq(R)
    OBVIOUS
  <1>2. \A i \in 1..(Len(s) + 1) : i \in 1..Len(s) \/ i = Len(s) + 1
    BY <1>1
  <1>3. Len(s) + 1 \in 1..(Len(s) + 1) /\ \A i \in 1..Len(s) : i \in 1..(Len(s) + 1)
    BY <1>1
  <1> QED BY <1>1, <1>2, <1>3 DEF ToSet

LEMMA SetOfTail ==
  ASSUME NEW R, NEW s \in Seq(R), s # <<>>
  PROVE  Head(s) \in R /\ Tail(s) \in Seq(R) /\ ToSet(s) = ToSet(Tail(s)) \cup {Head(s)}
  <1>1. /\ Len(s) \in Nat /\ Len(s) >= 1 /\ DOMAIN s = 1..Len(s) /\ DOMAIN Tail(s) = 1..(Len(s) - 1)
        /\ \A i \in 1..(Len(s) - 1) : Tail(s)[i] = s[i + 1]
        /\ Head(s) = s[1] /\ Head(s) \in R /\ Tail(s) \in Seq(R)
    OBVIOUS
  <1>2. \A i \in 1..Len(s) : i = 1 \/ (i - 1 \in 1..(Len(s) - 1) /\ (i - 1) + 1 = i)
    BY <1>1
  <1>3. \A i \in 1..(Len(s) - 1) : i + 1 \in 1..Len(s)
    BY <1>1
  <1>4. ToSet(s) \subseteq ToSet(Tail(s)) \cup {Head(s)}
    <2> SUFFICES ASSUME NEW i \in 1..Len(s) PROVE s[i] \in ToSet(Tail(s)) \cup {Head(s)}
      BY <1>1 DEF ToSet
    <2>1. CASE i = 1
      BY <1>1, <2>1
    <2>2. CASE i # 1
      <3>1. i - 1 \in 1..(Len(s) - 1) /\ (i - 1) + 1 = i
        BY <1>2, <2>2
      <3>2. Tail(s)[i - 1] = s[i]
        BY <1>1, <3>1
      <3> QED BY <1>1, <3>1, <3>2 DEF ToSet
    <2> QED BY <2>1, <2>2
  <1>5. ToSet(Tail(s)) \cup {Head(s)} \subseteq ToSet(s)
    BY <1>1, <1>3 DEF ToSet
  <1> QED BY <1>1, <1>4, <1>5

LEMMA SetOfElements == ASSUME NEW R, NEW s \in Seq(R) PROVE ToSet(s) \subseteq R
  BY DEF ToSet

\* Of finitely many packages one has the highest version.
LEMMA HighestVersion ==
  ASSUME NEW S, IsFiniteSet(S), S # {}, \A q \in S : q[2] \in Nat
  PROVE  \E q \in S : \A r \in S : q[2] >= r[2]
  <1> DEFINE Above(q) == {r \in S : r[2] > q[2]}
             T == {Above(q) : q \in S}
  <1>1. IsWellFoundedOn(StrictSubsetOrdering(S), FiniteSubsetsOf(S))
    BY FS_StrictSubsetOrderingWellFounded
  <1>2. T \subseteq FiniteSubsetsOf(S) /\ T # {}
    <2>1. \A q \in S : Above(q) \subseteq S /\ IsFiniteSet(Above(q))
      BY FS_Subset
    <2> QED BY <2>1 DEF FiniteSubsetsOf
  <1>3. \E x \in T : \A y \in T : <<y, x>> \notin StrictSubsetOrdering(S)
    <2> HIDE DEF T
    <2> QED BY <1>1, <1>2, WFMin
  <1>4. PICK q \in S : \A r \in S : <<Above(r), Above(q)>> \notin StrictSubsetOrdering(S)
    BY <1>3
  <1>5. ASSUME NEW r \in S, r[2] > q[2] PROVE FALSE
    <2>1. Above(r) \subseteq Above(q) /\ r \in Above(q) /\ r \notin Above(r)
      BY <1>5
    <2>2. <<Above(r), Above(q)>> \in StrictSubsetOrdering(S)
      BY <2>1 DEF StrictSubsetOrdering
    <2> QED BY <1>4, <2>2
  <1>6. \A r \in S : q[2] >= r[2]
    <2> SUFFICES ASSUME NEW r \in S PROVE q[2] >= r[2]
      OBVIOUS
    <2>1. ~(r[2] > q[2])
      BY <1>5
    <2>2. q[2] \in Nat /\ r[2] \in Nat
      OBVIOUS
    <2> QED BY <2>1, <2>2
  <1> QED BY <1>6

LEMMA MatchingFound ==
  ASSUME CaseOK(case), NEW r, NEW S, S \subseteq DOMAIN Registry, Matching(r, S) # {}
  PROVE  LET best == Max(Matching(r, S)) IN
         best \in Nat \ {0} /\ <<r.name, best>> \in S /\ best \in r.req
  <1> DEFINE M == Matching(r, S)
             N == {x \in S : Matches(x, r)}
  <1>1. IsFiniteSet(DOMAIN Registry) /\ \A nv \in DOMAIN Registry : nv = <<nv[1], nv[2]>> /\ nv[2] \in Nat \ {0}
    BY DEF CaseOK, Registry
  <1>2. M = {nv[2] : nv \in N}
    BY DEF Matching
  <1>3. IsFiniteSet(N) /\ N # {} /\ \A q \in N : q[2] \in Nat
    BY <1>1, <1>2, FS_Subset
  <1>4. \A m \in M : m \in Nat \ {0} /\ <<r.name, m>> \in S /\ m \in r.req
    <2> SUFFICES ASSUME NEW m \in M PROVE m \in Nat \ {0} /\ <<r.name, m>> \in S /\ m \in r.req
      OBVIOUS
    <2>1. PICK nv \in N : m = nv[2]
      BY <1>2
    <2>2. nv \in S /\ nv[1] = r.name /\ nv[2] \in r.req
      BY DEF Matches
    <2> QED BY <1>1, <2>1, <2>2
  <1>5. \E x \in M : \A y \in M : x >= y
    <2> HIDE DEF N
    <2>1. PICK q \in N : \A n \in N : q[2] >= n[2]
      BY <1>3, HighestVersion
    <2> QED BY <1>2, <2>1
  <1>6. Max(M) \in M
    BY <1>5 DEF Max
  <1> QED BY <1>4, <1>6

\* The version that is chosen has been published and is one that was asked for.
LEMMA BestFound ==
  ASSUME CaseOK(case), NEW r, NEW known, known \subseteq DOMAIN Registry, Best(r, known) # 0
  PROVE  <<r.name, Best(r, known)>> \in DOMAIN Registry /\ Matches(<<r.name, Best(r, known)>>, r)
  <1> DEFINE m == Best(r, known)
  <1>1. \E S \in {known, DOMAIN Registry} : Matching(r, S) # {} /\ m = Max(Matching(r, S))
    BY DEF Best
  <1>2. <<r.name, m>> \in DOMAIN Registry /\ m \in r.req
    <2> HIDE DEF m
    <2> QED BY <1>1, MatchingFound
  <1> QED BY <1>2 DEF Matches

-----------------------------------------------------------------------------
(* The snapshot                                                            *)

\* The requirements lead to versions that match, which are roots or among others.
ReqsLead(s, others) ==
    \A r \in DOMAIN s.reqs : Matches(s.reqs[r], r) /\ s.reqs[r] \in s.roots \cup others

\* So does the dependency d of the package nv; if it has no entry, to the package itself.
DepLeads(packages, nv, d) ==
    IF d.name \in DOMAIN packages[nv] THEN Matches(packages[nv][d.name], d) ELSE Matches(nv, d)

\* All there is has been published, and what packages depend on is there or among others.
PackagesKnown(k, packages, others) ==
    /\ DOMAIN packages \subseteq DOMAIN k.registry
    /\ \A nv \in DOMAIN packages : \A n \in DOMAIN packages[nv] :
          packages[nv][n] \in DOMAIN packages \cup others

\* A snapshot of the case k
Whole(k, s) ==
    /\ IsSnapshot(s)
    /\ s.pending \in Seq(DOMAIN k.registry) /\ s.byName \subseteq DOMAIN k.registry
    /\ ReqsLead(s, ToSet(s.pending))
    /\ s.roots \subseteq DOMAIN s.packages
    /\ PackagesKnown(k, s.packages, {})
    /\ \A nv \in DOMAIN s.packages : \A d \in k.registry[nv] : DepLeads(s.packages, nv, d)

\* The clone of a task that resolves
Growing(k, w) ==
    LET s == w.local IN
    /\ IsSnapshot(s) /\ s.pending = <<>> /\ s.byName \subseteq DOMAIN k.registry
    /\ w.left \in Seq(DOMAIN k.registry) /\ w.nodes \in Seq(DOMAIN k.registry)
    /\ ReqsLead(s, ToSet(w.left))
    /\ s.roots \subseteq Known(w)
    /\ PackagesKnown(k, s.packages, ToSet(w.nodes))
    /\ \A nv \in DOMAIN s.packages : \A d \in k.registry[nv] :
          (nv = w.at /\ d \in w.deps) \/ DepLeads(s.packages, nv, d)
    /\ w.deps # {} =>
          /\ w.at \in DOMAIN s.packages /\ w.deps \subseteq k.registry[w.at]
          /\ \A d \in w.deps : d.name \notin DOMAIN s.packages[w.at]

Written == {"resolved", "write"}
ClonesWhole ==
    \A t \in Task :
        /\ task[t].pc = "caching" => Growing(case, task[t])
        /\ task[t].pc \in Written => Whole(case, task[t].local) /\ task[t].local.pending = <<>>

\* An installer is at its requirements alone; without one nothing is pending.
NoInstaller == \A t \in Task : Job(t).kind # "install"
Installing ==
    /\ \A t \in Task : task[t].pc \in {"installing", "installed"} => Job(t).kind = "install"
    /\ NoInstaller => snapshot.pending = <<>> /\ \A t \in Task : task[t].pc # "panicked"

\* Requirements are kept by those who only add.
Kept(t) ==
    /\ task[t].pc = "caching" => Reqs(t) \subseteq DOMAIN task[t].local.reqs \cup task[t].reqs
    /\ task[t].pc \in Written => Reqs(t) \subseteq DOMAIN task[t].local.reqs
    /\ task[t].pc \in Written \cup {"caching"} => DOMAIN snapshot.reqs \subseteq DOMAIN task[t].local.reqs
    /\ task[t].pc \in {"lock", "done"} => Job(t).reqs \subseteq DOMAIN snapshot.reqs
AddsKept == OnlyAdds => \A t \in Task : Kept(t)

SnapshotInv ==
    /\ case \in Cases
    /\ Whole(case, snapshot) /\ ClonesWhole
    /\ Installing /\ AddsKept
    /\ ~Corrupt(lockfile)

-----------------------------------------------------------------------------
(* Snapshots and clones                                                    *)

\* Nothing that a lockfile names is missing in it.
LEMMA LockLoads ==
  ASSUME NEW lock
  PROVE  ~Corrupt(lock) <=>
           /\ \A r \in DOMAIN lock.specifiers : lock.specifiers[r] \in DOMAIN lock.packages
           /\ \A nv \in DOMAIN lock.packages : \A n \in DOMAIN lock.packages[nv] :
                 lock.packages[nv][n] \in DOMAIN lock.packages
  BY DEF Corrupt, NamedIn, Range

LEMMA LockedLoads ==
  ASSUME NEW k, NEW s, NEW lock, ~Corrupt(lock), Whole(k, s), CanLock(s)
  PROVE  ~Corrupt(Locked(lock, s))
  <1> DEFINE new == Locked(lock, s)
  <1>1. /\ new.specifiers = Over(s.reqs, lock.specifiers)
        /\ new.packages = Over(lock.packages, s.packages)
    BY DEF Locked
  <1>2. /\ \A r \in DOMAIN s.reqs : s.reqs[r] \in DOMAIN s.packages
        /\ \A nv \in DOMAIN s.packages : \A n \in DOMAIN s.packages[nv] : s.packages[nv][n] \in DOMAIN s.packages
    BY DEF Whole, CanLock, Range, PackagesKnown
  <1> HIDE DEF new
  <1>3. /\ \A r \in DOMAIN new.specifiers : new.specifiers[r] \in DOMAIN new.packages
        /\ \A nv \in DOMAIN new.packages : \A n \in DOMAIN new.packages[nv] :
              new.packages[nv][n] \in DOMAIN new.packages
    BY <1>1, <1>2, LockLoads DEF Over
  <1> QED BY <1>3, LockLoads DEF new

\* Without anything pending the lockfile can be written.
LEMMA NothingPending ==
  ASSUME NEW k, NEW s, Whole(k, s), s.pending = <<>>
  PROVE  CanLock(s)
  BY SetOfEmpty DEF Whole, ReqsLead, CanLock, Range

LEMMA EmptyWhole == ASSUME NEW k PROVE Whole(k, Empty)
  <1>1. /\ Empty.reqs = <<>> /\ Empty.roots = {} /\ Empty.packages = <<>> /\ Empty.byName = {}
        /\ Empty.pending = <<>>
    BY DEF Empty
  <1>2. DOMAIN <<>> = {} /\ <<>> \in Seq(DOMAIN k.registry)
    OBVIOUS
  <1> QED BY <1>1, <1>2, IdleTask DEF Whole, ReqsLead, PackagesKnown

\* The program starts from a lockfile that is of the registry.
LEMMA LoadedWhole ==
  ASSUME NEW k, CaseOK(k)
  PROVE  Whole(k, FromLockfile(k.start)) /\ FromLockfile(k.start).pending = <<>>
  <1> DEFINE s == FromLockfile(k.start)
  <1>1. /\ s.reqs = k.start.specifiers /\ s.roots = Range(k.start.specifiers) /\ s.packages = k.start.packages
        /\ s.byName = DOMAIN k.start.packages /\ s.pending = <<>>
    BY DEF FromLockfile
  <1>2. IsSnapshot(s)
    BY DEF FromLockfile, IsSnapshot, SnapshotFields
  <1>3. /\ ~Corrupt(k.start) /\ DOMAIN k.start.packages \subseteq DOMAIN k.registry
        /\ \A r \in DOMAIN k.start.specifiers : Matches(k.start.specifiers[r], r)
        /\ \A nv \in DOMAIN k.start.packages : \A d \in k.registry[nv] : DepLeads(k.start.packages, nv, d)
    BY DEF CaseOK, DepLeads
  <1>4. <<>> \in Seq(DOMAIN k.registry)
    OBVIOUS
  <1> HIDE DEF s
  <1> QED BY <1>1, <1>2, <1>3, <1>4, LockLoads DEF Whole, ReqsLead, PackagesKnown, Range, s

LEMMA SnapshotInit ==
  ASSUME \A k \in Cases : CaseOK(k), Init
  PROVE  SnapshotInv
  <1>1. /\ case \in Cases /\ CaseOK(case) /\ lockfile = case.start
        /\ snapshot = IF case.locked THEN FromLockfile(case.start) ELSE Empty
        /\ \A t \in Task : task[t].pc = "start"
    BY IdleTask DEF Init
  <1>2. Whole(case, snapshot) /\ snapshot.pending = <<>>
    BY <1>1, LoadedWhole, EmptyWhole DEF Empty
  <1>3. ~Corrupt(lockfile)
    BY <1>1 DEF CaseOK
  <1>4. ClonesWhole /\ Installing /\ AddsKept
    BY <1>1, <1>2 DEF ClonesWhole, Installing, AddsKept, Kept, Written
  <1> QED BY <1>1, <1>2, <1>3, <1>4 DEF SnapshotInv

\* What the invariant says
LEMMA SnapshotHolds == SnapshotInv => SnapshotWhole /\ AddedResolve /\ LockfileLoads
  <1> SUFFICES ASSUME SnapshotInv PROVE SnapshotWhole /\ AddedResolve /\ LockfileLoads
    OBVIOUS
  <1>1. Whole(case, snapshot)
    BY DEF SnapshotInv
  <1>2. SnapshotWhole
    <2>1. \A r \in DOMAIN snapshot.reqs :
             Matches(snapshot.reqs[r], r) /\ snapshot.reqs[r] \in snapshot.roots \cup ToSet(snapshot.pending)
      BY <1>1 DEF Whole, ReqsLead
    <2>2. ASSUME NEW nv \in DOMAIN snapshot.packages, NEW d \in Registry[nv]
          PROVE  LET to == FromPackage(snapshot, d.name, nv) IN
                 to \in DOMAIN snapshot.packages /\ to[2] \in d.req
      <3>1. DepLeads(snapshot.packages, nv, d)
        BY <1>1 DEF Whole, Registry
      <3>2. CASE d.name \in DOMAIN snapshot.packages[nv]
        <4>1. FromPackage(snapshot, d.name, nv) = snapshot.packages[nv][d.name]
          BY <3>2 DEF FromPackage
        <4>2. snapshot.packages[nv][d.name] \in DOMAIN snapshot.packages
          BY <1>1, <3>2 DEF Whole, PackagesKnown
        <4> QED BY <3>1, <3>2, <4>1, <4>2 DEF DepLeads, Matches
      <3>3. CASE d.name \notin DOMAIN snapshot.packages[nv]
        <4>1. nv[1] = d.name /\ nv[2] \in d.req
          BY <3>1, <3>3 DEF DepLeads, Matches
        <4>2. FromPackage(snapshot, d.name, nv) = nv
          BY <3>3, <4>1 DEF FromPackage
        <4> QED BY <4>1, <4>2
      <3> QED BY <3>2, <3>3
    <2> QED BY <1>1, <2>1, <2>2 DEF SnapshotWhole, Whole
  <1>3. AddedResolve
    <2> SUFFICES ASSUME OnlyAdds, NEW t \in Task, At(t, "done"), NEW r \in Job(t).reqs PROVE Resolves(snapshot, r)
      BY DEF AddedResolve
    <2>1. r \in DOMAIN snapshot.reqs
      BY DEF SnapshotInv, AddsKept, Kept, At
    <2>2. snapshot.pending = <<>>
      BY DEF SnapshotInv, Installing, NoInstaller, OnlyAdds
    <2>3. snapshot.reqs[r] \in snapshot.roots
      BY <1>1, <2>1, <2>2, SetOfEmpty DEF Whole, ReqsLead
    <2> QED BY <1>1, <2>1, <2>3 DEF Resolves, Whole
  <1>4. LockfileLoads
    BY DEF SnapshotInv, Installing, NoInstaller, LockfileLoads, At
  <1> QED BY <1>2, <1>3, <1>4

-----------------------------------------------------------------------------
(* The steps of a resolution                                               *)

\* What a package that is reached adds to what there is
LEMMA Reached ==
  ASSUME NEW k, NEW w, Growing(k, w), NEW nv \in DOMAIN k.registry
  PROVE  /\ Reach(w, nv) \in Seq(DOMAIN k.registry)
         /\ DOMAIN w.local.packages \cup ToSet(Reach(w, nv)) = Known(w) \cup {nv}
  <1> DEFINE R == DOMAIN k.registry
             s == w.nodes
  <1>1. s \in Seq(R) /\ nv \in R
    BY DEF Growing
  <1> HIDE DEF R, s
  <1>2. Append(s, nv) \in Seq(R) /\ ToSet(Append(s, nv)) = ToSet(s) \cup {nv}
    BY <1>1, SetOfAppend
  <1>3. CASE nv \in Known(w)
    BY <1>1, <1>3 DEF Reach, Known, s, R
  <1>4. CASE nv \notin Known(w)
    BY <1>2, <1>4 DEF Reach, Known, s, R
  <1> QED BY <1>3, <1>4

\* The head of what there is to do is a version that has been published.
LEMMA Heads ==
  ASSUME NEW k, NEW s, s \in Seq(DOMAIN k.registry), s # <<>>
  PROVE  /\ Head(s) \in DOMAIN k.registry /\ Tail(s) \in Seq(DOMAIN k.registry)
         /\ ToSet(s) = ToSet(Tail(s)) \cup {Head(s)}
  <1> DEFINE R == DOMAIN k.registry
  <1>1. s \in Seq(R)
    OBVIOUS
  <1> HIDE DEF R
  <1>2. Head(s) \in R /\ Tail(s) \in Seq(R) /\ ToSet(s) = ToSet(Tail(s)) \cup {Head(s)}
    BY <1>1, SetOfTail
  <1> QED BY <1>2 DEF R

LEMMA AddReqGrows ==
  ASSUME NEW k, NEW w, NEW v, Growing(k, w), NEW r, NEW nv \in DOMAIN k.registry, Matches(nv, r),
         AddsReq(w, v, r, nv)
  PROVE  Growing(k, v) /\ DOMAIN v.local.reqs = DOMAIN w.local.reqs \cup {r}
  <1> USE DEF AddsReq
  <1> DEFINE s == w.local
             l == v.local
  <1>1. IsSnapshot(s)
    BY DEF Growing
  <1>2. /\ IsSnapshot(l) /\ l.reqs = With(s.reqs, r, nv) /\ l.roots = s.roots \cup {nv}
        /\ l.packages = s.packages /\ l.byName = s.byName /\ l.pending = s.pending
    BY <1>1 DEF IsSnapshot, SnapshotFields
  <1>3. v.nodes \in Seq(DOMAIN k.registry) /\ Known(v) = Known(w) \cup {nv}
    <2>1. v.nodes \in Seq(DOMAIN k.registry) /\ DOMAIN s.packages \cup ToSet(v.nodes) = Known(w) \cup {nv}
      BY Reached
    <2> QED BY <1>2, <2>1 DEF Known
  <1>4. DOMAIN l.reqs = DOMAIN s.reqs \cup {r} /\ \A x \in DOMAIN l.reqs : l.reqs[x] = IF x = r THEN nv ELSE s.reqs[x]
    BY <1>2 DEF With
  <1>5. ReqsLead(l, ToSet(v.left))
    BY <1>2, <1>4 DEF Growing, ReqsLead
  <1>6. PackagesKnown(k, l.packages, ToSet(v.nodes))
    BY <1>2, <1>3 DEF Growing, PackagesKnown, Known
  <1>7. l.roots \subseteq Known(v)
    BY <1>2, <1>3 DEF Growing
  <1> HIDE DEF s, l
  <1> QED BY <1>2, <1>3, <1>4, <1>5, <1>6, <1>7 DEF Growing, s, l

LEMMA AddPendingGrows ==
  ASSUME NEW k, NEW w, NEW v, Growing(k, w), AddsPending(w, v)
  PROVE  Growing(k, v) /\ v.local.reqs = w.local.reqs
  <1> USE DEF AddsPending
  <1> DEFINE s == w.local
             l == v.local
             nv == Head(w.left)
  <1>1. IsSnapshot(s)
    BY DEF Growing
  <1>2. /\ nv \in DOMAIN k.registry /\ v.left \in Seq(DOMAIN k.registry)
        /\ ToSet(w.left) = ToSet(v.left) \cup {nv}
    <2>1. w.left \in Seq(DOMAIN k.registry)
      BY DEF Growing
    <2> QED BY <2>1, Heads
  <1>3. /\ IsSnapshot(l) /\ l.reqs = s.reqs /\ l.roots = s.roots \cup {nv}
        /\ l.packages = s.packages /\ l.byName = s.byName /\ l.pending = s.pending
    <2>1. CASE nv \in s.roots /\ l = s
      BY <1>1, <2>1
    <2>2. CASE l = [s EXCEPT !.roots = @ \cup {nv}]
      BY <1>1, <2>2 DEF IsSnapshot, SnapshotFields
    <2> QED BY <2>1, <2>2
  <1>4. v.nodes \in Seq(DOMAIN k.registry) /\ Known(v) = Known(w) \cup {nv}
    <2>1. CASE nv \in s.roots /\ v.nodes = w.nodes
      BY <1>3, <2>1 DEF Growing, Known
    <2>2. CASE v.nodes = Reach(w, nv)
      <3>1. v.nodes \in Seq(DOMAIN k.registry) /\ DOMAIN s.packages \cup ToSet(v.nodes) = Known(w) \cup {nv}
        BY <1>2, <2>2, Reached
      <3> QED BY <1>3, <3>1 DEF Known
    <2> QED BY <2>1, <2>2
  <1>5. ReqsLead(l, ToSet(v.left))
    BY <1>2, <1>3 DEF Growing, ReqsLead
  <1>6. PackagesKnown(k, l.packages, ToSet(v.nodes))
    BY <1>3, <1>4 DEF Growing, PackagesKnown, Known
  <1>7. l.roots \subseteq Known(v)
    BY <1>3, <1>4 DEF Growing
  <1> HIDE DEF s, l, nv
  <1> QED BY <1>2, <1>3, <1>4, <1>5, <1>6, <1>7 DEF Growing, s, l

LEMMA NextPackageGrows ==
  ASSUME NEW k, NEW w, NEW v, Growing(k, w), LooksAt(k, w, v)
  PROVE  Growing(k, v) /\ v.local.reqs = w.local.reqs
  <1> USE DEF LooksAt
  <1> DEFINE s == w.local
             l == v.local
             nv == v.at
  <1>1. IsSnapshot(s)
    BY DEF Growing
  <1>2. /\ nv \in DOMAIN k.registry /\ v.nodes \in Seq(DOMAIN k.registry)
        /\ ToSet(w.nodes) = ToSet(v.nodes) \cup {nv}
    <2> DEFINE nodes == w.nodes
    <2>1. nodes \in Seq(DOMAIN k.registry) /\ nodes # <<>>
      BY DEF Growing
    <2>2. nv = Head(nodes) /\ v.nodes = Tail(nodes)
      OBVIOUS
    <2> HIDE DEF nodes
    <2>3. /\ Head(nodes) \in DOMAIN k.registry /\ Tail(nodes) \in Seq(DOMAIN k.registry)
          /\ ToSet(nodes) = ToSet(Tail(nodes)) \cup {Head(nodes)}
      BY <2>1, Heads
    <2> QED BY <2>2, <2>3 DEF nodes
  <1>3. /\ IsSnapshot(l) /\ l.reqs = s.reqs /\ l.roots = s.roots
        /\ l.packages = With(s.packages, nv, <<>>) /\ l.byName = s.byName /\ l.pending = s.pending
    BY <1>1 DEF IsSnapshot, SnapshotFields
  <1>4. /\ DOMAIN l.packages = DOMAIN s.packages \cup {nv} /\ DOMAIN l.packages[nv] = {}
        /\ \A p \in DOMAIN s.packages \ {nv} : l.packages[p] = s.packages[p]
    BY <1>3 DEF With
  <1>5. Known(v) = Known(w)
    BY <1>2, <1>4 DEF Known
  <1>6. ReqsLead(l, ToSet(v.left))
    BY <1>3 DEF Growing, ReqsLead
  <1>7. PackagesKnown(k, l.packages, ToSet(v.nodes))
    BY <1>2, <1>4 DEF Growing, PackagesKnown
  <1>8. \A p \in DOMAIN l.packages : \A d \in k.registry[p] : (p = nv /\ d \in v.deps) \/ DepLeads(l.packages, p, d)
    BY <1>4 DEF Growing, DepLeads
  <1>9. <<>> \in Seq(DOMAIN k.registry)
    OBVIOUS
  <1> HIDE DEF s, l, nv
  <1> QED BY <1>2, <1>3, <1>4, <1>5, <1>6, <1>7, <1>8, <1>9 DEF Growing, s, l, nv

LEMMA AddDepGrows ==
  ASSUME NEW k, CaseOK(k), NEW w, NEW v, Growing(k, w),
         NEW d \in w.deps, NEW nv \in DOMAIN k.registry, Matches(nv, d),
         AddsDep(w, v, d, nv)
  PROVE  Growing(k, v) /\ v.local.reqs = w.local.reqs
  <1> USE DEF AddsDep
  <1> DEFINE s == w.local
             l == v.local
             at == w.at
             own == s.packages[at]
             children == IF nv = at THEN own ELSE With(own, d.name, nv)
  <1>1. IsSnapshot(s)
    BY DEF Growing
  <1>2. at \in DOMAIN s.packages /\ d \in k.registry[at] /\ d.name \notin DOMAIN own /\ at \in DOMAIN k.registry
    BY DEF Growing, PackagesKnown
  <1>3. /\ IsSnapshot(l) /\ l.reqs = s.reqs /\ l.roots = s.roots
        /\ l.packages = With(s.packages, at, children) /\ l.byName = s.byName /\ l.pending = s.pending
    <2> DEFINE packages == children
    <2>1. l = [s EXCEPT !.packages = With(@, at, packages)]
      OBVIOUS
    <2> HIDE DEF packages
    <2> QED BY <1>1, <2>1 DEF IsSnapshot, SnapshotFields, packages
  <1>4. /\ DOMAIN l.packages = DOMAIN s.packages /\ l.packages[at] = children
        /\ \A p \in DOMAIN s.packages \ {at} : l.packages[p] = s.packages[p]
    BY <1>2, <1>3 DEF With
  <1>5. v.nodes \in Seq(DOMAIN k.registry) /\ Known(v) = Known(w) \cup {nv}
    <2>1. DOMAIN s.packages \cup ToSet(v.nodes) = Known(w) \cup {nv} /\ v.nodes \in Seq(DOMAIN k.registry)
      BY Reached
    <2> QED BY <1>4, <2>1 DEF Known
  <1>6. /\ nv = at => children = own
        /\ nv # at => /\ DOMAIN children = DOMAIN own \cup {d.name} /\ children[d.name] = nv
                      /\ \A n \in DOMAIN own : children[n] = own[n]
    BY <1>2 DEF With
  <1>7. PackagesKnown(k, l.packages, ToSet(v.nodes))
    <2>1. DOMAIN l.packages \cup ToSet(v.nodes) = Known(w) \cup {nv}
      BY <1>5 DEF Known
    <2>2. \A p \in DOMAIN s.packages : \A n \in DOMAIN s.packages[p] : s.packages[p][n] \in Known(w)
      BY DEF Growing, PackagesKnown, Known
    <2>3. \A n \in DOMAIN children : children[n] \in Known(w) \cup {nv}
      BY <1>2, <1>6, <2>2
    <2>4. DOMAIN l.packages \subseteq DOMAIN k.registry
      BY <1>4 DEF Growing, PackagesKnown
    <2> HIDE DEF children, l, s
    <2> QED BY <1>4, <2>1, <2>2, <2>3, <2>4 DEF PackagesKnown
  <1>8. \A e \in k.registry[at] : e.name = d.name => e = d
    BY <1>2 DEF CaseOK
  <1>9. ASSUME NEW p \in DOMAIN l.packages, NEW e \in k.registry[p]
        PROVE  (p = v.at /\ e \in v.deps) \/ DepLeads(l.packages, p, e)
    <2>1. (p = at /\ e \in w.deps) \/ DepLeads(s.packages, p, e)
      BY <1>4 DEF Growing
    <2>2. CASE p # at
      BY <1>4, <2>1, <2>2 DEF DepLeads
    <2>3. CASE p = at /\ e # d
      <3>1. e.name # d.name
        BY <1>8, <2>3
      <3>2. e.name \in DOMAIN children <=> e.name \in DOMAIN own
        BY <1>6, <3>1
      <3>3. e.name \in DOMAIN own => children[e.name] = own[e.name]
        BY <1>6
      <3> HIDE DEF children
      <3> QED BY <1>4, <2>1, <2>3, <3>2, <3>3 DEF DepLeads
    <2>4. CASE p = at /\ e = d
      <3>1. nv = at => d.name \notin DOMAIN children
        BY <1>2, <1>6
      <3> HIDE DEF children
      <3> QED BY <1>4, <1>6, <2>4, <3>1 DEF DepLeads
    <2> QED BY <2>2, <2>3, <2>4
  <1>10. v.deps # {} => \A e \in v.deps : e.name \notin DOMAIN l.packages[v.at]
    <2> SUFFICES ASSUME NEW e \in w.deps, e # d PROVE e.name \notin DOMAIN children
      BY <1>4
    <2>1. e \in k.registry[at] /\ e.name \notin DOMAIN own
      BY DEF Growing
    <2> QED BY <1>6, <1>8, <2>1
  <1>11. v.deps \subseteq k.registry[v.at] /\ v.at \in DOMAIN l.packages
    BY <1>2, <1>4 DEF Growing
  <1>12. ReqsLead(l, ToSet(v.left)) /\ l.roots \subseteq Known(v)
    BY <1>3, <1>5 DEF Growing, ReqsLead
  <1> HIDE DEF s, l, at, children
  <1> QED BY <1>3, <1>5, <1>7, <1>9, <1>10, <1>11, <1>12 DEF Growing, s, l

LEMMA IntoSnapshotWhole ==
  ASSUME NEW k, NEW w, NEW s, Growing(k, w), MakesSnapshot(w, s)
  PROVE  Whole(k, s) /\ s.pending = <<>> /\ s.reqs = w.local.reqs
  <1> USE DEF MakesSnapshot
  <1> DEFINE l == w.local
  <1>1. IsSnapshot(l) /\ l.pending = <<>> /\ DOMAIN l.packages \subseteq DOMAIN k.registry
    BY DEF Growing, PackagesKnown
  <1>2. /\ IsSnapshot(s) /\ s.reqs = l.reqs /\ s.roots = l.roots
        /\ s.packages = l.packages /\ s.byName = DOMAIN l.packages /\ s.pending = <<>>
    BY <1>1 DEF IsSnapshot, SnapshotFields
  <1>3. Known(w) = DOMAIN l.packages /\ ToSet(w.left) = {} /\ ToSet(w.nodes) = {}
    BY SetOfEmpty DEF Known
  <1>4. ReqsLead(s, ToSet(s.pending)) /\ PackagesKnown(k, s.packages, {}) /\ s.roots \subseteq DOMAIN s.packages
    BY <1>2, <1>3 DEF Growing, ReqsLead, PackagesKnown
  <1>5. <<>> \in Seq(DOMAIN k.registry)
    OBVIOUS
  <1> HIDE DEF l
  <1> QED BY <1>1, <1>2, <1>4, <1>5 DEF Growing, Whole, l

-----------------------------------------------------------------------------
(* The steps of the tasks                                                  *)

\* One task goes on, and the rest stays as good as it is.
LEMMA OneTask ==
  ASSUME SnapshotInv, NEW t \in Task, NEW to, Moves(t, to), case' = case, Whole(case, snapshot'),
         ~Corrupt(lockfile'),
         to = "caching" => Growing(case, task'[t]),
         to \in Written => Whole(case, task'[t].local) /\ task'[t].local.pending = <<>>,
         to \in {"installing", "installed"} => Job(t).kind = "install",
         NoInstaller => snapshot'.pending = <<>> /\ to # "panicked",
         OnlyAdds => \A u \in Task : Kept(u)'
  PROVE  SnapshotInv'
  <1>1. task'[t].pc = to /\ \A u \in Task \ {t} : task'[u] = task[u]
    BY DEF Moves
  <1>2. \A u \in Task : Job(u)' = Job(u)
    BY DEF Job
  <1>3. (OnlyAdds' <=> OnlyAdds) /\ (NoInstaller' <=> NoInstaller)
    BY <1>2 DEF OnlyAdds, NoInstaller
  <1>4. ClonesWhole'
    <2> SUFFICES ASSUME NEW u \in Task
                 PROVE  /\ task'[u].pc = "caching" => Growing(case, task'[u])
                        /\ task'[u].pc \in Written => Whole(case, task'[u].local) /\ task'[u].local.pending = <<>>
      BY DEF ClonesWhole
    <2>1. CASE u = t
      BY <1>1, <2>1
    <2>2. CASE u # t
      BY <1>1, <2>2 DEF SnapshotInv, ClonesWhole
    <2> QED BY <2>1, <2>2
  <1>5. Installing'
    <2>1. \A u \in Task : task'[u].pc \in {"installing", "installed"} => Job(u).kind = "install"
      BY <1>1 DEF SnapshotInv, Installing
    <2>2. NoInstaller => snapshot'.pending = <<>> /\ \A u \in Task : task'[u].pc # "panicked"
      BY <1>1 DEF SnapshotInv, Installing
    <2> QED BY <1>2, <1>3, <2>1, <2>2 DEF Installing
  <1>6. AddsKept'
    BY <1>3 DEF AddsKept
  <1> QED BY <1>4, <1>5, <1>6 DEF SnapshotInv

\* What a task has kept it has kept as long as it and the snapshot stay what they are.
LEMMA StillKept ==
  ASSUME NEW u \in Task, Kept(u), case' = case, task'[u] = task[u],
         DOMAIN snapshot.reqs \subseteq DOMAIN snapshot'.reqs,
         task[u].pc \in Written \cup {"caching"} => DOMAIN snapshot'.reqs \subseteq DOMAIN task[u].local.reqs
  PROVE  Kept(u)'
  <1>1. Job(u)' = Job(u) /\ Reqs(u)' = Reqs(u)
    BY DEF Job, Reqs
  <1> QED BY <1>1 DEF Kept

\* The snapshot stays what it is.
LEMMA SameSnapshot ==
  ASSUME SnapshotInv, NEW t \in Task, NEW to, Moves(t, to), case' = case, snapshot' = snapshot,
         ~Corrupt(lockfile'),
         to = "caching" => Growing(case, task'[t]),
         to \in Written => Whole(case, task'[t].local) /\ task'[t].local.pending = <<>>,
         to \in {"installing", "installed"} => Job(t).kind = "install",
         NoInstaller => to # "panicked",
         OnlyAdds => Kept(t)'
  PROVE  SnapshotInv'
  <1>1. Whole(case, snapshot')
    BY DEF SnapshotInv
  <1>2. NoInstaller => snapshot'.pending = <<>>
    BY DEF SnapshotInv, Installing
  <1>3. ASSUME OnlyAdds, NEW u \in Task PROVE Kept(u)'
    <2>1. CASE u = t
      BY <1>3, <2>1
    <2>2. CASE u # t
      <3>1. Kept(u) /\ task'[u] = task[u]
        BY <1>3, <2>2 DEF SnapshotInv, AddsKept, Moves
      <3>2. task[u].pc \in Written \cup {"caching"} => DOMAIN snapshot'.reqs \subseteq DOMAIN task[u].local.reqs
        BY <3>1 DEF Kept
      <3> QED BY <3>1, <3>2, StillKept
    <2> QED BY <2>1, <2>2
  <1> QED BY <1>1, <1>2, <1>3, OneTask

\* A task that ends, or waits, has nothing to show.
LEMMA Resting ==
  ASSUME SnapshotInv, NEW t \in Task, NEW to, Moves(t, to), case' = case, snapshot' = snapshot,
         lockfile' = lockfile, to \in {"queued", "failed"}
  PROVE  SnapshotInv'
  <1>1. Kept(t)'
    BY DEF Kept, Moves, Written
  <1>2. ~Corrupt(lockfile')
    BY DEF SnapshotInv
  <1> QED BY <1>1, <1>2, SameSnapshot DEF Written

LEMMA StartSound ==
  ASSUME SnapshotInv, PermitInv, NEW t \in Task, Start(t)
  PROVE  SnapshotInv'
  <1>1. case' = case /\ snapshot' = snapshot /\ lockfile' = lockfile
    BY DEF Start
  <1>2. ~Corrupt(lockfile') /\ Fields
    BY <1>1 DEF SnapshotInv, PermitInv
  <1>3. CASE Job(t).reqs = {} /\ Ends(t, "done")
    <2>1. Moves(t, "done")
      BY <1>2, <1>3, Changes
    <2>2. Kept(t)'
      BY <1>1, <1>3, <2>1 DEF Kept, Moves, Job, Written
    <2> QED BY <1>1, <1>2, <2>1, <2>2, SameSnapshot DEF Written
  <1>4. CASE Goes(t, "queued")
    <2>1. Moves(t, "queued")
      BY <1>2, <1>4, Changes
    <2> QED BY <1>1, <2>1, Resting
  <1>5. ASSUME NEW to \in {"installing", "installed"}, Moves(t, to), Job(t).kind = "install" PROVE SnapshotInv'
    <2>1. Kept(t)'
      BY <1>5 DEF Kept, Moves, Written
    <2> QED BY <1>1, <1>2, <1>5, <2>1, SameSnapshot DEF Written
  <1>6. CASE /\ Job(t).kind = "install"
             /\ Becomes(t, [Idle EXCEPT !.pc = "installing", !.todo = NamesOf(Job(t).reqs), !.reqs = Job(t).reqs])
    <2> DEFINE w == [Idle EXCEPT !.pc = "installing", !.todo = NamesOf(Job(t).reqs), !.reqs = Job(t).reqs]
    <2>1. Becomes(t, w)
      BY <1>6
    <2>2. IsTask(w) /\ w.pc = "installing"
      BY IdleTask DEF IsTask, TaskFields
    <2> HIDE DEF w
    <2>3. Moves(t, "installing")
      BY <1>2, <2>1, <2>2, Changes
    <2> QED BY <1>5, <1>6, <2>3
  <1>7. CASE Job(t).kind = "install" /\ Goes(t, "installed")
    <2>1. Moves(t, "installed")
      BY <1>2, <1>7, Changes
    <2> QED BY <1>5, <1>7, <2>1
  <1> QED BY <1>3, <1>4, <1>6, <1>7 DEF Start

LEMMA CacheSound ==
  ASSUME SnapshotInv, PermitInv, NEW t \in Task, Cache(t)
  PROVE  SnapshotInv'
  <1>1. case' = case /\ snapshot' = snapshot /\ lockfile' = lockfile /\ task[t].pc \in Loading
    BY DEF Cache
  <1>2. PICK n \in task[t].todo : Becomes(t, [task[t] EXCEPT !.todo = @ \ {n}])
    BY DEF Cache
  <1> DEFINE w == task[t]
             v == [w EXCEPT !.todo = @ \ {n}]
  <1>3. IsTask(w) /\ Becomes(t, v)
    BY <1>2 DEF PermitInv, Fields
  <1> HIDE DEF w
  <1>4. /\ IsTask(v) /\ v.pc = w.pc /\ v.reqs = w.reqs /\ v.left = w.left /\ v.nodes = w.nodes
        /\ v.at = w.at /\ v.deps = w.deps /\ v.local = w.local
    BY <1>3 DEF IsTask, TaskFields
  <1> HIDE DEF v
  <1>5. Moves(t, w.pc) /\ task'[t] = v
    BY <1>3, <1>4, Changes DEF PermitInv
  <1>6. /\ w.pc = "caching" => Growing(case, w)
        /\ w.pc \in Written => Whole(case, w.local) /\ w.local.pending = <<>>
        /\ w.pc \in {"installing", "installed"} => Job(t).kind = "install"
        /\ NoInstaller => w.pc # "panicked"
        /\ OnlyAdds => Kept(t)
    BY DEF SnapshotInv, ClonesWhole, Installing, AddsKept, w
  <1>7. Growing(case, w) => Growing(case, v)
    BY <1>4 DEF Growing, Known
  <1>8. Kept(t) => Kept(t)'
    <2>1. Job(t)' = Job(t) /\ Reqs(t)' = Reqs(t)
      BY <1>1 DEF Job, Reqs
    <2> QED BY <1>1, <1>4, <1>5, <2>1 DEF Kept, w
  <1>9. ~Corrupt(lockfile')
    BY <1>1 DEF SnapshotInv
  <1> QED BY <1>1, <1>4, <1>5, <1>6, <1>7, <1>8, <1>9, SameSnapshot

\* A request or a resolution fails, and leaves the snapshot alone.
LEMMA FailsSound ==
  ASSUME SnapshotInv, PermitInv, NEW t \in Task, Ends(t, "failed"),
         UNCHANGED <<case, snapshot, lockfile>>
  PROVE  SnapshotInv'
  <1>1. Moves(t, "failed")
    BY Changes DEF PermitInv
  <1> QED BY <1>1, Resting

LEMMA InstalledSound ==
  ASSUME SnapshotInv, PermitInv, NEW t \in Task, Installed(t)
  PROVE  SnapshotInv'
  <1>1. case' = case /\ snapshot' = snapshot /\ lockfile' = lockfile
    BY DEF Installed
  <1>2. CASE At(t, "installing") /\ Goes(t, "installed")
    <2>1. Moves(t, "installed") /\ Job(t).kind = "install"
      BY <1>2, Changes DEF At, PermitInv, SnapshotInv, Installing
    <2>2. Kept(t)' /\ ~Corrupt(lockfile')
      BY <1>1, <2>1 DEF Kept, Moves, Written, SnapshotInv
    <2> QED BY <1>1, <2>1, <2>2, SameSnapshot DEF Written
  <1>3. CASE Goes(t, "queued")
    <2>1. Moves(t, "queued")
      BY <1>3, Changes DEF PermitInv
    <2> QED BY <1>1, <2>1, Resting
  <1> QED BY <1>2, <1>3 DEF Installed

\* The requirement leads to a version that has been published, and that is pending.
LEMMA AsPendingSound ==
  ASSUME SnapshotInv, PermitInv, CaseOK(case), NEW t \in Task, AsPending(t)
  PROVE  SnapshotInv'
  <1> DEFINE best(r) == Best(r, {x \in snapshot.byName : x[1] = r.name})
             found(r) == <<r.name, best(r)>>
             reached(r) == [snapshot EXCEPT !.reqs = With(@, r, found(r)), !.byName = @ \cup {found(r)},
                                            !.pending = Append(@, found(r))]
  <1>1. /\ task[t].pc = "installing" /\ UNCHANGED <<case, queue, memory, installed, lockfile>>
        /\ \E r \in task[t].reqs :
              \/ Ends(t, "panicked") /\ UNCHANGED snapshot
              \/ Ends(t, "failed") /\ UNCHANGED snapshot
              \/ best(r) # 0 /\ snapshot' = reached(r) /\ Becomes(t, [task[t] EXCEPT !.reqs = @ \ {r}])
    BY Zenon DEF AsPending, At
  <1> HIDE DEF best, found, reached
  <1>2. /\ ~Corrupt(lockfile') /\ Job(t).kind = "install" /\ Fields /\ Whole(case, snapshot)
        /\ ~OnlyAdds /\ ~NoInstaller
    BY <1>1 DEF SnapshotInv, Installing, PermitInv, OnlyAdds, NoInstaller
  <1>3. CASE Ends(t, "panicked") /\ UNCHANGED snapshot
    <2>1. Moves(t, "panicked")
      BY <1>2, <1>3, Changes
    <2> QED BY <1>1, <1>2, <1>3, <2>1, SameSnapshot DEF Written
  <1>4. CASE Ends(t, "failed") /\ UNCHANGED snapshot
    BY <1>1, <1>4, FailsSound
  <1>5. ASSUME NEW r \in task[t].reqs, best(r) # 0, snapshot' = reached(r),
               Becomes(t, [task[t] EXCEPT !.reqs = @ \ {r}])
        PROVE  SnapshotInv'
    <2> DEFINE s == snapshot
               l == snapshot'
               nv == found(r)
               w == [task[t] EXCEPT !.reqs = @ \ {r}]
    <2>0. Becomes(t, w)
      BY <1>5
    <2>1. IsTask(w) /\ w.pc = "installing"
      <3>1. task[t].pc = "installing" /\ IsTask(task[t])
        BY <1>1, <1>2 DEF Fields
      <3> QED BY <3>1 DEF IsTask, TaskFields
    <2> HIDE DEF w
    <2>2. Moves(t, "installing")
      BY <1>2, <2>0, <2>1, Changes
    <2>3. nv \in DOMAIN Registry /\ Matches(nv, r)
      <3> DEFINE known == {x \in snapshot.byName : x[1] = r.name}
      <3>1. known \subseteq DOMAIN Registry /\ Best(r, known) # 0
        BY <1>2, <1>5 DEF Whole, Registry, best
      <3> HIDE DEF known
      <3>2. <<r.name, Best(r, known)>> \in DOMAIN Registry /\ Matches(<<r.name, Best(r, known)>>, r)
        BY <3>1, BestFound
      <3> QED BY <3>2 DEF known, found, best
    <2> HIDE DEF nv
    <2>4. /\ IsSnapshot(l) /\ l.reqs = With(s.reqs, r, nv) /\ l.byName = s.byName \cup {nv}
          /\ l.pending = Append(s.pending, nv) /\ l.roots = s.roots /\ l.packages = s.packages
      <3>1. l = [s EXCEPT !.reqs = With(@, r, nv), !.byName = @ \cup {nv}, !.pending = Append(@, nv)]
        BY <1>5 DEF nv, reached
      <3> QED BY <1>2, <3>1 DEF Whole, IsSnapshot, SnapshotFields
    <2>5. l.pending \in Seq(DOMAIN case.registry) /\ ToSet(l.pending) = ToSet(s.pending) \cup {nv}
      <3> DEFINE R == DOMAIN case.registry
                 q == s.pending
      <3>1. q \in Seq(R) /\ nv \in R /\ l.pending = Append(q, nv)
        BY <1>2, <2>3, <2>4 DEF Whole, Registry
      <3> HIDE DEF R, q
      <3>2. Append(q, nv) \in Seq(R) /\ ToSet(Append(q, nv)) = ToSet(q) \cup {nv}
        BY <3>1, SetOfAppend
      <3> QED BY <3>1, <3>2 DEF R, q
    <2>6. ReqsLead(l, ToSet(l.pending))
      <3>1. DOMAIN l.reqs = DOMAIN s.reqs \cup {r} /\ \A x \in DOMAIN l.reqs : l.reqs[x] = IF x = r THEN nv ELSE s.reqs[x]
        BY <2>4 DEF With
      <3> QED BY <1>2, <2>3, <2>4, <2>5, <3>1 DEF Whole, ReqsLead
    <2>7. Whole(case, l)
      <3> HIDE DEF s, l
      <3> QED BY <1>2, <2>3, <2>4, <2>5, <2>6 DEF Whole, Registry, s
    <2> QED BY <1>1, <1>2, <2>2, <2>7, OneTask DEF Written
  <1> QED BY <1>1, <1>3, <1>4, <1>5

\* Unless something is removed the clone has what the snapshot has.
LEMMA CloneSound ==
  ASSUME SnapshotInv, PermitInv, NEW t \in Task, Clone(t)
  PROVE  SnapshotInv'
  <1> DEFINE removed == Job(t).kind = "set" /\ ~(DOMAIN snapshot.reqs \subseteq Job(t).reqs)
             s == IF removed THEN Empty ELSE snapshot
             new == Reqs(t) \ DOMAIN s.reqs
             v == task'[t]
  <1>1. /\ UNCHANGED <<case, snapshot, queue, memory, installed, lockfile>>
        /\ \/ Moves(t, "write") /\ UpToDate(s, Reqs(t)) /\ v.local = s
           \/ /\ Moves(t, "caching") /\ v.reqs = new /\ v.left = s.pending /\ v.nodes = <<>> /\ v.deps = {}
              /\ v.local = [s EXCEPT !.pending = <<>>]
    BY CloneMoves, Zenon DEF PermitInv
  <1>2. Whole(case, s)
    BY EmptyWhole DEF SnapshotInv
  <1>3. OnlyAdds => s = snapshot
    BY DEF OnlyAdds
  <1>4. ~Corrupt(lockfile') /\ Job(t)' = Job(t) /\ Reqs(t)' = Reqs(t)
    BY <1>1 DEF SnapshotInv, Job, Reqs
  <1> HIDE DEF s, v, removed
  <1>5. CASE Moves(t, "write") /\ UpToDate(s, Reqs(t)) /\ v.local = s
    <2>1. s.pending = <<>> /\ Reqs(t) \subseteq DOMAIN s.reqs
      BY <1>5 DEF UpToDate
    <2>2. OnlyAdds => Kept(t)'
      BY <1>1, <1>3, <1>4, <1>5, <2>1 DEF Kept, Moves, Written, v
    <2> QED BY <1>1, <1>2, <1>4, <1>5, <2>1, <2>2, SameSnapshot DEF v
  <1>6. CASE /\ Moves(t, "caching") /\ v.reqs = new /\ v.left = s.pending /\ v.nodes = <<>> /\ v.deps = {}
             /\ v.local = [s EXCEPT !.pending = <<>>]
    <2> DEFINE l == v.local
    <2>1. /\ IsSnapshot(l) /\ l.reqs = s.reqs /\ l.roots = s.roots
          /\ l.packages = s.packages /\ l.byName = s.byName /\ l.pending = <<>>
      BY <1>2, <1>6 DEF Whole, IsSnapshot, SnapshotFields
    <2>2. Growing(case, v)
      <3>1. ToSet(v.nodes) = {} /\ Known(v) = DOMAIN s.packages /\ <<>> \in Seq(DOMAIN case.registry)
        BY <1>6, <2>1, SetOfEmpty DEF Known
      <3>2. ReqsLead(l, ToSet(v.left)) /\ PackagesKnown(case, l.packages, ToSet(v.nodes)) /\ l.roots \subseteq Known(v)
        BY <1>2, <1>6, <2>1, <3>1 DEF Whole, ReqsLead, PackagesKnown
      <3> QED BY <1>2, <1>6, <2>1, <3>1, <3>2 DEF Whole, Growing
    <2>3. OnlyAdds => Kept(t)'
      BY <1>1, <1>3, <1>4, <1>6, <2>1 DEF Kept, Moves, Written, v
    <2> QED BY <1>1, <1>4, <1>6, <2>2, <2>3, SameSnapshot DEF v, Written
  <1> QED BY <1>1, <1>5, <1>6

\* A step of a resolution keeps the clone growing.
LEMMA StillGrowing ==
  ASSUME SnapshotInv, NEW t \in Task, Moves(t, "caching"), UNCHANGED <<case, snapshot, lockfile>>,
         task[t].pc = "caching", Growing(case, task'[t]),
         DOMAIN task[t].local.reqs \subseteq DOMAIN task'[t].local.reqs,
         \A r \in task[t].reqs : r \in DOMAIN task'[t].local.reqs \cup task'[t].reqs
  PROVE  SnapshotInv'
  <1>1. OnlyAdds => Kept(t)'
    <2> SUFFICES ASSUME OnlyAdds PROVE Kept(t)'
      OBVIOUS
    <2>1. Kept(t) /\ Reqs(t)' = Reqs(t)
      BY DEF SnapshotInv, AddsKept, Reqs, Job
    <2> QED BY <2>1 DEF Kept, Moves, Written
  <1>2. ~Corrupt(lockfile')
    BY DEF SnapshotInv
  <1> QED BY <1>1, <1>2, SameSnapshot DEF Written

LEMMA ResolveSound ==
  ASSUME SnapshotInv, PermitInv, CaseOK(case), NEW t \in Task, Resolve(t)
  PROVE  SnapshotInv'
  <1> DEFINE w == task[t]
             v == task'[t]
  <1>1. Fields /\ w.pc = "caching" /\ UNCHANGED <<case, snapshot, lockfile>> /\ Growing(case, w)
    <2>1. Fields
      BY DEF PermitInv
    <2>2. w.pc = "caching" /\ UNCHANGED <<case, snapshot, memory, installed, lockfile>>
      BY <2>1, ResolveMoves
    <2> QED BY <2>1, <2>2 DEF SnapshotInv, ClonesWhole
  <1>2. CASE Fails(t)
    BY <1>1, <1>2, FailsSound DEF Fails
  <1>3. ASSUME NEW r, Chosen(w, r)[2] # 0
        PROVE  Chosen(w, r) \in DOMAIN case.registry /\ Matches(Chosen(w, r), r)
    <2> DEFINE known == Known(w)
    <2>1. known \subseteq DOMAIN Registry
      <3> DEFINE nodes == w.nodes
      <3>1. nodes \in Seq(DOMAIN case.registry) /\ DOMAIN w.local.packages \subseteq DOMAIN case.registry
        BY <1>1 DEF Growing, PackagesKnown
      <3> HIDE DEF nodes
      <3>2. ToSet(nodes) \subseteq DOMAIN case.registry
        BY <3>1, SetOfElements
      <3> QED BY <3>1, <3>2 DEF Known, Registry, nodes
    <2>2. Chosen(w, r) = <<r.name, Best(r, known)>>
      BY DEF Chosen
    <2> HIDE DEF known, w
    <2>3. Best(r, known) # 0
      BY <1>3, <2>2
    <2> QED BY <2>1, <2>2, <2>3, BestFound DEF Registry
  <1>4. CASE AddReq(t) /\ ~Fails(t)
    <2>1. Moves(t, "caching") /\ \E r \in w.reqs : Chosen(w, r)[2] # 0 /\ AddsReq(w, v, r, Chosen(w, r))
      BY <1>1, <1>4, AddReqMoves
    <2> HIDE DEF w, v
    <2>2. PICK r \in w.reqs : Chosen(w, r)[2] # 0 /\ AddsReq(w, v, r, Chosen(w, r))
      BY <2>1
    <2>3. Growing(case, v) /\ DOMAIN v.local.reqs = DOMAIN w.local.reqs \cup {r}
      BY <1>1, <1>3, <2>2, AddReqGrows
    <2>4. v.reqs = w.reqs \ {r}
      BY <2>2 DEF AddsReq
    <2> QED BY <1>1, <2>1, <2>3, <2>4, StillGrowing DEF w, v
  <1>5. CASE AddPending(t)
    <2>1. Moves(t, "caching") /\ AddsPending(w, v)
      BY <1>1, <1>5, AddPendingMoves
    <2> HIDE DEF w, v
    <2>2. Growing(case, v) /\ v.local.reqs = w.local.reqs /\ v.reqs = w.reqs
      BY <1>1, <2>1, AddPendingGrows DEF AddsPending
    <2> QED BY <1>1, <2>1, <2>2, StillGrowing DEF w, v
  <1>6. CASE NextPackage(t)
    <2>1. Moves(t, "caching") /\ LooksAt(case, w, v)
      BY <1>1, <1>6, NextPackageMoves
    <2> HIDE DEF w, v
    <2>2. Growing(case, v) /\ v.local.reqs = w.local.reqs /\ v.reqs = w.reqs
      BY <1>1, <2>1, NextPackageGrows DEF LooksAt
    <2> QED BY <1>1, <2>1, <2>2, StillGrowing DEF w, v
  <1>7. CASE AddDep(t) /\ ~Fails(t)
    <2>1. Moves(t, "caching") /\ \E d \in w.deps : Chosen(w, d)[2] # 0 /\ AddsDep(w, v, d, Chosen(w, d))
      BY <1>1, <1>7, AddDepMoves
    <2> HIDE DEF w, v
    <2>2. PICK d \in w.deps : Chosen(w, d)[2] # 0 /\ AddsDep(w, v, d, Chosen(w, d))
      BY <2>1
    <2>3. Growing(case, v) /\ v.local.reqs = w.local.reqs /\ v.reqs = w.reqs
      <3>1. v.reqs = w.reqs
        BY <2>2 DEF AddsDep
      <3> QED BY <1>1, <1>3, <2>2, <3>1, AddDepGrows
    <2> QED BY <1>1, <2>1, <2>3, StillGrowing DEF w, v
  <1>8. CASE IntoSnapshot(t)
    <2>1. Moves(t, "resolved") /\ MakesSnapshot(w, v.local)
      BY <1>1, <1>8, IntoSnapshotMoves
    <2> HIDE DEF w, v
    <2>2. Whole(case, v.local) /\ v.local.pending = <<>> /\ v.local.reqs = w.local.reqs /\ w.reqs = {}
      <3> DEFINE l == v.local
      <3>1. MakesSnapshot(w, l) /\ w.reqs = {}
        BY <2>1 DEF MakesSnapshot
      <3> HIDE DEF l
      <3>2. Whole(case, l) /\ l.pending = <<>> /\ l.reqs = w.local.reqs
        BY <1>1, <3>1, IntoSnapshotWhole
      <3> QED BY <3>1, <3>2 DEF l
    <2>3. OnlyAdds => Kept(t)'
      <3> SUFFICES ASSUME OnlyAdds PROVE Kept(t)'
        OBVIOUS
      <3>1. Kept(t) /\ Reqs(t)' = Reqs(t)
        BY <1>1 DEF SnapshotInv, AddsKept, Reqs, Job
      <3> QED BY <1>1, <2>1, <2>2, <3>1 DEF Kept, Moves, Written, w, v
    <2>4. ~Corrupt(lockfile')
      BY <1>1 DEF SnapshotInv
    <2> QED BY <1>1, <2>1, <2>2, <2>3, <2>4, SameSnapshot DEF v
  <1> QED BY <1>2, <1>4, <1>5, <1>6, <1>7, <1>8 DEF Resolve

\* What is written to the lockfile loads.
LEMMA ClearSound ==
  ASSUME SnapshotInv, PermitInv, NEW t \in Task, Clear(t)
  PROVE  SnapshotInv'
  <1> DEFINE s == task[t].local
  <1>1. /\ task[t].pc = "resolved" /\ case' = case /\ snapshot' = snapshot
        /\ IF case.locked /\ ~CanLock(s) THEN TRUE
           ELSE Goes(t, "write") /\ lockfile' = IF case.locked THEN Locked(lockfile, s) ELSE lockfile
    BY DEF Clear, At
  <1>2. Whole(case, s) /\ s.pending = <<>>
    BY <1>1 DEF SnapshotInv, ClonesWhole, Written
  <1>3. CanLock(s)
    BY <1>2, NothingPending
  <1>4. ~Corrupt(lockfile')
    BY <1>1, <1>2, <1>3, LockedLoads DEF SnapshotInv
  <1>5. Moves(t, "write") /\ task'[t] = [task[t] EXCEPT !.pc = "write"] /\ IsTask(task[t])
    BY <1>1, <1>3, Changes DEF PermitInv, Fields
  <1>6. task'[t].local = s
    BY <1>5 DEF IsTask, TaskFields
  <1>7. OnlyAdds => Kept(t)'
    <2> SUFFICES ASSUME OnlyAdds PROVE Kept(t)'
      OBVIOUS
    <2>1. Kept(t) /\ Reqs(t)' = Reqs(t)
      BY <1>1 DEF SnapshotInv, AddsKept, Reqs, Job
    <2> QED BY <1>1, <1>5, <1>6, <2>1 DEF Kept, Moves, Written
  <1> QED BY <1>1, <1>2, <1>4, <1>5, <1>6, <1>7, SameSnapshot

\* No other task has a clone when one is written back.
LEMMA WriteBackSound ==
  ASSUME SnapshotInv, PermitInv, NEW t \in Task, WriteBack(t)
  PROVE  SnapshotInv'
  <1> DEFINE s == task[t].local
             to == IF Job(t).kind = "add" /\ case.locked THEN "lock" ELSE "done"
  <1>1. /\ task[t].pc = "write" /\ case' = case /\ lockfile' = lockfile /\ snapshot' = s
        /\ Ends(t, to)
    BY DEF WriteBack, At
  <1>2. Whole(case, s) /\ s.pending = <<>>
    BY <1>1 DEF SnapshotInv, ClonesWhole, Written
  <1>3. Moves(t, to) /\ to \in {"lock", "done"}
    BY <1>1, Changes DEF PermitInv
  <1> HIDE DEF to
  <1>4. \A u \in Task \ {t} : task[u].pc \notin Written \cup {"caching"}
    BY <1>1 DEF PermitInv, Queued, Asking, Written
  <1>5. ASSUME OnlyAdds, NEW u \in Task PROVE Kept(u)'
    <2>1. Kept(t) /\ Kept(u)
      BY <1>5 DEF SnapshotInv, AddsKept
    <2>2. DOMAIN snapshot.reqs \subseteq DOMAIN s.reqs /\ Reqs(t) \subseteq DOMAIN s.reqs /\ Reqs(t) = Job(t).reqs
      BY <1>1, <1>5, <2>1 DEF Kept, Written, OnlyAdds, Reqs
    <2>3. CASE u = t
      <3>1. Job(t)' = Job(t)
        BY <1>1 DEF Job
      <3> QED BY <1>1, <1>3, <2>2, <2>3, <3>1 DEF Kept, Moves, Written
    <2>4. CASE u # t
      <3>1. task'[u] = task[u]
        BY <1>3, <2>4 DEF Moves
      <3> QED BY <1>1, <1>4, <2>1, <2>2, <2>4, <3>1, StillKept
    <2> QED BY <2>3, <2>4
  <1>6. ~Corrupt(lockfile')
    BY <1>1 DEF SnapshotInv
  <1> QED BY <1>1, <1>2, <1>3, <1>5, <1>6, OneTask DEF Written

LEMMA LockSound ==
  ASSUME SnapshotInv, PermitInv, NEW t \in Task, Lock(t)
  PROVE  SnapshotInv'
  <1>1. /\ task[t].pc = "lock" /\ case' = case /\ snapshot' = snapshot /\ Whole(case, snapshot)
        /\ \/ CanLock(snapshot) /\ Ends(t, "done") /\ lockfile' = Locked(lockfile, snapshot)
           \/ ~CanLock(snapshot) /\ Ends(t, "panicked") /\ lockfile' = lockfile
    BY DEF Lock, At, SnapshotInv
  <1>2. ~Corrupt(lockfile')
    BY <1>1, LockedLoads DEF SnapshotInv
  <1>3. ~NoInstaller \/ CanLock(snapshot)
    BY <1>1, NothingPending DEF SnapshotInv, Installing
  <1>4. ASSUME NEW to \in {"done", "panicked"}, Moves(t, to), NoInstaller => to = "done" PROVE SnapshotInv'
    <2>1. OnlyAdds => Kept(t)'
      <3> SUFFICES ASSUME OnlyAdds PROVE Kept(t)'
        OBVIOUS
      <3>1. Kept(t) /\ Job(t)' = Job(t)
        BY <1>1 DEF SnapshotInv, AddsKept, Job
      <3> QED BY <1>1, <1>4, <3>1 DEF Kept, Moves, Written
    <2> QED BY <1>1, <1>2, <1>4, <2>1, SameSnapshot DEF Written
  <1>5. (CanLock(snapshot) /\ Moves(t, "done")) \/ (~CanLock(snapshot) /\ Moves(t, "panicked"))
    BY <1>1, Changes DEF PermitInv
  <1> QED BY <1>3, <1>4, <1>5

LEMMA SnapshotNext ==
  ASSUME \A k \in Cases : CaseOK(k), SnapshotInv, PermitInv, [Next]_vars
  PROVE  SnapshotInv'
  <1>1. CASE UNCHANGED vars
    BY <1>1 DEF vars, SnapshotInv, ClonesWhole, Installing, NoInstaller, AddsKept, Kept, OnlyAdds, Reqs, Job
  <1>2. ASSUME NEW t \in Task, Step(t) PROVE SnapshotInv'
    <2>1. CaseOK(case)
      BY DEF SnapshotInv
    <2>2. RequestFails(t) => SnapshotInv'
      BY FailsSound DEF RequestFails
    <2> QED BY <1>2, <2>1, <2>2, StartSound, CacheSound, AsPendingSound, InstalledSound, CloneSound,
               ResolveSound, ClearSound, WriteBackSound, LockSound DEF Step
  <1> QED BY <1>1, <1>2 DEF Next
=============================================================================
