# Verification of the server based Deno runtime

This directory holds a TLA+ model of the runtime in this repository: modules
that describe its components, TLC configurations that model-check them on small
instances, and proofs, checked by TLAPS, that the main safety properties of
most of them hold for every value of their parameters.

## 1. The system

A server process accepts HTTP connections and forwards the requests to *main
workers*: JavaScript runtimes on the server's own thread that run `api/main`.
A main worker does not answer itself.  It keeps, per service path, a pool of
*user workers* (one OS thread and one JavaScript runtime each), picks one for a
request and forwards the request to it through the Rust side of the runtime.

    client --TCP--> Server (server.rs)
      --WorkerRequestMsg--> dispatcher of a main worker (worker_ctx.rs)
      --unix socket pair--> main worker's JavaScript (api/main)
      --op_user_worker_fetch_send / UserWorkerMsgs--> pool task (worker_ctx.rs)
      --WorkerRequestMsg--> dispatcher of a user worker
      --unix socket pair--> user worker's JavaScript

The server, the main workers, the pool task and the task of every request share
one single-threaded tokio runtime (`LocalSet`); user workers run on threads of
their own and talk to the rest through channels and sockets.

A worker's code comes through the crate `module_fetcher`: remote modules from
the HTTP cache or the network, transpiled by way of the emit cache, with
analyses kept in SQLite databases.  The crate also carries the npm and Node
support of the Deno command line: the registry's information, the resolution of
a dependency graph with its snapshot and lockfile, package folders, and the
resolution and translation of CommonJS modules.  The base crate calls only a
part of that; it is modelled as the library it is.

### Components

| component | source | state it keeps | what is hard | modules |
|---|---|---|---|---|
| User worker pool | `base/src/worker_ctx.rs`, `sb_worker_context/essentials.rs` | tables `user_workers` and `handles` per key, the message channel | requests in every queue while their worker is shut down; threads that end or panic by themselves; two shutdowns of one key; timers | `UserWorkers`, `WorkerPool`, `WorkerPoolProofs` |
| Operations of main workers on the pool | `sb_workers/lib.rs`, `sb_workers/user_workers.js` | resources: a built request, its body's sender, a response's body | a body channel of capacity 1, end of stream against closed channel | `WorkerPool`, `RequestBody`, `RequestsProofs` |
| Main worker | `api/main/*.ts` | Map `workerPool`: service path to array of workers | awaits in the middle of updates, with a mutex that only some operations take | `MainWorker`, `MainWorkerProofs` |
| Server | `base/src/server.rs`, `base/src/commands.rs` | the list of main workers, connections | an even rotation, main workers that end, the end with connections open | `Server`, `RequestsProofs` |
| Emit cache | `emit.rs`, `cache/emit.rs`, `cache/disk_cache.rs` | two files per module | readers and writers between the two | `EmitCache`, `CachesProofs` |
| File fetcher, HTTP cache | `file_fetcher.rs`, `cache/http_cache.rs` | in-memory cache, two files per URL | redirect chains and circles, mixes of memory and disk, ETags | `FileFetcher`, `CachesProofs` |
| Freshness of responses | `http_util.rs` | headers, the clock | unsigned durations, a clock that is set back | `CacheSemantics`, `CachesProofs` |
| SQLite caches | `cache/cache_db.rs`, `cache/parsed_source.rs` | a connection, a file, its release | change of version, recovery, ends at any statement | `CacheDb`, `CachesProofs` |
| Incremental cache | `cache/incremental.rs` | table, channel, task | what is recorded behind the caller's back | `IncrementalCache`, `CachesProofs` |
| npm resolution graph | `npm/resolution/graph.rs`, `snapshot.rs` | nodes, paths, pending peers, snapshot | peer dependencies, circles, copies | `NpmGraph` |
| npm registry information | `npm/registry.rs` | memory, file, reloaded packages | callers that overlap, reloads | `NpmRegistry`, `NpmProofs` |
| npm resolution state, installer | `npm/resolution/mod.rs`, `npm/installer.rs`, `npm/resolvers/mod.rs` | snapshot, update queue, lockfile | clone, await, write back | `NpmResolution`, `NpmResolutionProofs` |
| npm package folders | `npm/cache.rs`, `npm/tarball.rs`, `npm/resolvers/*.rs`, `util/fs.rs` | folders, lock files, `.initialized` | programs that share folders and are killed | `NpmFiles`, `NpmFilesProofs` |
| npm names, module links | `npm/resolution/mod.rs`, `npm/cache.rs`, `npm/resolvers/local.rs` | none; links of `node_modules` | a text that has to be read back by somebody else | `NpmNames`, `NpmModules`, `NpmNamesProofs`, `NpmProofs` |
| Node compatibility | `node/mod.rs` | the analysis of reexports | probing of files, names that clash | `NodeResolve`, `NpmProofs` |
| Files of a project | `util/fs.rs`, `args/config_file.rs` | none | overlapping includes and excludes, symlinks | `Files`, `NpmProofs` |
| Edge runtime, module loader, network of a worker, configuration and paths, permissions, command line, examples | | | | not modelled or a single step, see section 6 |

Sources without a crate are in `src/crates/module_fetcher/src`.  PROJECT.json
lists every component with what is modelled of it and why the rest is not, and
the hazards of the code, each at its line with the properties that watch it.

## 2. How the project is built

Every module is about one component and stands for itself: its state as
VARIABLES, `Init`, one action per handler or per step between two awaits,
`Next`, `Spec`, and the properties at its end.  What the code says in words, in
a comment, a test or a message, is quoted where a property states it.

- `UserWorkers` is the abstract specification of the pool, `WorkerPool` the
  program; the refinement is checked by TLC and proved.
- A module whose input is data (a registry, a tree of files, a response) takes
  the inputs as a constant `Cases` and has the one at hand as a variable that
  never changes, so that one run goes through all of them.
- `Requests`, `Caches` and `Npm` put components side by side that share no state,
  so that one run and one specification are about all of them: a behaviour is one
  of a single *part*, as the variable `part` says, the parts share the variables
  that have one name, and those a part does not have keep their first value.
  `Requests` has the server, the main worker and the request body; `Caches` the
  five caches; `Npm` the registry, the resolution, the folders, the names, the
  links, the Node support and the files of a project.
- An MC module extends a module with its instances for TLC, and with an ASSUME for
  what the theorems assume of a constant.  `MCWorkerPool`, `MCMainWorker`,
  `MCRequestBody` and `MCNpmGraph` are about a component, the others about a
  composition.
- A module ending in `Proofs` has the inductive invariants and the theorems:
  `WorkerPoolProofs`, `MainWorkerProofs`, `NpmFilesProofs`, `NpmResolutionProofs`
  and `NpmNamesProofs` of a component, `RequestsProofs`, `CachesProofs` and
  `NpmProofs` of a composition, which cites those of its components and proves
  the rest.

What would come next: the clock of a worker's lifetime, that is `expireDate` with
its 500 ms margin against the timer of the Rust side; the op state around
`op_net_accept`; the receiving side of a response body; and proofs about peer
dependencies, that is the invariants of `NpmGraph`.

## 3. Modules

### UserWorkers: what the pool promises

A worker is `absent`, then `live`; it may be `closing` (no new requests) and then
is `retired`, or it `died` by itself.  A request is `none`, `pending`,
`admitted` to a worker, `answered` or `refused`.  `Admit` needs a worker that is
not closing or retired, `Retire` a closing worker without admitted requests,
`Answer` one that is alive.  A request that waits or was admitted may be refused at
any time (`Refuse`), since its own body or connection may fail; what waits, and only
that, is refused all at once when the pool gives up (`Abandon`).

### WorkerPool: the Rust pool

| variable | code |
|---|---|
| `process` | the server process; a panic under `panic = "abort"` (the release profile of Cargo.toml) takes it down |
| `pool`, `inbox` | the task of `create_user_worker_pool` and its unbounded channel |
| `registered`, `handles` | the maps `user_workers` and `handles` |
| `drain`, `joined` | the task a `Shutdown` message spawns, with the handles it took |
| `terminate` | the oneshot channel between the pool and a worker's thread |
| `thread`, `timer` | the worker's thread and the lifetime timer on it |
| `stage`, `target`, `caller` | a request: queued in the channel, routed by its task, offered to the worker's accept loop, in the handler, answered, broken, and so on |
| `mains`, `held` | main workers, and the keys they know |

An action is what one task does between two awaits; since the server has one
thread, nothing else of it runs in between.  Worker threads take their steps at
any moment.  A main worker's JavaScript is the environment: it may call create,
fetch and shutdown in any order.  A request in `FragileRequests` may fail by itself
while its worker lives (`SendFails`): its body stream ends with an error, or the
worker closes the connection.

Bounds: `Worker` (keys that can be created), `Request`, and `MaxInbox`, which
only stops main workers, never the timers: the pool's channel is unbounded.

### MainWorker: api/main

JavaScript runs from one await to the next; `running` is the call whose code
runs.  Arrays are objects with an identity, since `addWorkerToPool` and
`callWorker` hold an array across an await and put it into the Map afterwards.
`mutex` is the queue of `runExclusive`.  Of the Rust pool the module keeps the
set of registered workers and whether the pool still serves.  Time is left out:
`ExpireDate` and `LifetimeEnds` happen at any moment, which includes every order
the clock allows.  Bounds: `Worker`, `Call`, `InitAdd`, `ApiAdd`, `MaxAdd`; there
are as many `Array` objects as can be in use at once.

### RequestBody: the body of a forwarded request

`UserWorker.fetch` guesses from two headers whether a request has a body
(`HasBody`), builds the request with a body resource (`Build`), pipes the
client's chunks into the resource (`Write`, `PipeEnds`, `PipeFails`) and only then
sends the request (`FetchSend`), whose connection polls the other end of the
channel (`PollNext`, `Ends`).  A chunk is its number, `channel` the
channel of capacity one.  Two parts of the way are not in this repository and
are kept as general as their contract: the sink of `writableStreamForRid`, which
may or may not shut its resource down before it closes it (`shuts`), and hyper,
which stops reading at the announced length.

### Server: main workers and connections

`txs` is the list the accept loop rotates before every accept, `accept` the main
worker the next connection gets, `conn` a connection's request on its way.  A
main worker whose event loop ends leaves `running` but not `txs`, as in the code.

### EmitCache: transpiled code on disk

An emit is two files, `meta` (hashes of the source and of the emitted code with
the release's version) and `emit`; each is replaced in one step by
`atomic_write_file`, the two are not.  A loader reads and writes them one after
the other (`ReadMeta`, `ReadEmit`, `WriteMeta`, `WriteEmit`), may fail at each
write and may stop at any moment; loaders of several releases share the files.
A hash is modelled as the tuple of what it is computed from, so two different
inputs never collide: that is the assumption about the hash function.

### FileFetcher: remote modules

`task[l]` is the fetch a loader is at: `fetch_remote` with its specifier and its
redirect limit, and within it `fetch_cached` with a link and a limit of its own,
first to use the cache and again to find what a 304 validated.  The entry of a
URL in the HTTP cache is again two files, `content` and `metadata`, read and
written one after the other without a lock; a redirect is an entry with a
location.  `memory[l]` is the loader's in-memory cache, lost with its worker.
`Served` gives the responses a URL has over time; `ServerChanges` moves on to the
next.  `asked` remembers what code was current when a loader began, only to state
`ReloadIsFresh`.  A location is where it leads to and whether it is written as a
`bare` path, which the network follows and the cache does not.  Bounds: two
loaders, three URLs, one redirect (10 in the code).

### CacheDb: the SQLite caches

Each module loader makes its own `CacheDB` (a handle) on a file in DENO_DIR, so
that loaders of one server, of several servers and of several releases meet in
one file.

| variable | code |
|---|---|
| `file`, `disk` | the file at the path, and the files there are: release (`CLI_VERSION`), rows, whether it is a database |
| `policy` | `on_failure` of the configuration |
| `conn`, `lock` | the `OnceCell` of a handle and the mutex around it, with its holder: the thread of `from_path` or an analysis |
| `at`, `stage`, `tries`, `cleared` | `open_connection`: the file the attempt has open, the step it is at, the attempts made, the tables `on_version_change` has emptied |
| `pc`, `on`, `key`, `src`, `result` | an `analyze` call of parsed_source.rs |

`Open`, `SameVersion` or `OtherVersion`, `Clear` for each DELETE, `Mark` and
`Preheat` are an attempt; `AttemptFails` ends it, at any of these steps, and
`AfterFailure` says what follows: another attempt, `Remove` and a third one, the
fallback of `on_failure`.  A statement is a step, since SQLite commits each one by
itself; several that change nothing (create the tables where they are missing,
read the version) are one step.  A handle `Ends` at any moment, with its worker
or its server, and what it has done so far stays.  As for Unix, a file that is
removed lives on with the connections that have it, and an in-memory database
is a file without a path.  A statement of an analysis and the mutex around it
are one step, except when the analysis is the one that opens the connection: it
then keeps the mutex from `Begins` to its statement.  The thread of `from_path`
is left out once somebody else has set the cell (it does nothing then), and
`policy` is chosen when it is first looked at.  Bounds: `Handle`, `Job`, `Inode`,
`MaxErrors`.

`Overlap` is a constant: whether handles of two releases may be there at once.
With `Overlap = TRUE` neither `RowsOfVersion` nor `ResultsRight` holds: a handle
that is connected does not look at the version again, and stores and finds rows
in a file that another release has cleared and marked since.  The
properties are about servers of different releases that follow each other.

### CacheSemantics: may a cached response be used

A response is a record of what the code reads from its headers, `Absent` where
there is none, and `now` the clock, which `Tick` moves on or back.  Durations are
unsigned, as in the code: `Since` is what `SystemTime::duration_since` with its
fallback gives.  `Age`, `MaxAge`, `TimeToLive` and `ShouldUse` are the methods of
the struct; `Answer` is what the file fetcher makes of them, with "panic" for an
age that does not fit into a `Duration` (`MaxSecs`).

### IncrementalCache: what need not be done again

`prog[p]` is the cache of a program: the rows it read when it started
(`previous`), its channel and its task.  `UpdateFile` sends, `Receive` writes into
the table, `Wait` and `WaitReturns` are the two halves of `wait_completion`, and
`Stop` ends a program anywhere.  `recorded` is a history variable of what
`update_file` was called with; `owed`, in `prog`, of what a first call of
`wait_completion` has promised.  A text in `Big` has a hash above `i64::MAX`, which
rusqlite refuses to write.  Bounds: `MaxSent`, `MaxWaits`.

### NpmGraph: the resolution of npm packages

The algorithm of `graph.rs`, whole.  `Begin` takes a batch of requirements to the
graph made from the snapshot (`FromSnapshot`) and adds its roots (`AddReq`);
`ResolveOne` analyses the next path in the queue: every entry of its package
(`ResolveEntry`), peers by looking up the ancestors (`ResolvePeerDep`,
`FindPeerInNode`, `FindPeerInRoots`), and for a peer that is found the nodes
between get new identities (`SetNewPeerDep`, `AddPeerDeps`); `Finish` makes the
next snapshot (`IntoSnapshot`, with `PkgIdOf` and `CopyIndex`); `Abandon` is the end
of a batch that failed.  Names, versions and specifiers are numbers in the order
of their texts, a requirement is the set of versions it matches, and the hash of
an identifier is the tuple it is computed from.  The 34 tests of `graph.rs` were
run through the model as cases, with the results the tests expect.  Bound:
`MaxPaths`, which a property says is never met.

### NpmRegistry: what the registry says of a package

`load[c][i]` is a call of `maybe_package_info`, one action per stage between two
awaits: `Lookup` in `memory`, `Choose` of the source by cache setting and
`reloaded`, `ReadFile`, `Answer` or `NoAnswer`, `SaveFile`, `Store`.  A caller is a
batch of `NpmResolution`, one at a time, which clears the memory when it ends, or
the installer, which only asks; where `cache_in_parallel` asks for one package
after the other it stops at the first that fails.  Information is the number of the latest release
of a package; `Publish` adds one.  `SameInfo` is about a batch and needs no condition; that
`--reload` uses nothing from before the program holds only where batches are the
only callers, each asking for a package once, and all are answered
(`OrderlyReloadIsFresh`, and section 4 for what happens otherwise).  Bound:
`Releases`.

### NpmResolution: the snapshot and the tasks that change it

`task[t]` is where a task is in `add_package_reqs`, `set_package_reqs` or
`ensure_top_level_install`.  Who resolves has the permit at the head of `queue`,
works on a clone (`Clone`, `Resolve`, `Clear`) and writes it back (`WriteBack`);
`AsPending` adds to the snapshot under its lock alone.  `Resolve` is
`add_package_reqs_to_snapshot` step by step: requirements (`AddReq`) and what was
pending (`AddPending`), then package by package (`NextPackage`), when the infos of
its dependencies are there (`Cache`), every dependency (`AddDep`); `IntoSnapshot` asks
for all infos once more.  Other tasks run in between.  Peers are NpmGraph's: here
a package is a name and a version, and its dependencies are looked at once.
`Locked` writes the lockfile, `FromLockfile` and `Corrupt` are the next program's
start.  `CaseOK` says what a registry and the lockfile at the start are like.

### NpmFiles: package folders

`cache[n]` is the folder of a package in the global cache, with the file
`.deno_sync_lock` that marks what is not whole, `modules[n]` the one in
`node_modules/.deno`, with `.initialized` that marks what is; `flag` the lock of
node_modules.  `program[p]` goes through `cache_packages`: packages, copies,
links; `job[p][n]` through `ensure_package` (`Look`, `SeeLock`, `Fetch`,
`MakeFolder`, `LockFile`, `Extract`, `Write`, `Unlock`) and the copy into
node_modules (`CopyFile`, `CopyRest`, `LinkCopy`, `Initialized`).  The content of a
folder is "none", "whole", "part" or whoever is writing it.  `Killed` stops a
program at a step in `case.killed`.

`Stands` says in which cases the properties hold.  `Serial`: one program is at work
at a time, because they run one after the other or wait for the lock of
node_modules; that lock is passed by only where all is in the cache already,
though the code passes it by whenever its owner has not touched `.deno.lock.poll`
for 200 ms (`util/fs.rs:559`) or it cannot be opened.  `Shared`: programs fill the
global cache at once, which nothing in the code prevents (`cache.rs:384`); the first
to finish removes the lock file while the other writes, so that then a package's
folder is only said to be whole when no living program is at it (`Attended`), and
of the copies nothing: one made from a folder that another is filling can stay
incomplete.

### NpmNames and NpmModules: what packages are called, and what links lead to

`NpmNames` writes an identifier or a folder in one step and reads it back in the
next, as another program does: `Serialized` and `FromSerialized` with the
underscores that count levels of peers, `CacheFolder` with base32 for capital
letters against `FolderIdOf`, `LocalFolderName` and `PackageRoot`.  A text is a
sequence of tokens: words, and the characters that mean something.  A parser is
about a place in the text, and returns what it has read with the place after it
(`Parsed`); those that call each other are functions over levels (`FromSerialized`)
and over the peers read so far (`ParsePeers`), as are the identifiers that are
written (`SerializedAt`).  `NameOK` is what the registry allows a name to be, `IdsOK`
that the peers of an identifier go no deeper than `Levels` says.

`NpmModules` makes the links of `sync_resolution_with_fs`: `LinkDependencies` per
package, `LinkTop` for the top of node_modules, in any order of the hash maps.
`WithLinks` is what a directory has after new links were made in it.  `Local` is
resolution by directories, `Global` by the snapshot.  `SnapshotOK` says what a
snapshot is like: it has the packages it names, and a name with a version is read as
nothing else.  It leaves out packages that depend on one of their own name, where
the code removes the folder that others link to (section 4).  `SameModules` wants
the very same package where a dependency or the own name is asked for, and by any
other name one of the project's own packages if one has that name.

### NodeResolve: CommonJS and ES modules

`ResolveOne` is one call of `node_resolve` or of its two relatives for npm references and
commands, as operators over a small tree (`ModuleResolve`, `PackageResolve`,
`Finalize`).  `StartTranslation`, `Skip`, `Handle` and `Finish` are
`translate_cjs_to_esm`: the queue of reexports, with `Resolve` and `Probe`, then
the exports one by one in any order (`AddExport`), with the temporaries that
`count` numbers.  A path is a directory, a name and a sequence of extensions, a
name of an export or an identifier a text with a number; what a package.json
exports and what an analysis finds are data.  `Closest` walks up to the nearest
package.json, and a subpath that is a directory has a main of its own (`MainOf`).
`CaseOK` says what the cases are like, and excludes what the code gets wrong by
finding 6: requests that mean different files by one text.  `Declares` are the
references whose file nobody looks for: a subpath, what `exports` or what `bin`
names.  `DeclaredOnce` is conditional on exports not being called like a temporary
or like the code around.  `Reach` is what a module reexports in so many steps; as
many as there are files are enough.

### Files: which files of a project are meant

`NextInclude` takes the next place of `include`, `Visit` the next entry of
`WalkDir`, in any order.  `MatchesSpecifier` is the other definition of the same
set, of one module.  A path is the sequence of its names; symlinks are in the
case, and `Canonical` follows them name by name.  `CaseOK` says what a tree is:
every entry is in a directory, and files and links are its leaves.  `Meant` is the set
that the walk is for, without walking; `Collected` wants the list to be what it leads to, none
too many.  A link is judged by its own name and place, and by exclude also by where it
leads, as the code does it.

In every module an operator whose comment begins with "mutant" is a broken
variant of the definition next to it.  No specification uses it: putting it in
the definition's place must make a property fail, which is how the properties
were tested against plausible mistakes in the code.

## 4. Runs

| run | instance | what it shows |
|---|---|---|
| `pool` | 2 workers, 2 requests one of which may fail by itself, 1 main worker, dev profile, lifetimes only | stops are graceful, the pool never panics, requests are refused only after a shutdown, terminate senders are kept, the pool implements `UserWorkers`; under fairness every queued request ends and every worker stops after its lifetime |
| `pool_api` | 2 workers, 2 requests one of which may fail by itself, 2 main workers one of which may end, shutdowns by the API of a worker and of a stray key, release profile | what still holds then, and that the other request breaks only with its own worker's thread, the pool or the process |
| `pool_double_shutdown` | shutdowns by the API of a worker that also has its lifetime timer | violated, by two shutdowns through the API: the pool task panics (finding 1) |
| `requests` | server: 2 main workers, 3 connections, 1 failing accept; main worker: 5 workers, hot ones of 2 paths that restart, and on 1 path an add of one or two workers, shutdowns by key and path and creates that throw, 2 requests; body: 0 to 3 chunks, both framings, client and worker may go away | the rotation is even and a request to a main worker that has ended comes to an end; a path keeps its number of workers through every overlap of expiry, restart and request, no worker is in the pool twice, every request is answered; chunks arrive in order, what looks complete is, a body that fits into the channel never hangs |
| `main_add_race` | an add and two requests on a path | violated: an added worker vanishes from the pool (finding 2) |
| `body_chunked` | two chunks, chunked, as in the repository's test | violated: the request is never sent (finding 3) |
| `caches` | databases: 2 handles of one release and 1 of the next, 2 tables, 2 analyses, a file that is missing, broken or of either release, 1 error; emits: 2 loaders of one release and 1 of another, 2 texts; fetches: 2 loaders, one of which reloads, a redirect to code that is replaced, written as a URL and then as a bare path, a circle of redirects, faults; ages: every combination of the headers, a clock that is set back; incremental: 2 programs, 2 configurations, 2 texts | a file never mixes releases and an analysis returns, with what its release makes of its text; no loader gets code of another source or release; a fetch ends, with code of the right URL or an error that has a reason (a bare location in the cache is one), and a reload is fresh; what is used was allowed to be, what is skipped was recorded |
| `npm_graph` | every registry of two shapes, without circles through peers and without two optional peers of one version: three packages that want each other in every way, and a package in two versions below three others; peers may have peers; requirements for versions nobody published; two batches each | every requirement gets a package that fits, except that a peer of a peer can be lost, peers are shared, copies stay apart, the snapshot can be started from again, batches end |
| `npm_mutual_peers` | two packages that want each other as peers | violated: the program cannot start from its own snapshot (finding 4) |
| `npm` | registry: 2 callers, 3 packages, every setting; resolution: 3 tasks, installers among them, on packages in a circle, one of which depends on itself and one on what nobody has published, with and without a lockfile; folders: 2 programs, one after the other in the cache or in node_modules, at once in node_modules under its lock or past it with all cached, at once in the global cache; names: identifiers with peers two levels deep; links: snapshots of up to 5 packages, none of which depends on its own name; Node: every specifier on two small trees, every pair of lists of reexports, exports that differ by a number or clash; files: overlapping includes and excludes, symlinks to files, directories and nothing | a batch has one answer for a package, whoever calls meanwhile, and a reload is fresh where batches, each asking once, are the only callers and are answered; the snapshot is whole and the permit passed on; what a program takes for whole is, or another program in the global cache is at it; names are read back as written; node_modules has the packages that the snapshot has, and the project's own win the names at the top; what is resolved is there, unless a package declares it and it is not looked for, a translation exports everything, each once unless it is called like an identifier of the translation's own; the list of files is exactly what the configuration says |
| `npm_scoped_root` | a module of a scoped package in node_modules | violated: its root is the folder of the scope (finding 5) |
| `node_reexports` | two modules that reexport different files by the same request | violated: the second file's exports are missing (finding 6) |

A property of a composition that begins with `part = "..." =>` is that of the
component of the same name, or the conjunction the comment names.

**Bounds.**  Each hazard needs few actors: two requests to overlap on one worker
and two workers to tell "its worker" from "another", two loaders and a third
party (the other release) for the files, three connections for a rotation of two
to wrap, two programs for a folder.  The counters that are bounded are the keys
and requests a run can use, the length of the pool's inbox for main workers
(`MaxInbox`; timers are never held back by it), failing accepts (`MaxErrors`), hot
workers per add (`MaxAdd`), chunks (`Lengths`), redirects (`MaxRedirects`: 1, with which one
allowed too few fails the redirect to code, and the circle is one too many), releases of
a package (`Releases`: 2, to tell an old from a new one), messages in a channel
(`MaxSent`) and calls of `wait_completion` (`MaxWaits`: 2, as the second call behaves
differently), and paths in a resolution (`MaxPaths`, never met).  In `caches` one
error besides a broken file is enough for every exit of `open_connection`: a
broken file costs both first attempts.  In `requests` a body that does not fit into
the channel stays where it is, a stuttering step of `Next`; `npm` and
`npm_graph` do not check for deadlock, since their tasks end.

Some cases are left out of `npm_graph` and `npm` because the properties do not
hold there; each is a hazard in PROJECT.json with its line.  Circles that lead
through a peer: two requirements of one batch then queue paths for ever, and the
identifiers are those of finding 4.  Two optional peers of one version.  A program
killed between `create_dir_all` and the lock file (`cache.rs:52`), or while
`remove_dir_all` is at work (`cache.rs:91`): the folder looks whole and stays so, for
all programs that come.  A `--reload` that fails or is killed while it copies over
what is initialized.  Of two programs at once in the global cache, one that fails or
is killed while it fills a folder, and one that copies into node_modules.

**Fairness.**  Weak fairness per actor and never more: a task that is ready is
polled (tokio's scheduler), a thread runs, a timer that is armed fires, a promise
that is resolved continues, a request to another server is answered or fails.
Two assumptions go beyond scheduling and are constants or named: handlers of user
workers answer, for requests outside `HangingRequests` (`RequestsResolve` speaks
of those only, and `LifetimeEnforced` fails with a handler that hangs, because the
draining task joins its requests without a timeout), and main workers answer
(`Server`).  No fairness is assumed of clients, of API calls, of panics, of ends.
The npm modules state no fairness: what must happen there is stated as safety.
`BatchesEnd` is a bound on the paths of a batch, each analysed once, and
`PermitPassedOn` says that who has the permit is at a step it can take.

### Findings

1. `pool_double_shutdown`: `user_workers.remove(&key).unwrap()`
   (`worker_ctx.rs:230`) panics the pool when a worker is shut down twice.  In the
   trace both are by the API; the pool cannot tell them from a lifetime timer's, nor
   from a key that never was.
2. `main_add_race`: `addWorkerToPool` and `callWorker` put arrays they took before
   an await into the Map after it, and the later one drops the other's workers.
3. `body_chunked`: a body of more than one chunk is piped into a channel of
   capacity one before the request that reads it is sent.
4. `npm_mutual_peers`: an identifier leaves a peer out inside its own peer
   (`graph.rs:472`), so that the snapshot names a package that it does not have
   and the next batch fails with "not found package".
5. `npm_scoped_root`: the root of a package in node_modules is looked for one
   folder below `node_modules` (`resolvers/local.rs:71`), which for a scoped
   package is the scope.
6. `node_reexports`: a reexport counts as handled by its text
   (`node/mod.rs:686`), though the text means something else in another module.

A *release*, in `EmitCache` and `CacheDb`, is a value of `crate::version::deno()`.
At this commit that is the constant `Supa:0` (`module_fetcher/src/version.rs`), so
builds that do not change it are one release to the caches even if their
transpilers or analysers differ: what the two modules show about releases holds
between builds that do change it.

### Seen while modelling

Without a run of their own, because no document of the repository promises
otherwise or because what would be needed is outside the model:

- The pool: a handler that never answers keeps its worker beyond its lifetime;
  the draining task drops a worker's channel a second after its signal whether or
  not the thread has ended (`worker_ctx.rs:253`); join handles of finished
  requests stay until the worker is shut down (`:147`); a worker that ended by
  itself stays in the table (`:85`).
- The main worker: a shutdown by key leaves the worker in the Map, since the loop
  over `workerPool` yields entries (`index.ts:116`); a path that is shut down comes
  back with the array of a request in progress (`:141`); workers of one add share
  one configuration object (`configWorkers.ts:31`).
- The fetcher: two loaders that store different responses of one URL can leave the
  content of one with the ETag of the other, and reloads then keep the old
  content; a redirect to `other.ts` is resolved by `resolve_url_from_location` from
  the network and by the stricter `resolve_import` from the cache, so that it can
  be followed once and not after a restart (`FetchSound` allows this error, and no
  other of its kind); the unwrap after a 304 panics if
  another loader has stored a redirect in the entry meanwhile.  A header `Age` near
  2^64 seconds makes `age` panic (`http_util.rs:100`).
- npm: two paths that share a node by a hash that is no longer its own
  (`graph.rs:162`) can take a peer's peer away: of a package 1 with dependency 2, 2
  with peer 3, 3 with peer 4, required as 2 and 1, the snapshot has a package 3 without
  its peer (`Resolved` allows this and nothing else to be missing); an installer called twice at once returns to the second caller before the
  first is done (`installer.rs:68`), and what it made pending is lost when another
  task writes its clone back; under `--reload` a package counts as reloaded before its
  load has succeeded (`registry.rs:350`), so that a second call, or one after a
  failure, takes the old file, which the doc of `CacheSetting::ReloadAll`
  (`util/cache_setting.rs:7`) excludes; `root_packages` is unwrapped for pending packages when
  the lockfile is written (`resolution/mod.rs:462`); `--reload` copies over a folder
  of node_modules that has its `.initialized`; `symlink_package_dir` removes what is
  in the place of a link, so that a package that depends on its own name, itself or
  in another version, loses its folder to the link, for all who depend on it
  (`resolvers/local.rs:413`); a name at the top that only dependencies have goes to
  whichever version the order of a hash map brings first (`local.rs:353`), where the
  snapshot has the best one.
- Node: `parse_specifier` takes a count of characters for an index of bytes
  (`node/mod.rs:882`); `add_export` makes an identifier of a name that begins with a
  digit; two of `resolve`'s cases panic (`node/mod.rs:775`, `:789`); a CommonJS
  module that exports `mod`, `require` or `__internalCreateRequire` makes the
  translation declare that name twice (`node/mod.rs:611` against `:665`, `:738`), and
  so does one that exports `__deno_export_1__` next to a name that needs a temporary
  (`:602`); a file with the extension `.mts` or `.cts` counts as CommonJS.
- Files: a link of a wanted name lists a directory, or a file within node_modules, if
  it leads there, against "as a file path" (`util/fs.rs:162`) and "ignores all
  `node_modules`" (`:254`); what include names itself is listed though exclude names
  it, too.
- The incremental cache: half of all hashes are above `i64::MAX` and are never
  written, so that those files are done again each time.

## 5. Proofs

`WorkerPoolProofs` proves, for every number of workers, requests and main
workers, every profile and every use of the API, that `WorkerPool` keeps
its types (`TypeCorrect`), stops gracefully (`StopIsGraceful`), does not panic
without the API (`PoolKeepsServing`), refuses only after a shutdown
(`RefusalIsJustified`), keeps terminate senders (`TerminateSenderKept`), isolates
failures (`FailuresAreIsolated`) and implements `UserWorkers`
(`PoolImplementsUserWorkers`).  None of these is inductive.  The invariant that
is has, besides the types, five parts:

- `TablesAgree`: a worker's terminate sender is in the table or with its
  draining task, never both and never neither.
- `SendsQueued`: a request is in the inbox once and still `queued`.
- `FlightsTracked`: every request the pool let through is in the handles of its
  worker, or among those the draining task joins; `GracefulStop` follows.
- `ShutdownOnce`: without the API, the inbox has at most one Shutdown per worker,
  from its timer, for a registered worker: the unwrap succeeds.
- `KeysKnown`: a main worker knows only keys the pool has registered.

The steps of the proof are one per action; the refinement uses the invariant in
both states to map each action to a step of `UserWorkers` or a stutter.

Of `CacheDb`, `CachesProofs` proves, for any handles, tables, files and errors, the
types (`TypeCorrect`) and, for releases that follow each other, that a file has rows of
the release it names only (`OneVersionPerFile`) and that analyses are right
(`AnalysesAreCorrect`).  Neither is inductive: a handle that clears the tables
writes the version long before nobody writes rows any more.  `Inv` adds that the
handles that are there have one release (`OneVersion`), that the file of one that
is connected, or about to be, names it (`Trusts`), and that the tables one has
cleared have at most rows of its own release (`Clears`): another handle of the
release may be connected already and fill them again.  Steps that write no row
are dealt with by one lemma, `QuietStep`; `Clear`, `Mark` and `Set` by themselves.

Of `IncrementalCache`, `CachesProofs` proves, for any programs, files, configurations
and texts, that what is skipped was recorded (`SkippedCorrect`) and that
`wait_completion` keeps its word to its first caller (`WaitedCorrect`).
`RecordedInv` follows a text from `update_file` through a channel, the table and
the next program's start; `OwedInv` says that what is owed is in the channel
before the message that ends the task.

`MainWorkerProofs` proves, for any paths, workers, calls and usages, that no worker
is in the pool twice and, where nobody uses the API and workers can be created,
that a path keeps its number of workers.  An array is put into the Map long after
it was made, by an operation that was interrupted; so `Safe` is about arrays: one
call at a time is inside the mutex (`MutexOK`), an operation that has begun has
its array (`BegunOK`), each array has a worker once (`ArraysOK`), is of one path and
has only workers created for it, whether it is in the Map or in an operation's
hands (`PathsApart`).  The number is counted: an add has added what is no longer
left (`AddsOK`), a restart filters out the worker that expired, which is still
there (`ExpiredOK`), and the sum is what the add began with (`NumbersOK`).

`RequestsProofs` proves the three invariants of `Requests`.  `ConnectionsBalanced`,
for any number of main workers, connections and failing accepts: who comes next
depends on the order of the list, so the invariant compares two main workers by
their places (`Spread`), the one further up having as many connections as the
other or one less, give or take the failed accepts, and says that the accept in
progress is for the last of the list (`LastChosen`).  `PoolsKept` is from
`MainWorkerProofs`.  `BodiesWhole`, for bodies of any length, any capacity of the
channel and either framing: the channel continues what was got (`Continues`) and
the explicit end comes after all chunks (`FillsFirst`).

`CachesProofs` proves the other properties of `Caches`, too, but liveness.

- `EmitIsCurrent`: metadata on disk, or read by a loader, is of some source and
  release and describes their code (`MetadataTruthful`).  The code file may be
  anything and need not agree with the metadata on disk: the comparison of hashes
  makes up for it.
- `FetchesSound`, where redirects lead to one place, however it is written
  (`RedirectsStay`): what a file of the cache holds was served (`DiskServed`), and a
  fetch with so many redirects left is on the way from its root and leads to where
  that leads (`Following`), whichever of memory, disk, server and the disk after a
  304 it follows, and whoever writes meanwhile.  A bare location it meets in the
  cache is therefore one that was served on the way from its root
  (`BareOnTheWay`); that redirects can be followed last first is an induction
  (`LeadsOn`).
- `ReloadsAreFresh`, where moreover a server gives an ETag to one response only
  (`EtagsDiffer`), for a loader that alone writes: content under the current
  response's ETag is that response's (`EntryCurrent`), and what the loader is about
  to store, open or return was served since it asked (`Reloading`).
- `StaleStaysStale` and `ReuseIsJustified`, for every response, clock and width of a
  `Duration`: age grows and time to live shrinks with the clock, and which of the
  headers decides does not depend on the clock.  The invariant is the types.

`NpmFilesProofs` proves the properties of `NpmFiles` for any packages, copies and
programs, in the cases of `Stands` and no others.  For those of `Serial`, `Typed`,
`Exclusive` (one program at a time is at work, but for those that pass the lock by)
and `Order` (packages come before copies, copies one after the other) are about
programs; `CacheInv` says of each step what its
program knows of the folder (`Knows`), `ModulesInv` the same of node_modules, and
`OnceInv` counts downloads.  In `ModulesInv`, that a package to be copied is not
initialized (`NotAgain`) is not enough: a program that is killed while it links
copies leaves some that are, which the next passes by (`LinkedOnce`).  Programs
that fill the global cache at once have an invariant of their own, `Sharing`: what
a package's folder lacks is still to come from a living program that is at it
(`SharedFolder`), though the lock file may be gone.

`NpmResolutionProofs` proves the properties of `NpmResolution` for any registry,
lockfile, tasks and failures.  `PermitInv`: those in the queue are the tasks that ask
for the permit, each once, and only the first has gone on.  `SnapshotInv`
relates the snapshot to the clone of the task with the permit.

- A snapshot is `Whole` when requirements lead to versions they match that are
  roots or pending, roots to packages, and every dependency to a package that
  matches it or is left out, because the package itself does.  With that,
  `SnapshotWhole`, which looks packages up as the loader does, follows.
- In the middle of a resolution a clone is not whole, but `Growing`: what is missing
  is in the task's hands.  A requirement leads to a root or to what is yet to be
  added; a root or a dependency to a package or to one in the queue of those to be
  looked at; the package at hand lacks the dependencies that are left, and the
  others have all of theirs.  Each of the five steps of `Resolve` keeps this,
  and when nothing is left it is `Whole`.
- Whether an installer is at work makes a difference (`NoInstaller`): without one the
  snapshot does not change under a clone, so that what was added stays (`Kept`,
  `AddsKept`), nothing is pending when `lock` reads the snapshot, and its unwrap
  succeeds (`NothingPending`).  With one, the snapshot that is overwritten may have had more.
- What is written into the lockfile names packages that are written with it, and
  what was there leads to packages that stay (`LockedLoads`).

`NpmNamesProofs` proves that what is written is read back (`NamesReadBack`), for any
names, versions and identifiers.  The invariant of the two steps is plain (`Kept`);
the proof is in what the parsers compute.

- An identifier is a name, a version and the texts of its peers, each after its
  underscores, and these parts occur in the text one after the other (`WrittenParts`).
  `SerializedAt` and the parsers are recursive: that there are such functions, and
  that `Serialized` is a text, is by induction over `Levels` (`SerializedIs`,
  `SerializedText`).
- `ReadBack` is an induction over `Levels`, too: where an identifier of a level is
  written, and no more underscores follow than end its list of peers (`Stops`),
  `ParseId` of that level reads this identifier and stops behind it (`IdReads`).
  For the peers of one identifier it is an induction over how many have been read
  (`PeersLoop`): after a peer comes a sibling, with exactly the underscores of the
  level, or the end, with fewer, so that neither is taken for a peer of the peer.
- `FolderFound`: the first text of a path tells an encoded name from a scope and a
  plain name, because no name begins with an underscore, and base32 is read back.
- `LocalFoldersApart`: in the name of a folder of node_modules/.deno the one @ that is
  not at the beginning ends the name (`AtOnce`), and no name has the + that stands
  for its slash.

`NpmProofs` proves nine properties of `Npm`, each for any cases of its part.

- `InfoIsSound`, of which the part about `--reload` is for batches alone that ask for a
  package once and are answered: one batch works at a time (`OneBatch`), which alone clears the
  memory, what it was told is in memory (`BatchesTold`), and whoever has not begun
  has asked nothing (`Stages`).  With `--reload`, what was asked for since the
  program began is what memory, the calls and the file of a package that counts as
  reloaded have (`AllFresh`), where callers come one after the other (`Calling`).
- `PermitIsPassedOn` and `SnapshotIsSound` are from `NpmResolutionProofs`, whose
  definitions are the same (`SameTasks` to `SameSnapshots`).
- `FoldersAreSound` and `DoneIsWhole` are from `NpmFilesProofs`, `NamesAreSound` from
  `NpmNamesProofs` (`SameTexts` to `SameNameSteps`).
- `ModulesAreSame`: a package whose links are made has those of its dependencies
  and its own (`OwnLinks`), and what is at the top is called by its name or by its name
  and version (`TopLinks`).  While a root is in the queue only roots were linked, so
  that every name taken leads to one (`RootsFirst`); a root has its link at the top, by
  itself or another copy, or is in the queue (`RootLinks`).
- `FilesAreFound`: of a directory that was begun, everything meant is in the
  list or below an entry that WalkDir has yet to return (`FoundOrOnWay`).  These
  entries are in reach of the directory and below nothing excluded (`WalkShape`), so
  that nothing else gets into the list (`OnlyFound`).  That a path without links on
  its way is canonical is an induction over its length (`Straight`).
- `NodeIsSound`: for resolutions, by cases, that what is found is there or was
  declared.  For declarations, that temporaries are numbered up to `count`, each
  number once (`Declarations`).  For reexports, `Got` are the files whose analysis is among the
  exports (`ExportsOfGot`): all that they reexport is handled or in the queue
  (`NothingForgotten`), what was handled is in `Got` (`HandledFound`), and `Got` is
  within every set of files closed under reexports (`NothingElse`).  At the end
  it is therefore the least such set; that `Reach` is too, after as many steps as
  there are files, is a counting argument (`ReachIsGot`).

**Assumptions.**  `ConstantsOK` of each module, and the named conditions on cases:
`RedirectsStay`, `EtagsDiffer`, `Stands`, `SnapshotOK` and the four `CaseOK`.  They are in
the statements of the theorems or in an ASSUME, and TLC evaluates each for the
instances of the passing runs, in the ASSUMEs of the modules and of the MC
modules.  Each is needed: without `CaseOK` of `NodeResolve` there is finding 6,
without `Stands` the hazards of section 4, and a server that uses an ETag again
(A, B, A) with a worker that stops between the two files of an entry in the
meantime makes a reload return old content.

**What the proofs corrected.**  Attempts that failed showed where the model said too
much or could not be read in one way:

- `FailuresJustified` was false for a chain of exactly one redirect more than the
  limit, and `ReloadIsFresh` without `EtagsDiffer`.
- A synchronous `cache_in_parallel` stops at the first package that fails
  (`registry.rs:259`), and a permit is released by who has it.
- `DeclaredOnce` was false for exports named like the declarations around them, or
  like a temporary, and has both as its condition; a set difference after a UNION
  needed its parentheses.
- A resolution was one step, folded over sets in the order of a hash map: nothing
  could be said of what is true in the middle of it, and nobody could run there.
  In steps it turned out that a version that resolves to the package itself is no
  dependency of it (`graph.rs:799`), and that the memory is cleared also when
  `into_snapshot` fails (`mod.rs:533`).

Induction over data works only for what can be said of a set of numbers: the least
number outside such a set leads to a contradiction (`AllNumbers`, from the
well-foundedness of the subsets of Nat).  Redirects, the names of a path, the
steps of `Reach`, and identifiers with the peers of their peers are dealt with in
this way, and so is the existence of a recursive function.

**Only model-checked.**  Everything about liveness and fairness, and what needs
ENABLED, which the prover has no rules for.  The five invariants of `NpmGraph`,
which is written with RECURSIVE operators, as its algorithm is.

## 6. What is not modelled

- Contents: headers beyond the few that steer control, text of requests and
  responses, logging, formatting, metrics of `api/main`.
- The JavaScript engine, deno_core, hyper, tokio and the file system, except for
  what the code relies on: order of a channel, atomic rename, end of a stream.
- Time in the pool: timers fire at any moment after they are armed, so that the
  order of two deadlines (the 500 ms of `configWorkers.ts:30` against the Rust timer) and
  fixed sleeps are any order.
- `base`: what a runtime assembles when it boots, `op_net_accept`'s receiver across
  its await (`net.rs:96`), reading a response body through `UserWorkerResponse`, a
  client that disconnects while `pipeTo` runs (`user_workers.js:41`) other than as
  the failure of the fetch.
- File fetcher: `RespectHeaders` and `ReloadSome`, local files, data and blob URLs,
  authorization tokens; the in-memory map of parsed sources.
- npm: URLs and authorization of the registry; the content of tarballs and their integrity; size
  and permission helpers of `util/fs.rs`; Windows paths; resolution for types other
  than the extension of a declaration.  Liveness of `NpmResolution`, but for
  `PermitPassedOn`.
- Discovery of a lockfile and of a configuration: in this program the first
  returns nothing, and the second is parsing.
- Files: the sort of each directory's list (`util/fs.rs:294`); includes that are URLs,
  which are listed as they are.
- Node: the analysis of a CommonJS file, deno_node's conditions and patterns of
  `exports`, `node_resolve_binary_commands`.
- The components marked `not_modelled` in PROJECT.json, with the reason there.
