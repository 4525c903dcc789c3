------------------------------ MODULE NpmFiles ------------------------------
(***************************************************************************)
(* The folders of npm packages: the global cache (npm/cache.rs,            *)
(* npm/tarball.rs), where a file .deno_sync_lock marks what is not whole,  *)
(* and node_modules (npm/resolvers/local.rs), where a file .initialized    *)
(* marks what is.  Programs that share them run cache_packages, once or    *)
(* more often; one may be killed at any step, the next finds what it left. *)
(*                                                                         *)
(* A folder has one file: "none", "whole", "part" for what a killed        *)
(* program has left, or the program that is writing it.  Directories below *)
(* a folder, permissions and the content of packages are left out.         *)
(***************************************************************************)
EXTENDS Naturals, FiniteSets

CONSTANTS
    Program,     \* programs
    Package,     \* packages
    Copy,        \* copies of packages, for other peers
    Original(_), \* the package of a copy
    Cases        \* what they do, see Init

Item == Package \cup Copy

VARIABLES
    case,      \* the case at hand; never changes
    cache,     \* cache[n]: the folder of n in the global cache
    modules,   \* modules[n]: node_modules/.deno/<n>
    links,     \* the packages that the links of node_modules lead to
    flag,      \* who has the lock of node_modules/.deno/.deno.lock
    program,   \* program[p]: where p is
    job        \* job[p][n]: where p is with n

vars == <<case, cache, modules, links, flag, program, job>>

\* A case is [setting, place, rounds, apart, lax, faults, cached, killed, own]: the cache setting
\* and the place, "cache" or "modules", of each program; how often it calls
\* cache_packages; whether the programs run one after the other; whether the lock of
\* node_modules may be passed by; whether downloads and writes may fail; whether the cache
\* is filled already; the steps at which a program may be killed; the packages that depend on
\* a package of their own name.
InModules(p) == case.place[p] = "modules"

\* should_use_for_npm_package; no package is named in --reload.
Uses(p) == case.setting[p] # "ReloadAll"

Content == {"none", "part", "whole"} \cup Program
NoFolder == [there |-> FALSE, lock |-> FALSE, content |-> "none"]
CachedFolder == [there |-> TRUE, lock |-> FALSE, content |-> "whole"]
NoModule == [init |-> FALSE, content |-> "none"]

ConstantsOK ==
    /\ Package \cap Copy = {} /\ \A c \in Copy : Original(c) \in Package
    /\ Program \cap {"none", "part", "whole"} = {}

\* One program is at work at a time, because they run one after the other or, each with one
\* call, under the lock of node_modules; or all is in the cache and the lock is passed by,
\* as the code does whenever its owner has not been heard of for a while (or it cannot be
\* opened).  Left out, because what follows does not hold of them: a program killed between
\* the folder and its lock file (cache.rs:52), or while it removes a folder (cache.rs:91),
\* leaves what looks whole; so does a --reload that fails or is killed while it copies over
\* a folder of node_modules.
Serial(k) ==
    LET reloads == \E p \in Program : k.setting[p] = "ReloadAll"
        allModules == \A p \in Program : k.place[p] = "modules"
    IN  /\ k.apart \/ k.lax \/ (allModules /\ k.rounds = 1)
        /\ k.lax => allModules /\ k.cached /\ ~reloads /\ ~k.faults /\ k.killed = {}
        /\ k.killed \cap {"lock", "clean"} = {} /\ k.own = {}
        /\ reloads => ~k.faults /\ "copying" \notin k.killed

\* Programs that fill the global cache at once, where nothing keeps them apart.  Left out:
\* one that fails or is killed while it fills a folder, since the other may have removed the
\* lock file they share, or may be done with what the first then removes; one that fills
\* node_modules, which may copy what the other is writing.
FilledAtOnce == {"lock", "extract", "write", "relink", "unlock", "clean"}
Shared(k) ==
    /\ ~k.apart /\ ~k.lax /\ \A p \in Program : k.place[p] = "cache"
    /\ ~k.faults /\ k.rounds = 1 /\ k.killed \cap FilledAtOnce = {} /\ k.own = {}

Stands(k) == Serial(k) \/ Shared(k)

Init ==
    /\ case \in Cases
    /\ cache = [n \in Item |-> IF case.cached THEN CachedFolder ELSE NoFolder]
    /\ modules = [n \in Item |-> NoModule]
    /\ links = {} /\ flag = {}
    /\ program = [p \in Program |->
                    [pc |-> "start", round |-> 1, reloaded |-> {}, fetched |-> {}, again |-> FALSE]]
    /\ job = [p \in Program |-> [n \in Item |-> "todo"]]

-----------------------------------------------------------------------------
(* One package or copy                                                     *)

At(p, n, step) == job[p][n] = step
Goes(p, n, step) == job' = [job EXCEPT ![p][n] = step]

\* Packages are tasks of their own, copies are made one after the other.
Ready(p, n) ==
    \/ program[p].pc = "packages" /\ n \in Package
    \/ /\ program[p].pc = "copies" /\ n \in Copy
       /\ \A c \in Copy \ {n} : job[p][c] \in {"todo", "done"}

SameProgram == UNCHANGED <<case, links, flag, program>>

\* In node_modules: nothing to do for what is initialized, a package only if it is not
\* to be reloaded.
Skips(p, n) == InModules(p) /\ modules[n].init /\ (n \in Copy \/ Uses(p))
Begin(p, n) ==
    /\ At(p, n, "todo") /\ Ready(p, n)
    /\ Goes(p, n, IF Skips(p, n) THEN "done"
                  ELSE IF InModules(p) /\ n \in Copy THEN "link" ELSE "look")
    /\ SameProgram /\ UNCHANGED <<cache, modules>>

\* should_use_global_cache_for_package; ensure_copy_package asks for the setting alone.
Usable(p, n) == Uses(p) \/ (n \in Package /\ n \in program[p].reloaded)
Missing(p, n) ==
    IF n \in Copy THEN "folder" ELSE IF case.setting[p] = "Only" THEN "error" ELSE "fetch"
Then(p) == IF InModules(p) THEN "copy" ELSE "done"

\* ensure_package and ensure_copy_package look for the folder, then for its lock file.
Look(p, n) ==
    /\ At(p, n, "look")
    /\ program' = IF Uses(p) \/ n \in Copy THEN program
                  ELSE [program EXCEPT ![p].reloaded = @ \cup {n}]
    /\ Goes(p, n, IF Usable(p, n) /\ cache[n].there THEN "locked?" ELSE Missing(p, n))
    /\ UNCHANGED <<case, links, flag, cache, modules>>
SeeLock(p, n) ==
    /\ At(p, n, "locked?")
    /\ Goes(p, n, IF cache[n].lock THEN Missing(p, n) ELSE Then(p))
    /\ SameProgram /\ UNCHANGED <<cache, modules>>

\* The tarball is downloaded and its checksum compared.
Fetch(p, n) ==
    /\ At(p, n, "fetch")
    /\ \/ /\ Goes(p, n, "folder")
          /\ program' = [program EXCEPT ![p].fetched = @ \cup {n},
                                        ![p].again = @ \/ n \in program[p].fetched]
       \/ case.faults /\ Goes(p, n, "error") /\ UNCHANGED program
    /\ UNCHANGED <<case, links, flag, cache, modules>>

\* with_folder_sync_lock: the folder, the lock file, which may be there, the files,
\* and the lock file is removed.
MakeFolder(p, n) ==
    /\ At(p, n, "folder")
    /\ cache' = [cache EXCEPT ![n].there = TRUE]
    /\ Goes(p, n, "lock")
    /\ SameProgram /\ UNCHANGED modules
NoLockFile(p, n) ==   \* mutant: the folder is not marked
    /\ At(p, n, "lock")
    /\ Goes(p, n, "extract")
    /\ SameProgram /\ UNCHANGED <<cache, modules>>
LockFile(p, n) ==
    /\ At(p, n, "lock")
    /\ \/ /\ cache[n].there
          /\ cache' = [cache EXCEPT ![n].lock = TRUE] /\ Goes(p, n, "extract")
       \/ ~cache[n].there /\ Goes(p, n, "clean") /\ UNCHANGED cache
    /\ SameProgram /\ UNCHANGED modules

\* hard_link_dir_recursive: what is in the place of the link is removed first, and the
\* next step makes the link, unless another program has.
Linked(folders, n) ==
    [folders EXCEPT ![n].content =
        IF @ = "none" THEN folders[Original(n)].content ELSE "none"]
LinkedAgain(folders, n) == IF folders[n].content = "none" THEN Linked(folders, n) ELSE folders

\* extract_tarball puts a file in the place of the one there; a copy is a hard link.
Extract(p, n) ==
    /\ At(p, n, "extract")
    /\ \/ /\ n \in Package
          /\ cache' = [cache EXCEPT ![n].there = TRUE, ![n].content = p] /\ Goes(p, n, "write")
       \/ /\ n \in Copy /\ cache[Original(n)].there
          /\ cache' = Linked([cache EXCEPT ![n].there = TRUE], n)
          /\ Goes(p, n, IF cache[n].content = "none" THEN "unlock" ELSE "relink")
       \/ /\ case.faults \/ (n \in Copy /\ ~cache[Original(n)].there)
          /\ Goes(p, n, "clean") /\ UNCHANGED cache
    /\ SameProgram /\ UNCHANGED modules

\* The links to a file are whole with it.
Family(n) == {n} \cup {c \in Copy : Original(c) = n}
Filled(folders, p, n, c) ==
    [m \in Item |-> IF m \in Family(n) /\ folders[m].content = p
                    THEN [folders[m] EXCEPT !.content = c] ELSE folders[m]]
Write(p, n) ==
    /\ At(p, n, "write")
    /\ \/ /\ cache' = Filled(cache, p, n, "whole")
          /\ Goes(p, n, "unlock")
       \/ case.faults /\ Goes(p, n, "clean") /\ UNCHANGED cache
    /\ SameProgram /\ UNCHANGED modules
Relink(p, n) ==
    /\ At(p, n, "relink")
    /\ \/ InModules(p) /\ modules' = LinkedAgain(modules, n) /\ Goes(p, n, "init")
          /\ UNCHANGED cache
       \/ ~InModules(p) /\ cache' = LinkedAgain(cache, n) /\ Goes(p, n, "unlock")
          /\ UNCHANGED modules
    /\ SameProgram
Unlock(p, n) ==
    /\ At(p, n, "unlock")
    /\ cache' = [cache EXCEPT ![n].lock = FALSE]
    /\ Goes(p, n, Then(p))
    /\ SameProgram /\ UNCHANGED modules

\* After an error the folder is removed, its files in any order.
KeepPart(p, n) ==   \* mutant: only the lock file is removed
    /\ At(p, n, "clean")
    /\ cache' = [cache EXCEPT ![n].lock = FALSE] /\ Goes(p, n, "error")
    /\ SameProgram /\ UNCHANGED modules
Clean(p, n) ==
    /\ At(p, n, "clean")
    /\ \/ cache[n].lock /\ cache' = [cache EXCEPT ![n].lock = FALSE] /\ UNCHANGED job
       \/ cache[n].content # "none" /\ cache' = [cache EXCEPT ![n].content = "none"]
          /\ UNCHANGED job
       \/ ~cache[n].lock /\ cache[n].content = "none"
          /\ cache' = [cache EXCEPT ![n] = NoFolder] /\ Goes(p, n, "error")
    /\ SameProgram /\ UNCHANGED modules

\* sync_resolution_with_fs copies a package to node_modules, into the file that is
\* there, or links a copy there, and writes .initialized.
Opened(p, n) ==
    [m \in Item |-> IF m = n \/ (/\ m \in Family(n) /\ modules[n].content # "none"
                                 /\ modules[m].content # "none")
                    THEN [modules[m] EXCEPT !.content = p] ELSE modules[m]]
CopyFile(p, n) ==
    /\ At(p, n, "copy")
    /\ IF ~cache[n].there THEN Goes(p, n, "error") /\ UNCHANGED modules
       ELSE IF cache[n].content = "none" THEN Goes(p, n, "init") /\ UNCHANGED modules
       ELSE modules' = Opened(p, n) /\ Goes(p, n, "copying")
    /\ SameProgram /\ UNCHANGED cache
CopyRest(p, n) ==
    /\ At(p, n, "copying")
    /\ \/ /\ Goes(p, n, "init")
          /\ modules' = Filled(modules, p, n, IF cache[n].content = "whole" THEN "whole" ELSE "part")
       \/ /\ case.faults /\ Goes(p, n, "error")
          /\ modules' = Filled(modules, p, n, "part")
    /\ SameProgram /\ UNCHANGED cache
LinkCopy(p, n) ==
    /\ At(p, n, "link")
    /\ \/ /\ modules' = Linked(modules, n)
          /\ Goes(p, n, IF modules[n].content = "none" THEN "init" ELSE "relink")
       \/ case.faults /\ Goes(p, n, "error") /\ UNCHANGED modules
    /\ SameProgram /\ UNCHANGED cache
Initialized(p, n) ==
    /\ At(p, n, "init")
    /\ modules' = [modules EXCEPT ![n].init = TRUE]
    /\ Goes(p, n, "done")
    /\ SameProgram /\ UNCHANGED cache

-----------------------------------------------------------------------------
(* cache_packages                                                          *)

Ended(p) == program[p].pc \in {"done", "failed", "killed"}
Alone(p) == \A q \in Program \ {p} : program[q].pc = "start" \/ Ended(q)

MoveOn(p, pc) == program' = [program EXCEPT ![p].pc = pc]

Call(p) ==
    /\ program[p].pc = "start" /\ (case.apart => Alone(p))
    /\ MoveOn(p, IF InModules(p) THEN "waiting" ELSE "packages")
    /\ UNCHANGED <<case, cache, modules, links, flag, job>>

\* LaxSingleProcessFsFlag: the lock, or none if its owner seems to be gone.
Flag(p) ==
    /\ program[p].pc = "waiting"
    /\ \/ flag = {} /\ flag' = {p}
       \/ case.lax /\ flag # {} /\ UNCHANGED flag
    /\ MoveOn(p, "packages")
    /\ UNCHANGED <<case, cache, modules, links, job>>

Results(p, S) == {job[p][n] : n \in S}
Waited(p, S) == Results(p, S) \subseteq {"done", "error"}

\* All packages are waited for; of the copies, those up to the first error.
AllPackages(p) ==
    /\ program[p].pc = "packages" /\ Waited(p, Package)
    /\ IF "error" \in Results(p, Package) THEN MoveOn(p, "failed") /\ flag' = flag \ {p}
       ELSE MoveOn(p, "copies") /\ UNCHANGED flag
    /\ UNCHANGED <<case, cache, modules, links, job>>
AllCopies(p) ==
    /\ program[p].pc = "copies"
    /\ IF "error" \in Results(p, Copy) THEN MoveOn(p, "failed") /\ flag' = flag \ {p}
       ELSE Waited(p, Copy) /\ MoveOn(p, "links") /\ UNCHANGED flag
    /\ UNCHANGED <<case, cache, modules, links, job>>

\* Each package gets links to its dependencies, node_modules one to each package; what
\* is in the place of a link is removed.
Links(p) ==
    /\ program[p].pc = "links"
    /\ IF InModules(p)
       THEN /\ links' = Item
            /\ modules' = [n \in Item |-> IF n \in case.own
                                          THEN [modules[n] EXCEPT !.content = "none"]
                                          ELSE modules[n]]
       ELSE UNCHANGED <<links, modules>>
    /\ IF program[p].round < case.rounds
       THEN /\ program' = [program EXCEPT ![p].pc = IF InModules(p) THEN "waiting" ELSE "packages",
                                          ![p].round = @ + 1]
            /\ job' = [job EXCEPT ![p] = [n \in Item |-> "todo"]]
       ELSE MoveOn(p, "done") /\ UNCHANGED job
    /\ flag' = flag \ {p}
    /\ UNCHANGED <<case, cache>>

\* A program is killed: what it was writing stays as it is.
Left(p, c) == IF c = p THEN "part" ELSE c
Killed(p) ==
    /\ program[p].pc \notin {"start"} /\ ~Ended(p)
    /\ \A n \in Item : job[p][n] \in case.killed
    /\ MoveOn(p, "killed") /\ flag' = flag \ {p}
    /\ cache' = [n \in Item |-> [cache[n] EXCEPT !.content = Left(p, @)]]
    /\ modules' = [n \in Item |-> [modules[n] EXCEPT !.content = Left(p, @)]]
    /\ UNCHANGED <<case, links, job>>

ItemStep(p, n) ==
    \/ Begin(p, n) \/ Look(p, n) \/ SeeLock(p, n) \/ Fetch(p, n) \/ MakeFolder(p, n)
    \/ LockFile(p, n) \/ Extract(p, n) \/ Write(p, n) \/ Unlock(p, n) \/ Clean(p, n)
    \/ Relink(p, n) \/ CopyFile(p, n) \/ CopyRest(p, n)
    \/ LinkCopy(p, n) \/ Initialized(p, n)
Step(p) ==
    \/ Call(p) \/ Flag(p) \/ AllPackages(p) \/ AllCopies(p) \/ Links(p)
    \/ program[p].pc \in {"packages", "copies"} /\ \E n \in Item : ItemStep(p, n)

Next == \E p \in Program : Step(p) \/ Killed(p)

Spec == Init /\ [][Next]_vars
-----------------------------------------------------------------------------
(* Properties                                                              *)

TypeOK ==
    /\ \A n \in Item : /\ cache[n] \in [there : BOOLEAN, lock : BOOLEAN, content : Content]
                       /\ modules[n] \in [init : BOOLEAN, content : Content]
    /\ Cardinality(flag) <= 1

Busy(n, steps) == \E p \in Program : ~Ended(p) /\ job[p][n] \in steps

\* Of programs that share the cache, one that is not done with the folder of a package; a
\* copy can be made of a folder that another one has not filled, and stay so.
Attended(n) == Shared(case) /\ (n \in Copy \/ Busy(n, {"lock", "extract", "write", "unlock"}))

\* "This sync lock file is a way to ensure that partially created npm package
\* directories aren't considered valid" (cache.rs:55): a folder without it is whole, but for
\* the moment before it is there and the one in which the folder is removed.  Where programs
\* fill the cache at once, one removes the lock file of the other: a package's folder is
\* whole when none of them is at it any more.
CacheWhole ==
    \A n \in Item : cache[n].there /\ ~cache[n].lock /\ ~Busy(n, {"lock", "clean"}) =>
        cache[n].content = "whole" \/ Attended(n)

\* "a file that indicates this folder has been initialized": what has it is whole,
\* unless it is being copied again or linked again.
Rewritten(n) == Busy(n, {"relink"}) \/ \E m \in Item : n \in Family(m) /\ Busy(m, {"copying"})
ModulesWhole ==
    \A n \in Item : modules[n].init /\ ~Rewritten(n) => modules[n].content = "whole"

\* When cache_packages returns without an error, all packages and copies are whole and
\* in place, whatever an earlier program of such a case has left, or another program is
\* about to make them so.
Whole(p) ==
    \A n \in Item : IF InModules(p) THEN n \in links /\ (modules[n].content = "whole" \/ Rewritten(n))
                    ELSE (cache[n].content = "whole" /\ ~cache[n].lock) \/ Attended(n)
DoneStep ==
    \A p \in Program : program'[p].pc = "done" /\ program[p].pc # "done" => Whole(p)'
DoneWhole == [][DoneStep]_vars

\* "a package is only downloaded once per run", with --reload and without.
OncePerRun == \A p \in Program : ~program[p].again
=============================================================================
