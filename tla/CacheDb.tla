------------------------------- MODULE CacheDb -------------------------------
(***************************************************************************)
(* The SQLite caches of module_fetcher: CacheDB (cache/cache_db.rs) under  *)
(* the analysis cache of parsed_source.rs.                                 *)
(*                                                                         *)
(* Each worker's module loader has a CacheDB of its own (a handle) on one  *)
(* file, which servers of this and other releases share.  A handle opens   *)
(* its connection under a mutex, whoever gets there first: the thread that *)
(* from_path spawns or an analysis.  A statement is atomic, and nothing    *)
(* joins two statements: each is committed on its own.                     *)
(*                                                                         *)
(* The path of the file and the file are two things, as they are to Unix:  *)
(* a file that is removed stays with the connections that have it.  An in- *)
(* memory database is a file without a path.                               *)
(***************************************************************************)
EXTENDS Naturals, Sequences

CONSTANTS
    Handle,    \* CacheDB objects
    Version,   \* what crate::version::deno() says
    VersionOf, \* VersionOf[h]: the version handle h is given
    Overlap,   \* TRUE: handles of two versions may be there at the same time
    Job,       \* analyses
    Key,       \* specifiers with their table
    Source,    \* texts of modules, as told apart by their hash
    Wanted,    \* the keys and texts that are analysed
    Earlier,   \* texts analysed by the servers before
    Tables,    \* the tables that on_version_change deletes, each a set of keys
    Policies,  \* the values of on_failure: subset of Failures
    Inode,     \* files
    MaxErrors, \* bound on statements and system calls that fail
    None

Failures == {"InMemory", "Blackhole", "Error"}

Row   == [src : Source, by : Version]
Eager == "eager"   \* the init thread, as the holder of the mutex

ASSUME ConstantsAssumption ==
    /\ VersionOf \in [Handle -> Version]
    /\ Overlap \in BOOLEAN
    /\ Wanted \subseteq Key \X Source /\ Earlier \subseteq Source
    /\ Tables \in Seq(SUBSET Key)
    /\ \A k \in Key : \E i \in 1..Len(Tables) : k \in Tables[i]
    /\ Policies \subseteq Failures
    /\ MaxErrors \in Nat
    /\ Inode # {}
    /\ None \notin Version \cup Job \cup Inode \cup Handle \cup Row \cup {Eager}

VARIABLES
    file,    \* the file at the path, or None
    disk,    \* the contents of the files
    policy,  \* config.on_failure, or None as long as it does not matter
    conn,    \* conn[h]: the ConnectionState of handle h
    at,      \* at[h]: the file it has open, or None
    stage,   \* stage[h]: where in open_connection it is
    tries,   \* tries[h]: the attempts it has made
    cleared, \* cleared[h]: the tables this attempt has cleared
    lock,    \* lock[h]: who holds the mutex conn
    pc,      \* pc[j]: where analysis j is
    on,      \* on[j]: its handle
    key, src, \* what it analyses
    result,  \* what it returns
    errors   \* failures so far

dbVars  == <<file, disk, policy>>
optVars == <<conn, at, stage, tries, cleared>>
jobVars == <<on, key, src>>
vars == <<dbVars, optVars, lock, pc, jobVars, result, errors>>

Contents == [version : Version \cup {None},
             rows : [Key -> Row \cup {None}],
             good : BOOLEAN]
Blank == [version |-> None, rows |-> [k \in Key |-> None], good |-> TRUE]

Connections == {"off", "unset", "connected", "Blackhole", "Error", "gone"}
Opening     == {"open", "check", "clear", "preheat"}
Stages      == Opening \cup {"none", "remove", "fallback"}

Live(h) == conn[h] \notin {"off", "gone"}
Free    == {n \in Inode : n # file /\ \A h \in Handle : at[h] # n}

\* A file without a path and a connection is no more.
FreeUnused == disk' = [n \in Inode |-> IF n \in Free' THEN Blank ELSE disk[n]]

Filled(v, s) ==
    [version |-> v, rows |-> [k \in Key |-> [src |-> s, by |-> v]], good |-> TRUE]

\* The file there is: none, one that is not a database, or one of some version.
Init ==
    /\ file \in {None, CHOOSE n \in Inode : TRUE}
    /\ IF file = None
       THEN disk = [n \in Inode |-> Blank]
       ELSE \E f \in {[Blank EXCEPT !.good = FALSE]}
                        \cup {Filled(v, s) : v \in Version, s \in Earlier} :
              disk = [n \in Inode |-> IF n = file THEN f ELSE Blank]
    /\ policy = None
    /\ conn = [h \in Handle |-> "off"]
    /\ at = [h \in Handle |-> None]
    /\ stage = [h \in Handle |-> "none"]
    /\ tries = [h \in Handle |-> 0]
    /\ cleared = [h \in Handle |-> 0]
    /\ lock = [h \in Handle |-> None]
    /\ pc = [j \in Job |-> "idle"]
    /\ on = [j \in Job |-> None]
    /\ key = [j \in Job |-> None]
    /\ src = [j \in Job |-> None]
    /\ result = [j \in Job |-> None]
    /\ errors = 0

AnError == errors < MaxErrors /\ errors' = errors + 1

-----------------------------------------------------------------------------
(* A handle comes and goes.                                                *)

\* from_path, with the thread that is to open the connection.
FromPath(h) ==
    /\ conn[h] = "off"
    /\ Overlap \/ \A g \in Handle : Live(g) => VersionOf[g] = VersionOf[h]
    /\ conn' = [conn EXCEPT ![h] = "unset"]
    /\ UNCHANGED <<dbVars, at, stage, tries, cleared, lock, pc, jobVars, result, errors>>

\* Its worker, or the whole server, ends, whatever it was doing.
Ends(h) ==
    /\ Live(h)
    /\ conn' = [conn EXCEPT ![h] = "gone"]
    /\ at' = [at EXCEPT ![h] = None]
    /\ stage' = [stage EXCEPT ![h] = "none"]
    /\ lock' = [lock EXCEPT ![h] = None]
    /\ tries' = [tries EXCEPT ![h] = 0]
    /\ cleared' = [cleared EXCEPT ![h] = 0]
    /\ LET Lost(j) == on[j] = h /\ pc[j] # "done" IN
       /\ pc' = [j \in Job |-> IF Lost(j) THEN "lost" ELSE pc[j]]
       /\ on' = [j \in Job |-> IF Lost(j) THEN None ELSE on[j]]
       /\ key' = [j \in Job |-> IF Lost(j) THEN None ELSE key[j]]
       /\ src' = [j \in Job |-> IF Lost(j) THEN None ELSE src[j]]
       /\ result' = [j \in Job |-> IF Lost(j) THEN None ELSE result[j]]
    /\ UNCHANGED <<file, policy, errors>>
    /\ FreeUnused

-----------------------------------------------------------------------------
(* initialize: get_or_init under the mutex.                                *)

\* who finds the cell unset, and keeps the mutex until it is set.
Begins(h, who) ==
    /\ conn[h] = "unset" /\ lock[h] = None
    /\ lock' = [lock EXCEPT ![h] = who]
    /\ stage' = [stage EXCEPT ![h] = "open"]
    /\ tries' = [tries EXCEPT ![h] = 1]
    /\ UNCHANGED <<dbVars, conn, at, cleared, pc, jobVars, result, errors>>

\* The thread does nothing if it comes late.
InitThread(h) == Begins(h, Eager)
JobBegins(j)  == pc[j] \in {"get", "set"} /\ Begins(on[j], j)

-----------------------------------------------------------------------------
(* open_connection                                                         *)

ToStage(h, s, t) == stage[h] = s /\ stage' = [stage EXCEPT ![h] = t]
inOpening == <<pc, jobVars, result>>

\* The cell is set: the init thread is done, an analysis goes on.
Opened(h, c) ==
    /\ conn' = [conn EXCEPT ![h] = c]
    /\ tries' = [tries EXCEPT ![h] = 0]
    /\ lock' = [lock EXCEPT ![h] = IF @ = Eager THEN None ELSE @]

\* h gets a file of its own.
Creates(h, n) ==
    /\ n \in Free /\ n = CHOOSE m \in Free : TRUE
    /\ disk' = [disk EXCEPT ![n] = Blank]
    /\ at' = [at EXCEPT ![h] = n]

\* Connection::open makes the file if there is none.
Open(h) ==
    /\ ToStage(h, "open", "check")
    /\ IF file = None
       THEN \E n \in Inode : Creates(h, n) /\ file' = n
       ELSE at' = [at EXCEPT ![h] = file] /\ UNCHANGED <<file, disk>>
    /\ UNCHANGED <<inOpening, policy, lock, conn, tries, cleared, errors>>

\* The tables are created where they are missing, and the version is read.
SameVersion(h) ==
    /\ ToStage(h, "check", "preheat")
    /\ disk[at[h]].good /\ disk[at[h]].version = VersionOf[h]
    /\ UNCHANGED <<inOpening, policy, lock, file, disk, conn, at, tries, cleared, errors>>

OtherVersion(h) ==
    /\ ToStage(h, "check", "clear")
    /\ disk[at[h]].good /\ disk[at[h]].version # VersionOf[h]
    /\ UNCHANGED <<inOpening, policy, lock, file, disk, conn, at, tries, cleared, errors>>

\* on_version_change, a DELETE for each table.
Clear(h) ==
    /\ stage[h] = "clear" /\ cleared[h] < Len(Tables)
    /\ cleared' = [cleared EXCEPT ![h] = @ + 1]
    /\ disk' = [disk EXCEPT ![at[h]].rows =
                  [k \in Key |-> IF k \in Tables[cleared[h] + 1] THEN None ELSE @[k]]]
    /\ UNCHANGED <<inOpening, policy, lock, file, conn, at, stage, tries, errors>>

OneCleared(h) == cleared[h] > 0   \* mutant: a table is left as it is
AllCleared(h) == cleared[h] = Len(Tables)

\* The version is written after the tables are cleared, so that whoever is
\* interrupted in between leaves the work to the next.
Mark(h) ==
    /\ ToStage(h, "clear", "preheat") /\ AllCleared(h)
    /\ disk' = [disk EXCEPT ![at[h]].version = VersionOf[h]]
    /\ cleared' = [cleared EXCEPT ![h] = 0]
    /\ UNCHANGED <<inOpening, policy, lock, file, conn, at, tries, errors>>

Preheat(h) ==
    /\ ToStage(h, "preheat", "none")
    /\ Opened(h, "connected")
    /\ UNCHANGED <<inOpening, dbVars, at, cleared, errors>>

AlwaysAgain(h) == "open"   \* mutant: retries for ever
AfterFailure(h) == <<"open", "remove", "fallback">>[tries[h]]

KeepsOpen(h) == UNCHANGED at   \* mutant: the connection is not dropped
Closes(h) == at' = [at EXCEPT ![h] = None]

\* A file that is no database, or any error, ends an attempt: the second one
\* follows, then the file is removed for the third one.
AttemptFails(h) ==
    /\ stage[h] \in Opening /\ tries[h] \in 1..3
    /\ \/ stage[h] = "check" /\ ~disk[at[h]].good /\ UNCHANGED errors
       \/ AnError
    /\ Closes(h)
    /\ stage' = [stage EXCEPT ![h] = AfterFailure(h)]
    /\ tries' = [tries EXCEPT ![h] = IF @ = 1 THEN 2 ELSE @]
    /\ cleared' = [cleared EXCEPT ![h] = 0]
    /\ UNCHANGED <<inOpening, policy, lock, file, conn>>
    /\ FreeUnused

\* Whichever file is at the path by now, be it another handle's new one.
Remove(h) ==
    /\ file # None
    /\ ToStage(h, "remove", "open")
    /\ file' = None
    /\ tries' = [tries EXCEPT ![h] = 3]
    /\ UNCHANGED <<inOpening, policy, lock, conn, at, cleared, errors>>
    /\ FreeUnused

RemoveFails(h) ==
    /\ ToStage(h, "remove", "fallback")
    /\ \/ file = None /\ UNCHANGED errors
       \/ file # None /\ AnError
    /\ UNCHANGED <<inOpening, policy, lock, file, disk, conn, at, tries, cleared>>

Decided(p) == policy \in {p, None} /\ p \in Policies /\ policy' = p

\* The in-memory database goes through the same initialization, which does
\* not fail ("should never fail unless something is very wrong").
FallsBackToMemory(h) ==
    /\ Decided("InMemory")
    /\ ToStage(h, "fallback", "check")
    /\ \E n \in Inode : Creates(h, n)
    /\ tries' = [tries EXCEPT ![h] = 4]
    /\ UNCHANGED <<inOpening, lock, file, conn, cleared, errors>>

FallsBack(h) ==
    /\ \E p \in Failures \ {"InMemory"} : Decided(p)
    /\ ToStage(h, "fallback", "none")
    /\ Opened(h, policy')
    /\ UNCHANGED <<inOpening, file, disk, at, cleared, errors>>

-----------------------------------------------------------------------------
(* analyze: look the module up, or analyse it and store what was found.    *)

Analysis(j) == [src |-> src[j], by |-> VersionOf[on[j]]]
Stored(j)   == disk[at[on[j]]].rows[key[j]]

Analyze(j, h, k, s) ==
    /\ pc[j] = "idle" /\ Live(h) /\ <<k, s>> \in Wanted
    /\ pc' = [pc EXCEPT ![j] = "get"]
    /\ on' = [on EXCEPT ![j] = h]
    /\ key' = [key EXCEPT ![j] = k]
    /\ src' = [src EXCEPT ![j] = s]
    /\ UNCHANGED <<dbVars, optVars, lock, result, errors>>

\* with_connection: one statement under the mutex, which is free or still j's.
WithConnection(j) ==
    /\ conn[on[j]] # "unset" /\ lock[on[j]] \in {None, j}
    /\ lock' = [lock EXCEPT ![on[j]] = None]
    /\ UNCHANGED <<optVars, jobVars>>

AnyRow(j) == Stored(j) # None   \* mutant: source_hash is not looked at
Matches(j) == Stored(j) # None /\ Stored(j).src = src[j]
Found(j) == conn[on[j]] = "connected" /\ Matches(j)

\* get_module_info finds a row.
Hit(j) ==
    /\ pc[j] = "get" /\ WithConnection(j)
    /\ Found(j)
    /\ result' = [result EXCEPT ![j] = Stored(j)]
    /\ pc' = [pc EXCEPT ![j] = "done"]
    /\ UNCHANGED <<dbVars, errors>>

\* It finds none, or fails: the module is analysed, without the mutex.
Miss(j) ==
    /\ pc[j] = "get" /\ WithConnection(j)
    /\ \/ ~Found(j) /\ UNCHANGED errors
       \/ Found(j) /\ AnError
    /\ result' = [result EXCEPT ![j] = Analysis(j)]
    /\ pc' = [pc EXCEPT ![j] = "set"]
    /\ UNCHANGED dbVars

\* set_module_info, which does nothing in a black hole; errors are logged.
Set(j) ==
    /\ pc[j] = "set" /\ WithConnection(j)
    /\ \/ /\ conn[on[j]] = "connected"
          /\ disk' = [disk EXCEPT ![at[on[j]]].rows[key[j]] = result[j]]
          /\ UNCHANGED errors
       \/ conn[on[j]] # "connected" /\ UNCHANGED <<disk, errors>>
       \/ conn[on[j]] = "connected" /\ AnError /\ UNCHANGED disk
    /\ pc' = [pc EXCEPT ![j] = "done"]
    /\ UNCHANGED <<file, policy, result>>

-----------------------------------------------------------------------------
Finished == (\A j \in Job : pc[j] \in {"done", "lost"}) /\ UNCHANGED vars
NoHandle == (\A h \in Handle : conn[h] = "gone") /\ UNCHANGED vars

OpenStep(h) ==
    \/ Open(h) \/ SameVersion(h) \/ OtherVersion(h) \/ Clear(h)
    \/ Mark(h) \/ Preheat(h) \/ AttemptFails(h) \/ Remove(h) \/ RemoveFails(h)
    \/ FallsBackToMemory(h) \/ FallsBack(h)

HandleStep(h) == InitThread(h) \/ OpenStep(h)
JobStep(j)    == JobBegins(j) \/ Hit(j) \/ Miss(j) \/ Set(j)

Next ==
    \/ \E h \in Handle : FromPath(h) \/ Ends(h) \/ HandleStep(h)
    \/ \E j \in Job, h \in Handle, k \in Key, s \in Source : Analyze(j, h, k, s)
    \/ \E j \in Job : JobStep(j)
    \/ Finished \/ NoHandle

Spec == Init /\ [][Next]_vars

\* Threads run, and a mutex that is free goes to one of those who wait for it.
FairSpec == Spec /\ \A h \in Handle : WF_vars(HandleStep(h))
                 /\ \A j \in Job : WF_vars(JobStep(j))

-----------------------------------------------------------------------------
\* A handle has a file open while it initializes it and when it is connected,
\* and opens its connection with the mutex held.
Attached ==
    \A h \in Handle :
        /\ at[h] # None <=>
               stage[h] \in {"check", "clear", "preheat"} \/ conn[h] = "connected"
        /\ stage[h] # "none" => conn[h] = "unset" /\ lock[h] # None

\* An analysis has a handle, which is there at least until it is over.
Placed ==
    \A j \in Job :
        /\ pc[j] \in {"get", "set", "done"} =>
               on[j] \in Handle /\ key[j] \in Key /\ src[j] \in Source
        /\ pc[j] \in {"get", "set"} => Live(on[j])
        /\ pc[j] \in {"set", "done"} => result[j] \in Row

\* The types of the variables.
TypeOK ==
    /\ Attached
    /\ Placed
    /\ file \in Inode \cup {None}
    /\ disk \in [Inode -> Contents]
    /\ policy \in Failures \cup {None}
    /\ conn \in [Handle -> Connections]
    /\ at \in [Handle -> Inode \cup {None}]
    /\ stage \in [Handle -> Stages]
    /\ tries \in [Handle -> 0..4]
    /\ cleared \in [Handle -> 0..Len(Tables)]
    /\ lock \in [Handle -> Job \cup {Eager, None}]
    /\ pc \in [Job -> {"idle", "get", "set", "done", "lost"}]
    /\ on \in [Job -> Handle \cup {None}]
    /\ key \in [Job -> Key \cup {None}]
    /\ src \in [Job -> Source \cup {None}]
    /\ result \in [Job -> Row \cup {None}]
    /\ errors \in 0..MaxErrors

\* Why the next two properties hold, for one version at a time: the handles
\* that are there have one version; it is the one in the file of those that
\* are connected or about to be; and one that is clearing the tables leaves
\* nothing behind that it, or another of its version, has not put there.
OneVersion == \A g, h \in Handle : Live(g) /\ Live(h) => VersionOf[g] = VersionOf[h]

Trusts(h) ==
    stage[h] = "preheat" \/ conn[h] = "connected" => disk[at[h]].version = VersionOf[h]

Clears(h) ==
    IF stage[h] = "clear"
    THEN \A i \in 1..cleared[h] : \A k \in Tables[i] :
            disk[at[h]].rows[k] # None => disk[at[h]].rows[k].by = VersionOf[h]
    ELSE cleared[h] = 0

(* "SQL to run when the version changes" (cache_db.rs:30): whatever is in  *)
(* a file was put there by the version that the file names, however often  *)
(* the change of version was interrupted, failed or was done twice, unless *)
(* two versions use the file at the same time.                             *)
RowsOfVersion ==
    \A n \in Inode, k \in Key :
        disk[n].rows[k] # None => disk[n].rows[k].by = disk[n].version
FileOfOneVersion == ~Overlap => RowsOfVersion

(* analyze returns what the analyser of its own version makes of the very  *)
(* text it was given, be it from the cache or not, and whatever became of  *)
(* the file.                                                               *)
ResultsRight == \A j \in Job : pc[j] \in {"set", "done"} => result[j] = Analysis(j)
AnalysisCorrect == ~Overlap => ResultsRight

\* The inductive invariant.
Safe ==
    /\ OneVersion
    /\ \A h \in Handle : Trusts(h) /\ Clears(h)
    /\ RowsOfVersion
    /\ ResultsRight
Inv == TypeOK /\ (~Overlap => Safe)

(* A cache that is broken, busy or gone costs time and never an analysis:  *)
(* each one returns, unless its worker ends.                               *)
AnalysesReturn ==
    \A j \in Job : []<>(pc[j] \notin {"get", "set"})

=============================================================================
