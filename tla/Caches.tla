------------------------------- MODULE Caches -------------------------------
(***************************************************************************)
(* What a worker reads instead of doing it again: the SQLite databases     *)
(* (CacheDb, whose names this module has), the emit cache, the file        *)
(* fetcher over the HTTP cache, the age of what is in it (CacheSemantics), *)
(* and the incremental cache.                                              *)
(*                                                                         *)
(* The five share no state.  A behaviour is one of a single part, as the   *)
(* variable part says, and the variables of the other parts keep their     *)
(* first value.                                                            *)
(***************************************************************************)
EXTENDS CacheDb, Integers

CONSTANTS
    Emitter, EmitterVersion, Code, Transpile, NoFile,      \* of EmitCache: Loader and VersionOf
    Loader, Settings, Url, Root, Served, MaxRedirects,     \* of FileFetcher
    Faults, Body, Etag, Empty,
    Responses, Times, MaxSecs,                             \* of CacheSemantics
    Program, File, State, Text, Big, MaxSent, MaxWaits     \* of IncrementalCache

VARIABLES
    part,                                                  \* "db", "emit", "fetch", "ages"
                                                           \* or "incremental"
    meta, emit, emitPc, source, seen, emitted,             \* of EmitCache: pc and result
    current, content, metadata, setting, task, asked,      \* of FileFetcher: result
    memory, fetched,
    response, now,                                         \* of CacheSemantics
    table, prog, recorded                                  \* of IncrementalCache

emitVars == <<meta, emit, emitPc, source, seen, emitted>>
fetchVars == <<current, content, metadata, setting, task, asked, memory, fetched>>
agesVars == <<response, now>>
incrementalVars == <<table, prog, recorded>>
allVars == <<part, vars, emitVars, fetchVars, agesVars, incrementalVars>>

Emit == INSTANCE EmitCache WITH
    Loader <- Emitter, VersionOf <- EmitterVersion, pc <- emitPc, result <- emitted
Fetch == INSTANCE FileFetcher WITH result <- fetched
Ages == INSTANCE CacheSemantics
Incremental == INSTANCE IncrementalCache

ASSUME ConstantsAreOK ==
    Emit!ConstantsOK /\ Fetch!ConstantsOK /\ Ages!ConstantsOK /\ Incremental!ConstantsOK

-----------------------------------------------------------------------------
\* The databases as they are before anything is done.
NoDb == Init /\ file = None
NoEmit == meta = "" /\ emit = "" /\ emitPc = "" /\ source = "" /\ seen = "" /\ emitted = ""
NoFetch ==
    /\ current = "" /\ content = "" /\ metadata = "" /\ setting = "" /\ task = "" /\ asked = ""
    /\ memory = "" /\ fetched = ""
NoAges == response = "" /\ now = ""
NoIncremental == table = "" /\ prog = "" /\ recorded = ""

CachesInit ==
    \/ part = "db" /\ Init /\ NoEmit /\ NoFetch /\ NoAges /\ NoIncremental
    \/ part = "emit" /\ Emit!Init /\ NoDb /\ NoFetch /\ NoAges /\ NoIncremental
    \/ part = "fetch" /\ Fetch!Init /\ NoDb /\ NoEmit /\ NoAges /\ NoIncremental
    \/ part = "ages" /\ Ages!Init /\ NoDb /\ NoEmit /\ NoFetch /\ NoIncremental
    \/ part = "incremental" /\ Incremental!Init /\ NoDb /\ NoEmit /\ NoFetch /\ NoAges

NotDb == <<emitVars, fetchVars, agesVars, incrementalVars>>
NotEmit == <<vars, fetchVars, agesVars, incrementalVars>>
NotFetch == <<vars, emitVars, agesVars, incrementalVars>>
NotAges == <<vars, emitVars, fetchVars, incrementalVars>>
NotIncremental == <<vars, emitVars, fetchVars, agesVars>>

\* An age and a cache that nobody uses may stay as they are.
CachesNext ==
    /\ \/ part = "db" /\ Next /\ UNCHANGED NotDb
       \/ part = "emit" /\ Emit!Next /\ UNCHANGED NotEmit
       \/ part = "fetch" /\ Fetch!Next /\ UNCHANGED NotFetch
       \/ part = "ages" /\ Ages!Next /\ UNCHANGED NotAges
       \/ part = "incremental" /\ Incremental!Next /\ UNCHANGED NotIncremental
    /\ UNCHANGED part

CachesSpec == CachesInit /\ [][CachesNext]_allVars

\* The fairness of CacheDb and FileFetcher: see FairSpec in each.
FairCachesSpec ==
    /\ CachesSpec
    /\ \A h \in Handle : WF_vars(part = "db" /\ HandleStep(h))
    /\ \A j \in Job : WF_vars(part = "db" /\ JobStep(j))
    /\ \A l \in Loader : WF_fetchVars(part = "fetch" /\ Fetch!Step(l))

-----------------------------------------------------------------------------
(* Properties                                                              *)

\* EmitCorrect of EmitCache: a loader gets what its own release makes of its source.
EmitCorrect == part = "emit" => Emit!TypeOK /\ Emit!EmitCorrect

\* FetchCorrect and FailuresJustified of FileFetcher: a fetch returns code of the URL at the
\* end of the redirects, and fails for a reason only.
FetchSound == part = "fetch" => Fetch!TypeOK /\ Fetch!FetchCorrect /\ Fetch!FailuresJustified

\* FetchesReturn of FileFetcher: a fetch comes to an end, also in a circle of redirects.
FetchesReturn == \A l \in Loader : []<>(part = "fetch" => task[l].pc = "idle")

\* ReloadIsFresh of FileFetcher: a loader that reloads alone gets code that its server had
\* since it asked.
ReloadIsFresh == [][part = "fetch" => Fetch!ReloadStep]_allVars

\* FreshnessFades of CacheSemantics: a response that is stale stays so as time goes on.
FreshnessFades == [][part = "ages" => Ages!FreshnessStep]_allVars

\* UsedInTime of CacheSemantics, SkippedWasRecorded and WaitedIsTried of IncrementalCache: what
\* is taken from a cache instead of being done again was allowed by its server, or was
\* recorded with this text and configuration.
ReuseJustified ==
    /\ part = "ages" => Ages!TypeOK /\ Ages!UsedInTime
    /\ part = "incremental" => /\ Incremental!TypeOK
                               /\ Incremental!SkippedWasRecorded /\ Incremental!WaitedIsTried

=============================================================================
