----------------------------- MODULE NpmRegistry -----------------------------
(***************************************************************************)
(* What is known of npm packages (npm/registry.rs): package_info answers   *)
(* from memory, from the file registry.json in the cache, or from the      *)
(* registry, and cache_in_parallel asks for many packages at once.         *)
(*                                                                         *)
(* The callers are the batches of requirements of NpmResolution, one at a  *)
(* time, which ask, work and then clear the memory, and the installer of   *)
(* package.json, which only asks.  What the registry says of a package is  *)
(* the number of its latest release; 0: there is no such package.          *)
(***************************************************************************)
EXTENDS Naturals, Sequences, FiniteSets, SequencesExt

CONSTANTS
    Name,      \* packages
    Caller,    \* those who ask
    Cases,     \* what they ask for, see Init
    Releases   \* bound: releases of a package

VARIABLES
    case,      \* the case at hand; never changes
    latest,    \* latest[n]: what the registry answers
    file,      \* file[n]: registry.json; 0 if there is none that can be read
    memory,    \* mem_cache
    reloaded,  \* previously_reloaded_packages
    load,      \* load[c][i]: a call of maybe_package_info by c, for wants[i]
    caller,    \* caller[c]: "idle", "caching", "using", "done" or "failed"
    faulted    \* whether a request has failed

cache == <<file, memory, reloaded>>
vars == <<case, latest, cache, load, caller, faulted>>

\* A case is [setting, sync, wants, batch, faults]: the cache setting, whether downloads
\* are in order, the sequence of names of each caller, who is a batch.
Wants(c) == case.wants[c]

ConstantsOK ==
    /\ Releases \in Nat
    /\ \A k \in Cases : /\ k.wants \in [Caller -> Seq(Name)] /\ k.batch \in [Caller -> BOOLEAN]
                        /\ k.latest \in [Name -> 0..Releases]
                        /\ k.file \in [Name -> 0..Releases]

\* should_use_for_npm_package
AlwaysUsed(name) == TRUE   \* mutant: --reload is ignored
UsesFile(name) ==
    CASE case.setting.kind = "ReloadAll"  -> FALSE
      [] case.setting.kind = "ReloadSome" -> name \notin case.setting.list
      [] OTHER                            -> TRUE

Call == [pc : {"idle", "missed", "file", "ask", "save", "store", "done", "error"},
         got : 0..Releases]
NotCalled == [pc |-> "idle", got |-> 0]

Init ==
    /\ case \in Cases
    /\ latest = case.latest /\ file = case.file
    /\ memory = <<>> /\ reloaded = {}
    /\ load = [c \in Caller |-> [i \in DOMAIN Wants(c) |-> NotCalled]]
    /\ caller = [c \in Caller |-> "idle"]
    /\ faulted = FALSE

-----------------------------------------------------------------------------
(* maybe_package_info, one step for each lock or file it takes             *)

At(c, i, pc) == i \in DOMAIN Wants(c) /\ load[c][i].pc = pc
Goes(c, i, pc, got) == load' = [load EXCEPT ![c][i] = [pc |-> pc, got |-> got]]

\* package_info fails for a package that does not exist.
Bad(l) == l.pc = "error" \/ (l.pc = "done" /\ l.got = 0)

\* The calls of cache_in_parallel are spawned together, or made in order up to the first that
\* fails when downloads are synchronous; a batch calls again for each name, in order, while
\* it works.
MayCall(c, i) ==
    \/ caller[c] = "caching" /\ ~case.sync
    \/ /\ caller[c] = "using" \/ (caller[c] = "caching" /\ case.sync)
       /\ \A j \in 1..(i - 1) : load[c][j].pc = "done" /\ ~Bad(load[c][j])

Lookup(c, i) ==
    LET name == Wants(c)[i] IN
    /\ At(c, i, "idle") /\ MayCall(c, i)
    /\ IF name \in DOMAIN memory THEN Goes(c, i, "done", memory[name])
       ELSE Goes(c, i, "missed", 0)
    /\ UNCHANGED <<case, latest, cache, caller, faulted>>

\* The file is for those who may use it, and for a package that was reloaded before.
Choose(c, i) ==
    LET name == Wants(c)[i] IN
    /\ At(c, i, "missed")
    /\ Goes(c, i, IF UsesFile(name) \/ name \in reloaded THEN "file" ELSE "ask", 0)
    /\ reloaded' = IF UsesFile(name) THEN reloaded ELSE reloaded \cup {name}
    /\ UNCHANGED <<case, latest, file, memory, caller, faulted>>

ReadFile(c, i) ==
    LET got == file[Wants(c)[i]] IN
    /\ At(c, i, "file")
    /\ Goes(c, i, IF got = 0 THEN "ask" ELSE "store", got)
    /\ UNCHANGED <<case, latest, cache, caller, faulted>>

\* load_package_info_from_registry: with CacheSetting::Only there is no request.
Answer(c, i) ==
    LET got == latest[Wants(c)[i]] IN
    /\ At(c, i, "ask") /\ case.setting.kind # "Only"
    /\ Goes(c, i, IF got = 0 THEN "store" ELSE "save", got)
    /\ UNCHANGED <<case, latest, cache, caller, faulted>>
NoAnswer(c, i) ==
    /\ At(c, i, "ask") /\ (case.setting.kind = "Only" \/ case.faults)
    /\ Goes(c, i, "error", 0)
    /\ faulted' = TRUE
    /\ UNCHANGED <<case, latest, cache, caller>>

SaveFile(c, i) ==
    /\ At(c, i, "save")
    /\ file' = [file EXCEPT ![Wants(c)[i]] = load[c][i].got]
    /\ Goes(c, i, "store", load[c][i].got)
    /\ UNCHANGED <<case, latest, memory, reloaded, caller, faulted>>

\* Whoever comes first stores what it has, the others use that.
Store(c, i) ==
    LET name == Wants(c)[i]
        info == IF name \in DOMAIN memory THEN memory[name] ELSE load[c][i].got IN
    /\ At(c, i, "store")
    /\ memory' = [n \in DOMAIN memory \cup {name} |-> IF n = name THEN info ELSE memory[n]]
    /\ Goes(c, i, "done", info)
    /\ UNCHANGED <<case, latest, file, reloaded, caller, faulted>>

-----------------------------------------------------------------------------
(* The callers                                                             *)

Working(c) == caller[c] \in {"caching", "using"}

\* A batch has the only permit of update_queue.
Begin(c) ==
    /\ caller[c] = "idle"
    /\ case.batch[c] => ~\E d \in Caller : case.batch[d] /\ Working(d)
    /\ caller' = [caller EXCEPT ![c] = "caching"]
    /\ UNCHANGED <<case, latest, cache, load, faulted>>

Refused(c) == \E i \in DOMAIN Wants(c) : Bad(load[c][i])
Ended(c) == \A i \in DOMAIN Wants(c) : load[c][i].pc \in {"done", "error"}

\* All the calls of cache_in_parallel are waited for, or those up to an error; the
\* installer has no more to ask, a batch asks again for each name, in order.
Cached(c) ==
    /\ caller[c] = "caching"
    /\ \/ Ended(c) /\ ~Refused(c)
          /\ caller' = [caller EXCEPT ![c] = IF case.batch[c] THEN "using" ELSE "done"]
          /\ load' = IF case.batch[c]
                     THEN [load EXCEPT ![c] = [i \in DOMAIN Wants(c) |-> NotCalled]]
                     ELSE load
       \/ (Ended(c) \/ case.sync) /\ Refused(c)
          /\ caller' = [caller EXCEPT ![c] = "failed"]
          /\ UNCHANGED load
    /\ UNCHANGED <<case, latest, cache, faulted>>

\* The end of a batch: clear_memory_cache, unless it fails before.
Used(c) ==
    /\ caller[c] = "using"
    /\ \/ Ended(c) /\ ~Refused(c)
          /\ caller' = [caller EXCEPT ![c] = "done"] /\ memory' = <<>>
       \/ Refused(c)
          /\ caller' = [caller EXCEPT ![c] = "failed"] /\ UNCHANGED memory
    /\ UNCHANGED <<case, latest, file, reloaded, load, faulted>>

\* A release is published, or the first one.
Publish(n) ==
    /\ latest[n] < Releases
    /\ latest' = [latest EXCEPT ![n] = @ + 1]
    /\ UNCHANGED <<case, cache, load, caller, faulted>>

CallStep(c, i) ==
    \/ Lookup(c, i) \/ Choose(c, i) \/ ReadFile(c, i) \/ Answer(c, i) \/ NoAnswer(c, i)
    \/ SaveFile(c, i) \/ Store(c, i)
Step(c) ==
    Begin(c) \/ Cached(c) \/ Used(c) \/ \E i \in DOMAIN Wants(c) : CallStep(c, i)

Next == (\E c \in Caller : Step(c)) \/ \E n \in Name : Publish(n)

Spec == Init /\ [][Next]_vars
-----------------------------------------------------------------------------
(* Properties                                                              *)

TypeOK ==
    /\ latest \in [Name -> 0..Releases] /\ file \in [Name -> 0..Releases]
    /\ DOMAIN memory \subseteq Name /\ \A n \in DOMAIN memory : memory[n] \in 0..Releases
    /\ reloaded \subseteq Name
    /\ \A c \in Caller : /\ load[c] \in [DOMAIN Wants(c) -> Call]
                         /\ caller[c] \in {"idle", "caching", "using", "done", "failed"}

\* A batch that has cached its packages is told the same of each of them whenever it
\* asks, although the registry, other callers and the file change meanwhile: the
\* versions it chose are looked up again ("missing: ...").
SameInfo ==
    \A c \in Caller : case.batch[c] /\ caller[c] = "using" =>
        \A i \in DOMAIN Wants(c) :
            /\ Wants(c)[i] \in DOMAIN memory
            /\ load[c][i].pc \in {"idle", "done"}
            /\ load[c][i].pc = "done" => load[c][i].got = memory[Wants(c)[i]]

\* "No cached source files should be used, and all files should be reloaded"
\* (CacheSetting::ReloadAll, util/cache_setting.rs:7): what is in memory is not from before the
\* program.  In general the code does not keep this: a package counts as reloaded before its
\* load has succeeded (registry.rs:350), so that the next call reads the old file while the
\* load is on its way or when it has failed.
ToReload(n) ==
    case.setting.kind = "ReloadAll" \/ (case.setting.kind = "ReloadSome" /\ n \in case.setting.list)
ReloadIsFresh ==
    \A n \in DOMAIN memory :
        ToReload(n) /\ case.latest[n] # 0 => memory[n] >= case.latest[n]

\* It holds where only batches call, one at a time, each asking for a package once (an
\* installer may ask at any time), and every request was answered.
OneAtATime ==
    \A c \in Caller : case.batch[c] /\ IsInjective(Wants(c))
OrderlyReloadIsFresh == OneAtATime /\ ~faulted => ReloadIsFresh

=============================================================================
