---------------------------- MODULE NpmFilesProofs ----------------------------
(***************************************************************************)
(* What TLAPS proves of the folders of packages (NpmFiles), for any        *)
(* programs and packages, in the cases of Stands.                          *)
(*                                                                         *)
(* The invariant Inv says who is at work (Exclusive: one program, but for  *)
(* those that find all in the cache and pass the lock by), in what order   *)
(* (Order), what a program knows of a folder of the cache at each step     *)
(* (Knows), who writes a file of node_modules and what is initialized      *)
(* (ModulesInv), and that what a program has fetched it finds (OnceInv).   *)
(* CacheWhole and ModulesWhole alone are not inductive: they say nothing   *)
(* of a program between two steps.  Programs that fill the global cache at *)
(* once have an invariant of their own, Sharing.                           *)
(***************************************************************************)
EXTENDS NpmFiles, FiniteSetTheorems, TLAPS

\* Some program is to reload.
Reloads == \E p \in Program : ~Uses(p)

-----------------------------------------------------------------------------
(* The invariant                                                           *)

ItemStage ==
    {"todo", "look", "locked?", "fetch", "folder", "lock", "extract", "write", "unlock", "clean",
     "relink", "copy", "copying", "link", "init", "done", "error"}
Stage == {"start", "waiting", "packages", "copies", "links", "done", "failed", "killed"}
Folder == [there : BOOLEAN, lock : BOOLEAN, content : Content]
Module == [init : BOOLEAN, content : Content]
ProgramState ==
    [pc : Stage, round : Nat, reloaded : SUBSET Item, fetched : SUBSET Item, again : BOOLEAN]

Typed ==
    /\ case \in Cases /\ Serial(case)
    /\ cache \in [Item -> Folder] /\ modules \in [Item -> Module]
    /\ program \in [Program -> ProgramState] /\ job \in [Program -> [Item -> ItemStage]]
    /\ flag = {} \/ \E p \in Program : flag = {p}

Started(p) == program[p].pc # "start" /\ ~Ended(p)
Active(p) == program[p].pc \in {"packages", "copies", "links"}

\* One program is at work at a time, but for those that pass the lock by.
Exclusive ==
    /\ case.apart => \A p, q \in Program : Started(p) /\ Started(q) => p = q
    /\ ~case.apart /\ ~case.lax => \A p \in Program : Active(p) => flag = {p}
    /\ ~case.apart /\ ~case.lax => \A p \in Program : program[p].round = 1

\* Packages come before copies, copies one after the other.
ProgramOrder(p) ==
    /\ program[p].pc \in {"start", "waiting"} => \A n \in Item : job[p][n] = "todo"
    /\ program[p].pc = "packages" => \A n \in Copy : job[p][n] = "todo"
    /\ program[p].pc \in {"copies", "links"} => \A n \in Package : job[p][n] = "done"
    /\ program[p].pc = "links" => \A n \in Copy : job[p][n] = "done"
    /\ \A c, d \in Copy : c # d => job[p][c] \in {"todo", "done"} \/ job[p][d] \in {"todo", "done"}
ItemOrder(p, n, step) ==
    /\ step \in {"fetch", "write"} => n \in Package
    /\ step \in {"copy", "copying"} => n \in Package /\ InModules(p)
    /\ step = "link" => n \in Copy /\ InModules(p)
    /\ step = "relink" => n \in Copy
    /\ n \in Copy /\ InModules(p) => step \in {"todo", "link", "relink", "init", "done", "error"}
    /\ step = "init" => InModules(p)
    /\ step = "clean" => case.faults
    /\ case.lax => step \in {"todo", "look", "locked?", "copy", "copying", "link", "relink", "init", "done"}
Order ==
    \A p \in Program : ProgramOrder(p) /\ \A n \in Item : ItemOrder(p, n, job[p][n])

\* What p knows of the folder f of n where it is.
WholeFolder(f) == f.there /\ ~f.lock /\ f.content = "whole"
Knows(p, n, step, f) ==
    /\ step \in {"lock", "locked?"} => f.there
    /\ step \in {"extract", "write", "unlock"} => f.there /\ f.lock
    /\ step = "relink" /\ ~InModules(p) => f.there /\ f.lock /\ f.content = "none"
    /\ step = "unlock" => f.content = "whole"
    /\ step = "write" => f.content = p
    /\ step \in {"copy", "copying"} => WholeFolder(f)
    /\ step = "init" /\ n \in Package => WholeFolder(f)
    /\ step = "done" /\ ~InModules(p) => WholeFolder(f)
    /\ step = "done" /\ n \in program[p].fetched => WholeFolder(f)
\* CacheWhole, of a case in which one program is at work at a time.
UnlockedWhole ==
    \A n \in Item : cache[n].there /\ ~cache[n].lock /\ ~Busy(n, {"lock", "clean"}) =>
        cache[n].content = "whole"
CacheInv ==
    /\ case.lax => \A n \in Item : cache[n] = CachedFolder
    /\ \A n \in Item : cache[n].content \in Program =>
           Active(cache[n].content) /\ job[cache[n].content][n] \in {"write", "clean"}
    /\ UnlockedWhole
    /\ \A p \in Program : Active(p) => \A n \in Item : Knows(p, n, job[p][n], cache[n])

PackageOf(n) == IF n \in Package THEN n ELSE Original(n)
Relinked(n) == \E p \in Program : Active(p) /\ InModules(p) /\ job[p][n] = "relink"
Filling(n) == \E p \in Program : Active(p) /\ job[p][n] \in {"copying", "init"}
Before ==
    {"look", "locked?", "fetch", "folder", "lock", "extract", "write", "unlock", "clean", "copy",
     "copying"}

\* Who writes a file of node_modules; what is initialized, or about to be, has one, and not a
\* part of it; copies are initialized after their package.
Writers ==
    \A n \in Item : modules[n].content \in Program =>
        Active(modules[n].content) /\ job[modules[n].content][PackageOf(n)] = "copying"
Complete ==
    \A n \in Item : modules[n].init \/ Filling(n) =>
        modules[n].content \in {"whole"} \cup Program \/ Relinked(n)
PartsUnused ==
    \A n \in Item : modules[n].content = "part" =>
        ~case.lax /\ ~modules[n].init /\ ~Filling(n) /\ ~Relinked(n)
CopiesLast ==
    \A c \in Copy : modules[c].init \/ Filling(c) => modules[Original(c)].init
DoneInit ==
    \A p \in Program : Active(p) /\ InModules(p) =>
        \A n \in Item : job[p][n] = "done" => modules[n].init
NotAgain ==
    ~Reloads /\ ~case.lax =>
        \A p \in Program : Active(p) /\ InModules(p) =>
            \A n \in Package : job[p][n] \in Before => ~modules[n].init
LinkedOnce ==
    ~case.lax =>
        \A p \in Program : Active(p) /\ InModules(p) =>
            \A c \in Copy : job[p][c] \in {"link", "relink"} => ~modules[c].init
ModulesInv ==
    Writers /\ Complete /\ PartsUnused /\ CopiesLast /\ DoneInit /\ NotAgain /\ LinkedOnce

\* What a program has fetched, it finds.
Fetched(p) ==
    /\ ~program[p].again /\ program[p].fetched \subseteq Package
    /\ case.lax \/ program[p].pc = "start" => program[p].fetched = {}
    /\ ~case.apart /\ program[p].pc = "waiting" => program[p].fetched = {}
    /\ ~Ended(p) => \A n \in Package :
           /\ n \in program[p].fetched => Uses(p) \/ n \in program[p].reloaded
           /\ n \in program[p].fetched /\ job[p][n] \in {"todo", "look", "locked?"} => WholeFolder(cache[n])
           /\ job[p][n] = "locked?" => Uses(p) \/ n \in program[p].reloaded
           /\ job[p][n] = "fetch" => n \notin program[p].fetched /\ (Uses(p) \/ n \in program[p].reloaded)
OnceInv == \A p \in Program : Fetched(p)

Inv == Typed /\ Exclusive /\ Order /\ CacheInv /\ ModulesInv /\ OnceInv

CasesOK == ConstantsOK /\ \A k \in Cases : Stands(k)

-----------------------------------------------------------------------------
(* What a step of p on n does, and what is so where p is                   *)

\* Only n moves on, to step.
Moves(p, n, step) ==
    /\ job' \in [Program -> [Item -> ItemStage]]
    /\ \A q \in Program : \A m \in Item :
           job'[q][m] = IF q = p /\ m = n THEN step ELSE job[q][m]

LEMMA Gone ==
  ASSUME Typed, NEW p \in Program, NEW n \in Item, NEW step \in ItemStage, Goes(p, n, step)
  PROVE  Moves(p, n, step)
  BY DEF Typed, Goes, Moves

LEMMA NotGone ==
  ASSUME Typed, NEW p \in Program, NEW n \in Item, UNCHANGED job
  PROVE  Moves(p, n, job[p][n])
  BY DEF Typed, Moves

\* What is so of the folder f of n that p has left at step.
Leaves(p, n, step, f) ==
    /\ Knows(p, n, step, f) /\ ItemOrder(p, n, step)
    /\ f.content \in Program => f.content = p /\ step \in {"write", "clean"}
    /\ f.there /\ ~f.lock => step \in {"lock", "clean"} \/ f.content = "whole"
    /\ case.lax => f = CachedFolder

\* Who is at work
LEMMA AtWork ==
  ASSUME CasesOK, Inv, NEW p \in Program, program[p].pc \in {"packages", "copies"}
  PROVE  /\ Active(p) /\ Started(p) /\ ~Ended(p) /\ Serial(case) /\ case \in Cases
         /\ ~case.lax => \A q \in Program : Active(q) => q = p
         /\ ~case.lax => \A q \in Program \ {p} : Ended(q) \/ program[q].pc = "start"
                                             \/ (~case.apart /\ program[q].pc = "waiting")
  <1>1. Active(p) /\ Started(p) /\ ~Ended(p)
    BY DEF Active, Started, Ended
  <1>2. Serial(case) /\ case \in Cases
    BY DEF CasesOK, Inv, Typed
  <1>3. \A q \in Program : program[q].pc \in Stage
    BY DEF Inv, Typed, ProgramState
  <1>4. \A q \in Program : Active(q) => Started(q)
    BY DEF Active, Started, Ended
  <1>5. \A q \in Program : ~Active(q) => Ended(q) \/ program[q].pc \in {"start", "waiting"}
    BY <1>3 DEF Active, Ended, Stage
  <1>6. ASSUME ~case.lax, NEW q \in Program, Active(q) PROVE q = p
    <2>1. CASE case.apart
      BY <1>1, <1>4, <1>6, <2>1 DEF Inv, Exclusive
    <2>2. CASE ~case.apart
      <3>1. flag = {p} /\ flag = {q}
        BY <1>1, <1>6, <2>2 DEF Inv, Exclusive
      <3> QED BY <3>1
    <2> QED BY <2>1, <2>2
  <1>7. ASSUME ~case.lax, NEW q \in Program \ {p}
        PROVE  Ended(q) \/ program[q].pc = "start" \/ (~case.apart /\ program[q].pc = "waiting")
    <2>1. CASE case.apart
      <3>1. ~Started(q)
        BY <1>1, <2>1 DEF Inv, Exclusive
      <3> QED BY <3>1 DEF Started
    <2>2. CASE ~case.apart
      BY <1>5, <1>6, <1>7, <2>2
    <2> QED BY <2>1, <2>2
  <1> QED BY <1>1, <1>2, <1>6, <1>7

LEMMA Here ==
  ASSUME CasesOK, Inv, NEW p \in Program, program[p].pc \in {"packages", "copies"}, NEW n \in Item
  PROVE  /\ cache[n] \in Folder /\ job[p][n] \in ItemStage
         /\ Leaves(p, n, job[p][n], cache[n])
  <1>1. cache[n] \in Folder /\ job[p][n] \in ItemStage
    BY DEF Inv, Typed
  <1>2. Active(p) /\ (~case.lax => \A q \in Program : Active(q) => q = p)
    BY AtWork
  <1>3. Knows(p, n, job[p][n], cache[n])
    BY <1>2 DEF Inv, CacheInv
  <1>4. ItemOrder(p, n, job[p][n])
    BY DEF Inv, Order
  <1>5. case.lax => cache[n] = CachedFolder
    BY DEF Inv, CacheInv
  <1>6. "whole" \notin Program
    BY DEF CasesOK, ConstantsOK
  <1>7. cache[n].content \in Program => cache[n].content = p /\ job[p][n] \in {"write", "clean"}
    <2>1. CASE case.lax
      BY <1>5, <1>6, <2>1 DEF CachedFolder
    <2>2. CASE ~case.lax
      BY <1>2, <2>2 DEF Inv, CacheInv
    <2> QED BY <2>1, <2>2
  <1>8. cache[n].there /\ ~cache[n].lock => job[p][n] \in {"lock", "clean"} \/ cache[n].content = "whole"
    <2>1. CASE case.lax
      BY <1>5, <2>1 DEF CachedFolder
    <2>2. CASE ~case.lax
      <3>1. \A q \in Program : ~Ended(q) /\ job[q][n] \in {"lock", "clean"} => Active(q)
        <4>1. \A q \in Program : program[q].pc \in Stage
          BY DEF Inv, Typed, ProgramState
        <4>2. \A q \in Program : program[q].pc \in {"start", "waiting"} => job[q][n] = "todo"
          BY DEF Inv, Order, ProgramOrder
        <4> QED BY <4>1, <4>2 DEF Active, Ended, Stage
      <3>2. Busy(n, {"lock", "clean"}) => job[p][n] \in {"lock", "clean"}
        BY <1>2, <2>2, <3>1 DEF Busy
      <3> QED BY <3>2 DEF Inv, CacheInv, UnlockedWhole
    <2> QED BY <2>1, <2>2
  <1> QED BY <1>1, <1>3, <1>4, <1>5, <1>7, <1>8 DEF Leaves

\* A step of p on n that leaves the folder f.
Takes(p, n, step, f) ==
    /\ step \in ItemStage /\ f \in Folder
    /\ Moves(p, n, step)
    /\ cache' \in [Item -> Folder] /\ \A m \in Item : cache'[m] = IF m = n THEN f ELSE cache[m]
    /\ Leaves(p, n, step, f)
    /\ job[p][n] \notin {"done", "error"}
    /\ job[p][n] = "todo" => Ready(p, n)
    /\ UNCHANGED <<case, links, flag>>

\* What p has fetched and reloaded, when its step on n leaves the folder f.
Remembers(p, n, step, f) ==
    /\ program' \in [Program -> ProgramState]
    /\ \A q \in Program \ {p} : program'[q] = program[q]
    /\ program'[p].pc = program[p].pc /\ program'[p].round = program[p].round
    /\ \/ /\ program'[p].fetched = program[p].fetched /\ program'[p].again = program[p].again
          /\ program[p].reloaded \subseteq program'[p].reloaded
       \/ /\ job[p][n] = "fetch" /\ step = "folder" /\ n \in Package /\ ~case.lax
          /\ program'[p].fetched = program[p].fetched \cup {n}
          /\ program'[p].again = (program[p].again \/ n \in program[p].fetched)
          /\ program'[p].reloaded = program[p].reloaded
    /\ step # "todo"
    /\ n \in program[p].fetched /\ step \in {"look", "locked?"} => WholeFolder(f)
    /\ step = "fetch" => n \notin program[p].fetched
    /\ step \in {"locked?", "fetch"} /\ n \in Package => Uses(p) \/ n \in program'[p].reloaded

\* A folder of which one part is changed
LEMMA FolderParts ==
  ASSUME NEW f \in Folder
  PROVE  /\ \A b : [f EXCEPT !.there = b] = [there |-> b, lock |-> f.lock, content |-> f.content]
         /\ \A b : [f EXCEPT !.lock = b] = [there |-> f.there, lock |-> b, content |-> f.content]
         /\ \A c : [f EXCEPT !.content = c] = [there |-> f.there, lock |-> f.lock, content |-> c]
         /\ \A x, y \in BOOLEAN : \A z \in Content : [there |-> x, lock |-> y, content |-> z] \in Folder
         /\ f.there \in BOOLEAN /\ f.lock \in BOOLEAN /\ f.content \in Content
  <1>1. \A b : [f EXCEPT !.there = b] = [there |-> b, lock |-> f.lock, content |-> f.content]
    BY DEF Folder
  <1>2. \A b : [f EXCEPT !.lock = b] = [there |-> f.there, lock |-> b, content |-> f.content]
    BY DEF Folder
  <1>3. \A c : [f EXCEPT !.content = c] = [there |-> f.there, lock |-> f.lock, content |-> c]
    BY DEF Folder
  <1>5. \A x, y \in BOOLEAN : \A z \in Content : [there |-> x, lock |-> y, content |-> z] \in Folder
    BY DEF Folder
  <1>6. f.there \in BOOLEAN /\ f.lock \in BOOLEAN /\ f.content \in Content
    BY DEF Folder
  <1> QED BY <1>1, <1>2, <1>3, <1>5, <1>6

\* Nothing is remembered in most steps.
LEMMA Quiet ==
  ASSUME Inv, NEW p \in Program, NEW n \in Item, NEW step, NEW f, UNCHANGED program,
         step \notin {"todo", "look", "locked?", "fetch"}
  PROVE  Remembers(p, n, step, f)
  BY DEF Remembers, Inv, Typed

\* A step that leaves the cache alone
LEMMA SameFolder ==
  ASSUME Inv, NEW p \in Program, NEW n \in Item, NEW step \in ItemStage,
         Goes(p, n, step), UNCHANGED <<case, links, flag, cache>>, Leaves(p, n, step, cache[n]),
         job[p][n] \notin {"done", "error"}, job[p][n] = "todo" => Ready(p, n)
  PROVE  Takes(p, n, step, cache[n]) /\ cache[n] \in Folder
  <1>1. Moves(p, n, step)
    BY Gone DEF Inv
  <1> QED BY <1>1 DEF Takes, Inv, Typed

\* A step that changes the folder of n
LEMMA NewFolder ==
  ASSUME Inv, NEW p \in Program, NEW n \in Item, NEW step \in ItemStage, NEW f \in Folder,
         Goes(p, n, step) \/ (UNCHANGED job /\ step = job[p][n]), UNCHANGED <<case, links, flag>>,
         cache' = [cache EXCEPT ![n] = f], Leaves(p, n, step, f),
         job[p][n] \notin {"done", "error", "todo"}
  PROVE  Takes(p, n, step, f)
  <1>1. Moves(p, n, step)
    BY Gone, NotGone DEF Inv
  <1> QED BY <1>1 DEF Takes, Inv, Typed

\* Every step on n is one that takes it further.
LEMMA Taken ==
  ASSUME CasesOK, Inv, NEW p \in Program, program[p].pc \in {"packages", "copies"},
         NEW n \in Item, ItemStep(p, n)
  PROVE  \E step \in ItemStage, f \in Folder : Takes(p, n, step, f) /\ Remembers(p, n, step, f)
  <1> DEFINE old == cache[n]
  <1>1. /\ Active(p) /\ ~Ended(p) /\ Serial(case)
        /\ ~case.lax => \A q \in Program : Active(q) => q = p
    BY AtWork
  <1>2. /\ old \in Folder /\ job[p][n] \in ItemStage /\ Leaves(p, n, job[p][n], old)
        /\ cache \in [Item -> Folder]
    BY Here DEF Inv, Typed
  <1>3. /\ (n \in Package \/ n \in Copy) /\ ~(n \in Package /\ n \in Copy)
        /\ \A c \in Copy : Original(c) \in Package /\ Original(c) \in Item
        /\ "whole" \notin Program /\ "none" \notin Program /\ "part" \notin Program
    BY DEF CasesOK, ConstantsOK, Item
  <1>4. /\ program[p].fetched \subseteq Package
        /\ case.lax => program[p].fetched = {}
        /\ n \in program[p].fetched /\ job[p][n] \in {"todo", "look", "locked?"} => WholeFolder(old)
        /\ n \in program[p].fetched => Uses(p) \/ n \in program[p].reloaded
    BY <1>1 DEF Inv, OnceInv, Fetched
  <1>5. /\ case.lax => /\ Uses(p) /\ ~case.faults /\ InModules(p)
        /\ ~Uses(p) => ~case.faults
    BY <1>1 DEF Serial, Uses, InModules
  <1>6. [there : BOOLEAN, lock : BOOLEAN, content : Content] = Folder /\ {"none", "part", "whole"} \subseteq Content /\ p \in Content
    BY DEF Folder, Content
  <1>7. old = [there |-> old.there, lock |-> old.lock, content |-> old.content]
    BY <1>2 DEF Folder
  <1> HIDE DEF old
  <1>10. CASE Begin(p, n)
    <2>1. /\ job[p][n] = "todo" /\ Ready(p, n) /\ UNCHANGED <<case, links, flag, program, cache>>
      BY <1>10 DEF Begin, At, SameProgram
    <2>2. CASE Skips(p, n)
      <3>1. Goes(p, n, "done") /\ InModules(p)
        BY <1>10, <2>2 DEF Begin, Skips
      <3>2. Leaves(p, n, "done", old)
        BY <1>2, <1>3, <1>4, <2>1, <3>1 DEF Leaves, Knows, ItemOrder
      <3>3. Takes(p, n, "done", old)
        BY <2>1, <3>1, <3>2, SameFolder DEF ItemStage, old
      <3> QED BY <1>2, <2>1, <3>3, Quiet DEF ItemStage
    <2>3. CASE ~Skips(p, n) /\ InModules(p) /\ n \in Copy
      <3>1. Goes(p, n, "link")
        BY <1>10, <2>3 DEF Begin
      <3>2. Leaves(p, n, "link", old)
        BY <1>2, <1>3, <2>1, <2>3 DEF Leaves, Knows, ItemOrder
      <3>3. Takes(p, n, "link", old)
        BY <2>1, <3>1, <3>2, SameFolder DEF ItemStage, old
      <3> QED BY <1>2, <2>1, <3>3, Quiet DEF ItemStage
    <2>4. CASE ~Skips(p, n) /\ ~(InModules(p) /\ n \in Copy)
      <3>1. Goes(p, n, "look")
        BY <1>10, <2>4 DEF Begin
      <3>2. Leaves(p, n, "look", old)
        BY <1>2, <1>3, <2>1, <2>4 DEF Leaves, Knows, ItemOrder
      <3>3. Takes(p, n, "look", old)
        BY <2>1, <3>1, <3>2, SameFolder DEF ItemStage, old
      <3>4. Remembers(p, n, "look", old)
        BY <1>4, <2>1 DEF Remembers, Inv, Typed
      <3> QED BY <1>2, <3>3, <3>4 DEF ItemStage
    <2> QED BY <2>2, <2>3, <2>4
  <1>11. CASE Look(p, n)
    <2>1. job[p][n] = "look" /\ UNCHANGED <<case, links, flag, cache>>
      BY <1>11 DEF Look, At
    <2>2. PICK step \in {"locked?", "folder", "error", "fetch"} : Goes(p, n, step) /\
               step = IF Usable(p, n) /\ old.there THEN "locked?" ELSE Missing(p, n)
      <3>1. Goes(p, n, IF Usable(p, n) /\ old.there THEN "locked?" ELSE Missing(p, n))
        BY <1>11 DEF Look, old
      <3>2. Missing(p, n) \in {"folder", "error", "fetch"}
        BY DEF Missing
      <3> QED BY <3>1, <3>2
    <2>3. step \in ItemStage /\ (step = "fetch" => n \in Package) /\ (case.lax => step = "locked?")
      BY <1>2, <1>3, <1>5, <2>2 DEF ItemStage, Missing, Leaves, CachedFolder, Usable
    <2>4. Leaves(p, n, step, old)
      <3>1. ~(n \in Copy /\ InModules(p))
        BY <1>2, <2>1 DEF Leaves, ItemOrder
      <3>2. ItemOrder(p, n, step)
        BY <2>2, <2>3, <3>1 DEF ItemOrder
      <3>3. Knows(p, n, step, old)
        BY <2>2 DEF Knows, Missing
      <3> QED BY <1>2, <2>1, <3>2, <3>3 DEF Leaves
    <2>5. Takes(p, n, step, old)
      BY <2>1, <2>2, <2>3, <2>4, SameFolder DEF old
    <2>6. /\ program' \in [Program -> ProgramState] /\ \A q \in Program \ {p} : program'[q] = program[q]
          /\ program'[p].pc = program[p].pc /\ program'[p].round = program[p].round
          /\ program'[p].fetched = program[p].fetched /\ program'[p].again = program[p].again
          /\ program'[p].reloaded = IF Uses(p) \/ n \in Copy THEN program[p].reloaded
                                    ELSE program[p].reloaded \cup {n}
      BY <1>11 DEF Look, Inv, Typed, ProgramState
    <2>7. Remembers(p, n, step, old)
      <3>1. step = "fetch" => n \notin program[p].fetched
        <4>1. n \in program[p].fetched => Usable(p, n) /\ old.there
          BY <1>4, <2>1 DEF Usable, WholeFolder
        <4> QED BY <2>2, <4>1
      <3> QED BY <1>3, <1>4, <2>1, <2>2, <2>3, <2>6, <3>1 DEF Remembers
    <2> QED BY <1>2, <2>3, <2>5, <2>7
  <1>12. CASE SeeLock(p, n)
    <2>1. job[p][n] = "locked?" /\ UNCHANGED <<case, links, flag, program, cache>>
      BY <1>12 DEF SeeLock, At, SameProgram
    <2>2. PICK step \in {"folder", "error", "fetch", "copy", "done"} : Goes(p, n, step) /\
               step = IF old.lock THEN Missing(p, n) ELSE Then(p)
      BY <1>12 DEF SeeLock, Missing, Then, old
    <2>3. /\ step \in ItemStage /\ (step = "fetch" => n \in Package) /\ (case.lax => step = "copy")
          /\ step \in {"copy", "done"} => WholeFolder(old)
          /\ step = "copy" => InModules(p) /\ n \in Package
      BY <1>2, <1>3, <1>5, <2>1, <2>2
         DEF ItemStage, Missing, Then, Leaves, Knows, CachedFolder, WholeFolder, ItemOrder
    <2>4. Leaves(p, n, step, old)
      BY <1>2, <1>3, <2>1, <2>2, <2>3 DEF Leaves, Knows, ItemOrder
    <2>5. Takes(p, n, step, old)
      BY <2>1, <2>2, <2>3, <2>4, SameFolder DEF old
    <2>6. Remembers(p, n, step, old)
      <3>1. step = "fetch" => n \notin program[p].fetched /\ (Uses(p) \/ n \in program[p].reloaded)
        <4>1. step = "fetch" => old.lock
          BY <2>2, <2>3 DEF Then
        <4>2. job[p][n] = "locked?" => Uses(p) \/ n \in program[p].reloaded \/ n \in Copy
          BY <1>1, <1>3 DEF Inv, OnceInv, Fetched
        <4> QED BY <1>3, <1>4, <2>1, <2>3, <4>1, <4>2 DEF WholeFolder
      <3> QED BY <1>4, <2>1, <2>2, <3>1 DEF Remembers, Inv, Typed
    <2> QED BY <1>2, <2>3, <2>5, <2>6
  <1>13. CASE Fetch(p, n)
    <2>1. job[p][n] = "fetch" /\ UNCHANGED <<case, links, flag, cache>> /\ n \in Package /\ ~case.lax
      BY <1>2, <1>13 DEF Fetch, At, Leaves, ItemOrder
    <2>2. ASSUME Goes(p, n, "folder"),
                 program' = [program EXCEPT ![p].fetched = @ \cup {n},
                                            ![p].again = @ \/ n \in program[p].fetched]
          PROVE  \E step \in ItemStage, f \in Folder : Takes(p, n, step, f) /\ Remembers(p, n, step, f)
      <3>1. Leaves(p, n, "folder", old)
        BY <1>2, <1>3, <2>1 DEF Leaves, Knows, ItemOrder
      <3>2. Takes(p, n, "folder", old)
        BY <2>1, <2>2, <3>1, SameFolder DEF ItemStage, old
      <3>3. /\ program' \in [Program -> ProgramState] /\ \A q \in Program \ {p} : program'[q] = program[q]
            /\ program'[p].pc = program[p].pc /\ program'[p].round = program[p].round
            /\ program'[p].fetched = program[p].fetched \cup {n}
            /\ program'[p].reloaded = program[p].reloaded
        BY <2>2 DEF Inv, Typed, ProgramState
      <3>4. program'[p].again = (program[p].again \/ n \in program[p].fetched)
        BY <2>2 DEF Inv, Typed, ProgramState
      <3>5. Remembers(p, n, "folder", old)
        BY <2>1, <3>3, <3>4 DEF Remembers
      <3> QED BY <1>2, <3>2, <3>5 DEF ItemStage
    <2>3. CASE Goes(p, n, "error") /\ UNCHANGED program
      <3>1. Leaves(p, n, "error", old)
        BY <1>2, <1>3, <2>1 DEF Leaves, Knows, ItemOrder
      <3>2. Takes(p, n, "error", old)
        BY <2>1, <2>3, <3>1, SameFolder DEF ItemStage, old
      <3> QED BY <1>2, <2>3, <3>2, Quiet DEF ItemStage
    <2> QED BY <1>13, <2>2, <2>3 DEF Fetch
  <1>14. CASE MakeFolder(p, n)
    <2> DEFINE new == [there |-> TRUE, lock |-> old.lock, content |-> old.content]
    <2>1. job[p][n] = "folder" /\ UNCHANGED <<case, links, flag, program>> /\ ~case.lax /\ Goes(p, n, "lock")
      BY <1>2, <1>14 DEF MakeFolder, At, SameProgram, Leaves, ItemOrder
    <2>2. cache' = [cache EXCEPT ![n] = new] /\ new \in Folder
      <3>1. cache' = [cache EXCEPT ![n] = [old EXCEPT !.there = TRUE]]
        BY <1>14 DEF MakeFolder, old
      <3> QED BY <1>2, <3>1, FolderParts
    <2>3. Leaves(p, n, "lock", new)
      BY <1>2, <1>3, <2>1 DEF Leaves, Knows, ItemOrder
    <2> HIDE DEF new
    <2>4. Takes(p, n, "lock", new)
      BY <2>1, <2>2, <2>3, NewFolder DEF ItemStage
    <2> QED BY <2>1, <2>2, <2>4, Quiet DEF ItemStage
  <1>15. CASE LockFile(p, n)
    <2> DEFINE new == [there |-> TRUE, lock |-> TRUE, content |-> old.content]
    <2>1. /\ job[p][n] = "lock" /\ UNCHANGED <<case, links, flag, program>> /\ ~case.lax
          /\ old.there /\ Goes(p, n, "extract") /\ cache' = [cache EXCEPT ![n].lock = TRUE]
      BY <1>2, <1>15 DEF LockFile, At, SameProgram, Leaves, ItemOrder, Knows, old
    <2>2. cache' = [cache EXCEPT ![n] = new] /\ new \in Folder
      <3>1. cache' = [cache EXCEPT ![n] = [old EXCEPT !.lock = TRUE]]
        BY <2>1 DEF old
      <3>2. old.there = TRUE
        BY <1>2, <2>1, FolderParts
      <3> QED BY <1>2, <3>1, <3>2, FolderParts
    <2>3. Leaves(p, n, "extract", new)
      BY <1>2, <1>3, <2>1 DEF Leaves, Knows, ItemOrder
    <2> HIDE DEF new
    <2>4. Takes(p, n, "extract", new)
      BY <2>1, <2>2, <2>3, NewFolder DEF ItemStage
    <2> QED BY <2>1, <2>2, <2>4, Quiet DEF ItemStage
  <1>16. CASE Extract(p, n)
    <2>1. /\ job[p][n] = "extract" /\ UNCHANGED <<case, links, flag, program>> /\ ~case.lax
          /\ old.there /\ old.lock
      BY <1>2, <1>16 DEF Extract, At, SameProgram, Leaves, ItemOrder, Knows
    <2>2. CASE n \in Package /\ cache' = [cache EXCEPT ![n].there = TRUE, ![n].content = p] /\ Goes(p, n, "write")
      <3> DEFINE new == [there |-> TRUE, lock |-> TRUE, content |-> p]
      <3>1. cache' = [cache EXCEPT ![n] = new] /\ new \in Folder
        <4> DEFINE made == [there |-> TRUE, lock |-> old.lock, content |-> old.content]
        <4>1. [old EXCEPT !.there = TRUE] = made /\ made \in Folder /\ old.lock = TRUE
          BY <1>2, <2>1, FolderParts
        <4>2. new \in Folder
          BY <1>6 DEF Folder
        <4>0. made.there = TRUE /\ made.lock = TRUE
          BY <4>1
        <4> HIDE DEF made
        <4>3. [made EXCEPT !.content = p] = new
          BY <4>0, <4>1, FolderParts
        <4>4. \A m \in Item : cache'[m] = IF m = n THEN [[old EXCEPT !.there = TRUE] EXCEPT !.content = p] ELSE cache[m]
          BY <1>2, <2>2 DEF old
        <4>5. cache' = [cache EXCEPT ![n] = [[old EXCEPT !.there = TRUE] EXCEPT !.content = p]]
          BY <1>2, <2>2, <4>4
        <4> QED BY <4>1, <4>2, <4>3, <4>5
      <3>2. Leaves(p, n, "write", new)
        BY <1>2, <1>3, <2>1, <2>2 DEF Leaves, Knows, ItemOrder
      <3> HIDE DEF new
      <3>3. Takes(p, n, "write", new)
        BY <2>1, <2>2, <3>1, <3>2, NewFolder DEF ItemStage
      <3> QED BY <2>1, <3>1, <3>3, Quiet DEF ItemStage
    <2>3. CASE n \in Copy /\ cache[Original(n)].there /\ cache' = Linked([cache EXCEPT ![n].there = TRUE], n)
               /\ Goes(p, n, IF old.content = "none" THEN "unlock" ELSE "relink")
      <3>1. ~InModules(p) /\ n # Original(n)
        BY <1>2, <1>3, <2>1, <2>3 DEF Leaves, ItemOrder
      <3>2. cache[Original(n)].content = "whole"
        <4>1. program[p].pc = "copies"
          BY <2>1, <2>3 DEF Inv, Order, ProgramOrder
        <4>2. job[p][Original(n)] = "done"
          BY <1>3, <2>3, <4>1 DEF Inv, Order, ProgramOrder
        <4>3. Knows(p, Original(n), "done", cache[Original(n)])
          BY <1>1, <1>3, <2>3, <4>2 DEF Inv, CacheInv
        <4> QED BY <3>1, <4>3 DEF Knows, WholeFolder
      <3>3. CASE old.content = "none"
        <4> DEFINE new == [there |-> TRUE, lock |-> TRUE, content |-> "whole"]
        <4>1. cache' = [cache EXCEPT ![n] = new] /\ new \in Folder
          BY <1>2, <1>3, <1>6, <2>1, <2>3, <3>1, <3>2, <3>3 DEF old, Folder, Linked
        <4>2. Leaves(p, n, "unlock", new)
          BY <1>2, <1>3, <2>1, <2>3, <3>1 DEF Leaves, Knows, ItemOrder
        <4> HIDE DEF new
        <4>3. Takes(p, n, "unlock", new)
          BY <2>1, <2>3, <3>3, <4>1, <4>2, NewFolder DEF ItemStage
        <4> QED BY <2>1, <4>1, <4>3, Quiet DEF ItemStage
      <3>4. CASE old.content # "none"
        <4> DEFINE new == [there |-> TRUE, lock |-> TRUE, content |-> "none"]
        <4>1. cache' = [cache EXCEPT ![n] = new] /\ new \in Folder
          BY <1>2, <1>3, <1>6, <2>1, <2>3, <3>1, <3>2, <3>4 DEF old, Folder, Linked
        <4>2. Leaves(p, n, "relink", new)
          BY <1>2, <1>3, <2>1, <2>3, <3>1 DEF Leaves, Knows, ItemOrder
        <4> HIDE DEF new
        <4>3. Takes(p, n, "relink", new)
          BY <2>1, <2>3, <3>4, <4>1, <4>2, NewFolder DEF ItemStage
        <4> QED BY <2>1, <4>1, <4>3, Quiet DEF ItemStage
      <3> QED BY <3>3, <3>4
    <2>4. CASE (case.faults \/ (n \in Copy /\ ~cache[Original(n)].there)) /\ Goes(p, n, "clean") /\ UNCHANGED cache
      <3>1. case.faults
        <4> SUFFICES ASSUME n \in Copy, ~cache[Original(n)].there PROVE FALSE
          BY <2>4
        <4>0. ~InModules(p)
          BY <1>2, <2>1 DEF Leaves, ItemOrder
        <4>1. program[p].pc = "copies"
          BY <2>1 DEF Inv, Order, ProgramOrder
        <4>2. job[p][Original(n)] = "done"
          BY <1>3, <4>1 DEF Inv, Order, ProgramOrder
        <4>3. Knows(p, Original(n), "done", cache[Original(n)])
          BY <1>1, <1>3, <4>2 DEF Inv, CacheInv
        <4> QED BY <4>0, <4>3 DEF Knows, WholeFolder
      <3>2. Leaves(p, n, "clean", old)
        BY <1>2, <1>3, <2>1, <3>1 DEF Leaves, Knows, ItemOrder
      <3>3. Takes(p, n, "clean", old)
        BY <2>1, <2>4, <3>2, SameFolder DEF ItemStage, old
      <3> QED BY <1>2, <2>1, <3>3, Quiet DEF ItemStage
    <2> QED BY <1>16, <2>2, <2>3, <2>4 DEF Extract, old
  <1>17. CASE Write(p, n)
    <2>1. /\ job[p][n] = "write" /\ UNCHANGED <<case, links, flag, program>> /\ ~case.lax
          /\ old.there = TRUE /\ old.lock = TRUE /\ old.content = p /\ n \in Package
      BY <1>2, <1>17, FolderParts DEF Write, At, SameProgram, Leaves, ItemOrder, Knows
    <2>2. CASE cache' = Filled(cache, p, n, "whole") /\ Goes(p, n, "unlock")
      <3> DEFINE new == [there |-> TRUE, lock |-> TRUE, content |-> "whole"]
      <3>1. program[p].pc = "packages"
        BY <2>1 DEF Inv, Order, ProgramOrder
      <3>2. \A c \in Copy : cache[c].content # p
        <4>1. \A c \in Copy : job[p][c] = "todo" /\ c \in Item
          BY <3>1 DEF Inv, Order, ProgramOrder, Item
        <4>2. \A c \in Copy : Leaves(p, c, job[p][c], cache[c])
          BY <4>1, Here
        <4> QED BY <4>1, <4>2 DEF Leaves
      <3>3. n \in Family(n) /\ \A m \in Family(n) : m = n \/ m \in Copy
        BY DEF Family
      <3>4. [old EXCEPT !.content = "whole"] = new
        BY <1>2, <2>1, FolderParts
      <3>5. cache' = [cache EXCEPT ![n] = new]
        <4>1. cache' = [m \in Item |-> IF m \in Family(n) /\ cache[m].content = p
                                      THEN [cache[m] EXCEPT !.content = "whole"] ELSE cache[m]]
          BY <2>2 DEF Filled
        <4>2. \A m \in Item : cache'[m] = IF m = n THEN new ELSE cache[m]
          BY <2>1, <3>2, <3>3, <3>4, <4>1 DEF old
        <4> QED BY <1>2, <4>1, <4>2
      <3>6. new \in Folder /\ Leaves(p, n, "unlock", new)
        BY <1>2, <1>3, <1>6, <2>1 DEF Leaves, Knows, ItemOrder, Folder
      <3> HIDE DEF new
      <3>7. Takes(p, n, "unlock", new)
        BY <2>1, <2>2, <3>5, <3>6, NewFolder DEF ItemStage
      <3> QED BY <2>1, <3>6, <3>7, Quiet DEF ItemStage
    <2>3. CASE case.faults /\ Goes(p, n, "clean") /\ UNCHANGED cache
      <3>1. Leaves(p, n, "clean", old)
        BY <1>2, <1>3, <2>1, <2>3 DEF Leaves, Knows, ItemOrder
      <3>2. Takes(p, n, "clean", old)
        BY <2>1, <2>3, <3>1, SameFolder DEF ItemStage, old
      <3> QED BY <1>2, <2>1, <3>2, Quiet DEF ItemStage
    <2> QED BY <1>17, <2>2, <2>3 DEF Write
  <1>18. CASE Unlock(p, n)
    <2> DEFINE new == [there |-> TRUE, lock |-> FALSE, content |-> "whole"]
    <2>1. /\ job[p][n] = "unlock" /\ UNCHANGED <<case, links, flag, program>> /\ ~case.lax
          /\ old.there = TRUE /\ old.content = "whole" /\ Goes(p, n, Then(p))
          /\ n \in Copy => ~InModules(p)
      BY <1>2, <1>18, FolderParts DEF Unlock, At, SameProgram, Leaves, ItemOrder, Knows
    <2>2. cache' = [cache EXCEPT ![n] = new] /\ new \in Folder
      <3>1. cache' = [cache EXCEPT ![n] = [old EXCEPT !.lock = FALSE]]
        BY <1>18 DEF Unlock, old
      <3>2. [old EXCEPT !.lock = FALSE] = new
        BY <1>2, <2>1, FolderParts
      <3>3. new \in Folder
        BY <1>6 DEF Folder
      <3> QED BY <3>1, <3>2, <3>3
    <2>3. Then(p) \in {"copy", "done"} /\ (Then(p) = "copy" => InModules(p))
      BY DEF Then
    <2>4. Leaves(p, n, Then(p), new)
      BY <1>2, <1>3, <2>1, <2>3 DEF Leaves, Knows, ItemOrder, WholeFolder
    <2> HIDE DEF new
    <2>5. Takes(p, n, Then(p), new)
      BY <2>1, <2>2, <2>3, <2>4, NewFolder DEF ItemStage
    <2> QED BY <2>1, <2>2, <2>3, <2>5, Quiet DEF ItemStage
  <1>19. CASE Clean(p, n)
    <2>1. /\ job[p][n] = "clean" /\ UNCHANGED <<case, links, flag, program>> /\ ~case.lax
          /\ case.faults /\ (n \in Copy => ~InModules(p))
      BY <1>2, <1>19 DEF Clean, At, SameProgram, Leaves, ItemOrder
    <2>2. ASSUME NEW new \in Folder, cache' = [cache EXCEPT ![n] = new],
                 new.content \in Program => new.content = p,
                 UNCHANGED job
          PROVE  \E step \in ItemStage, f \in Folder : Takes(p, n, step, f) /\ Remembers(p, n, step, f)
      <3>1. Leaves(p, n, "clean", new)
        BY <1>2, <1>3, <2>1, <2>2 DEF Leaves, Knows, ItemOrder
      <3>2. Takes(p, n, "clean", new)
        BY <2>1, <2>2, <3>1, NewFolder DEF ItemStage
      <3> QED BY <2>1, <2>2, <3>2, Quiet DEF ItemStage
    <2>3. CASE cache' = [cache EXCEPT ![n].lock = FALSE] /\ UNCHANGED job
      <3> DEFINE new == [there |-> old.there, lock |-> FALSE, content |-> old.content]
      <3>1. cache' = [cache EXCEPT ![n] = [old EXCEPT !.lock = FALSE]]
        BY <2>3 DEF old
      <3>2. [old EXCEPT !.lock = FALSE] = new /\ new \in Folder
        BY <1>2, FolderParts
      <3>3. new.content \in Program => new.content = p
        BY <1>2 DEF Leaves
      <3> HIDE DEF new
      <3> QED BY <2>2, <2>3, <3>1, <3>2, <3>3
    <2>4. CASE cache' = [cache EXCEPT ![n].content = "none"] /\ UNCHANGED job
      <3> DEFINE new == [there |-> old.there, lock |-> old.lock, content |-> "none"]
      <3>1. cache' = [cache EXCEPT ![n] = [old EXCEPT !.content = "none"]]
        BY <2>4 DEF old
      <3>2. [old EXCEPT !.content = "none"] = new /\ new \in Folder
        BY <1>2, <1>6, FolderParts
      <3>3. new.content \in Program => new.content = p
        BY <1>3
      <3> HIDE DEF new
      <3> QED BY <2>2, <2>4, <3>1, <3>2, <3>3
    <2>5. CASE cache' = [cache EXCEPT ![n] = NoFolder] /\ Goes(p, n, "error")
      <3>1. NoFolder \in Folder
        BY <1>6 DEF NoFolder, Folder
      <3>2. Leaves(p, n, "error", NoFolder)
        BY <1>2, <1>3, <2>1 DEF Leaves, Knows, ItemOrder, NoFolder
      <3>3. Takes(p, n, "error", NoFolder)
        BY <2>1, <2>5, <3>1, <3>2, NewFolder DEF ItemStage
      <3> QED BY <2>1, <3>1, <3>3, Quiet DEF ItemStage
    <2> QED BY <1>19, <2>3, <2>4, <2>5 DEF Clean
  <1>20. CASE Relink(p, n)
    <2>1. job[p][n] = "relink" /\ UNCHANGED <<case, links, flag, program>> /\ n \in Copy
      BY <1>2, <1>20 DEF Relink, At, SameProgram, Leaves, ItemOrder
    <2>2. CASE InModules(p) /\ Goes(p, n, "init") /\ UNCHANGED cache
      <3>1. Leaves(p, n, "init", old)
        BY <1>2, <1>3, <2>1, <2>2 DEF Leaves, Knows, ItemOrder
      <3>2. Takes(p, n, "init", old)
        BY <2>1, <2>2, <3>1, SameFolder DEF ItemStage, old
      <3> QED BY <1>2, <2>1, <3>2, Quiet DEF ItemStage
    <2>3. CASE ~InModules(p) /\ cache' = LinkedAgain(cache, n) /\ Goes(p, n, "unlock")
      <3> DEFINE new == [there |-> TRUE, lock |-> TRUE, content |-> "whole"]
      <3>1. old.there = TRUE /\ old.lock = TRUE /\ old.content = "none" /\ ~case.lax
        BY <1>2, <1>5, <2>1, <2>3, FolderParts DEF Leaves, Knows
      <3>2. cache[Original(n)].content = "whole"
        <4>1. program[p].pc = "copies"
          BY <2>1 DEF Inv, Order, ProgramOrder
        <4>2. job[p][Original(n)] = "done"
          BY <1>3, <2>1, <4>1 DEF Inv, Order, ProgramOrder
        <4>3. Knows(p, Original(n), "done", cache[Original(n)])
          BY <1>1, <1>3, <2>1, <4>2 DEF Inv, CacheInv
        <4> QED BY <2>3, <4>3 DEF Knows, WholeFolder
      <3>3. cache' = [cache EXCEPT ![n] = [old EXCEPT !.content = "whole"]]
        BY <1>2, <2>3, <3>1, <3>2 DEF LinkedAgain, Linked, old
      <3>4. [old EXCEPT !.content = "whole"] = new /\ new \in Folder
        BY <1>2, <1>6, <3>1, FolderParts
      <3>5. Leaves(p, n, "unlock", new)
        BY <1>2, <1>3, <2>1, <2>3, <3>1 DEF Leaves, Knows, ItemOrder
      <3> HIDE DEF new
      <3>6. Takes(p, n, "unlock", new)
        BY <2>1, <2>3, <3>3, <3>4, <3>5, NewFolder DEF ItemStage
      <3> QED BY <2>1, <3>4, <3>6, Quiet DEF ItemStage
    <2> QED BY <1>20, <2>2, <2>3 DEF Relink
  <1>21. ASSUME NEW step \in {"error", "init", "copying", "relink", "done"}, Goes(p, n, step),
                UNCHANGED <<case, links, flag, program, cache>>, InModules(p),
                \/ step \in {"error", "init", "copying"} /\ n \in Package /\ job[p][n] \in {"copy", "copying"}
                \/ step \in {"error", "init", "relink"} /\ n \in Copy /\ job[p][n] = "link"
                \/ step = "done" /\ job[p][n] = "init",
                step = "error" => ~case.lax
         PROVE  \E s \in ItemStage, f \in Folder : Takes(p, n, s, f) /\ Remembers(p, n, s, f)
    <2>1. Knows(p, n, step, old)
      BY <1>2, <1>3, <1>4, <1>21 DEF Leaves, Knows
    <2>2. ItemOrder(p, n, step)
      BY <1>2, <1>3, <1>21 DEF Leaves, ItemOrder
    <2>3. Leaves(p, n, step, old)
      BY <1>2, <1>21, <2>1, <2>2 DEF Leaves
    <2>4. Takes(p, n, step, old)
      BY <1>21, <2>3, SameFolder DEF ItemStage, old
    <2> QED BY <1>2, <1>21, <2>4, Quiet DEF ItemStage
  <1>22. CASE CopyFile(p, n)
    <2>1. /\ job[p][n] = "copy" /\ UNCHANGED <<case, links, flag, program, cache>>
          /\ n \in Package /\ InModules(p) /\ old.there /\ old.content = "whole"
      BY <1>2, <1>22 DEF CopyFile, At, SameProgram, Leaves, ItemOrder, Knows, WholeFolder
    <2>2. Goes(p, n, "copying")
      BY <1>22, <2>1 DEF CopyFile, old
    <2> QED BY <1>21, <2>1, <2>2
  <1>23. CASE CopyRest(p, n)
    <2>1. /\ job[p][n] = "copying" /\ UNCHANGED <<case, links, flag, program, cache>>
          /\ n \in Package /\ InModules(p)
      BY <1>2, <1>23 DEF CopyRest, At, SameProgram, Leaves, ItemOrder
    <2>2. Goes(p, n, "init") \/ (Goes(p, n, "error") /\ ~case.lax)
      BY <1>5, <1>23 DEF CopyRest
    <2> QED BY <1>21, <2>1, <2>2
  <1>24. CASE LinkCopy(p, n)
    <2>1. /\ job[p][n] = "link" /\ UNCHANGED <<case, links, flag, program, cache>>
          /\ n \in Copy /\ InModules(p)
      BY <1>2, <1>24 DEF LinkCopy, At, SameProgram, Leaves, ItemOrder
    <2>2. Goes(p, n, "init") \/ Goes(p, n, "relink") \/ (Goes(p, n, "error") /\ ~case.lax)
      BY <1>5, <1>24 DEF LinkCopy
    <2> QED BY <1>21, <2>1, <2>2
  <1>25. CASE Initialized(p, n)
    <2>1. /\ job[p][n] = "init" /\ UNCHANGED <<case, links, flag, program, cache>>
          /\ InModules(p) /\ Goes(p, n, "done")
      BY <1>2, <1>25 DEF Initialized, At, SameProgram, Leaves, ItemOrder
    <2> QED BY <1>21, <2>1
  <1> QED BY <1>10, <1>11, <1>12, <1>13, <1>14, <1>15, <1>16, <1>17, <1>18, <1>19, <1>20, <1>22,
             <1>23, <1>24, <1>25 DEF ItemStep

\* What a step of p on n makes of the invariant, but for node_modules.
LEMMA SamePrograms ==
  ASSUME Inv, NEW p \in Program, NEW n \in Item, NEW step, NEW f, Remembers(p, n, step, f)
  PROVE  \A q \in Program : /\ program'[q].pc = program[q].pc /\ program'[q].round = program[q].round
                            /\ (Active(q)' <=> Active(q)) /\ (Ended(q)' <=> Ended(q))
                            /\ (Started(q)' <=> Started(q))
  <1>1. \A q \in Program : program'[q].pc = program[q].pc /\ program'[q].round = program[q].round
    BY DEF Remembers
  <1> QED BY <1>1 DEF Active, Ended, Started

LEMMA KeepsExclusive ==
  ASSUME Inv, NEW p \in Program, NEW n \in Item, NEW step, NEW f,
         Takes(p, n, step, f), Remembers(p, n, step, f)
  PROVE  Exclusive'
  <1>1. case' = case /\ flag' = flag
    BY DEF Takes
  <1> QED BY <1>1, SamePrograms DEF Inv, Exclusive

LEMMA KeepsOrder ==
  ASSUME CasesOK, Inv, NEW p \in Program, program[p].pc \in {"packages", "copies"}, NEW n \in Item,
         NEW step, NEW f, Takes(p, n, step, f), Remembers(p, n, step, f)
  PROVE  Order'
  <1>1. /\ case' = case /\ \A q \in Program : program'[q].pc = program[q].pc
        /\ \A q \in Program : \A m \in Item : job'[q][m] = IF q = p /\ m = n THEN step ELSE job[q][m]
    BY SamePrograms DEF Takes, Moves
  <1>2. \A q \in Program : \A m \in Item : \A s : ItemOrder(q, m, s)' <=> ItemOrder(q, m, s)
    BY <1>1 DEF ItemOrder, InModules
  <1>3. ASSUME NEW q \in Program, NEW m \in Item PROVE ItemOrder(q, m, job[q][m])'
    BY <1>1, <1>2 DEF Inv, Order, Takes, Leaves
  <1>4. ASSUME NEW q \in Program PROVE ProgramOrder(q)'
    <2>1. CASE q # p
      BY <1>1, <2>1 DEF Inv, Order, ProgramOrder, Item
    <2>2. CASE q = p
      <3>1. ProgramOrder(p) /\ job[p][n] \notin {"done", "error"} /\ (job[p][n] = "todo" => Ready(p, n))
        BY DEF Inv, Order, Takes
      <3>2. n \in Copy => program[p].pc = "copies"
        BY <3>1 DEF ProgramOrder, Ready, CasesOK, ConstantsOK
      <3>3. n \in Package => program[p].pc = "packages"
        BY <3>1 DEF ProgramOrder
      <3>4. n \in Copy => \A d \in Copy \ {n} : job[p][d] \in {"todo", "done"}
        BY <3>1 DEF ProgramOrder, Ready, CasesOK, ConstantsOK
      <3>5. \A c \in Copy : c \in Item
        BY DEF Item
      <3>6. \A c \in Copy : c # n => job'[p][c] = job[p][c]
        BY <1>1, <3>5
      <3>7. \A c, d \in Copy : c # d => job'[p][c] \in {"todo", "done"} \/ job'[p][d] \in {"todo", "done"}
        BY <3>1, <3>4, <3>6 DEF ProgramOrder
      <3>8. \A m \in Package : m # n => job'[p][m] = job[p][m]
        BY <1>1 DEF Item
      <3> QED BY <1>1, <2>2, <3>1, <3>2, <3>3, <3>6, <3>7, <3>8 DEF ProgramOrder, CasesOK, ConstantsOK, Item
    <2> QED BY <2>1, <2>2
  <1> QED BY <1>3, <1>4 DEF Order

LEMMA KeepsCache ==
  ASSUME CasesOK, Inv, NEW p \in Program, program[p].pc \in {"packages", "copies"}, NEW n \in Item,
         NEW step, NEW f, Takes(p, n, step, f), Remembers(p, n, step, f)
  PROVE  CacheInv'
  <1>1. /\ case' = case
        /\ \A q \in Program : \A m \in Item : job'[q][m] = IF q = p /\ m = n THEN step ELSE job[q][m]
        /\ \A m \in Item : cache'[m] = IF m = n THEN f ELSE cache[m]
        /\ Leaves(p, n, step, f)
    BY DEF Takes, Moves
  <1>2. \A q \in Program : (Active(q)' <=> Active(q)) /\ (Ended(q)' <=> Ended(q))
    BY SamePrograms
  <1>3. /\ Active(p) /\ ~Ended(p)
        /\ ~case.lax => \A q \in Program : Active(q) => q = p
    BY AtWork
  <1>4. ASSUME case.lax, NEW m \in Item PROVE cache'[m] = CachedFolder /\ cache'[m] = cache[m]
    BY <1>1, <1>4 DEF Inv, CacheInv, Leaves
  <1>5. ASSUME NEW m \in Item, cache'[m].content \in Program
        PROVE  Active(cache[m].content)' /\ job'[cache'[m].content][m] \in {"write", "clean"}
    BY <1>1, <1>2, <1>3, <1>5 DEF Inv, CacheInv, Leaves
  <1>6. UnlockedWhole'
    <2> SUFFICES ASSUME NEW m \in Item, cache'[m].there, ~cache'[m].lock, ~Busy(m, {"lock", "clean"})'
                 PROVE  cache'[m].content = "whole"
      BY DEF UnlockedWhole
    <2>1. CASE m = n
      <3>1. step \notin {"lock", "clean"}
        BY <1>1, <1>2, <1>3, <2>1 DEF Busy
      <3> QED BY <1>1, <2>1, <3>1 DEF Leaves
    <2>2. CASE m # n
      <3>1. ~Busy(m, {"lock", "clean"})
        BY <1>1, <1>2, <2>2 DEF Busy
      <3> QED BY <1>1, <2>2, <3>1 DEF Inv, CacheInv, UnlockedWhole
    <2> QED BY <2>1, <2>2
  <1>7. ASSUME NEW q \in Program, Active(q), NEW m \in Item
        PROVE  Knows(q, m, job[q][m], cache[m])'
    <2>0. Knows(q, m, job[q][m], cache[m])
      BY <1>7 DEF Inv, CacheInv
    <2>1. CASE q # p
      <3>1. cache'[m] = cache[m]
        BY <1>3, <1>4, <1>7, <2>1
      <3>2. job'[q][m] = job[q][m] /\ program'[q].fetched = program[q].fetched
        BY <1>1, <2>1 DEF Remembers
      <3> QED BY <1>1, <2>0, <3>1, <3>2 DEF Knows, InModules
    <2>2. CASE q = p /\ m # n
      <3>1. cache'[m] = cache[m] /\ job'[q][m] = job[q][m]
        BY <1>1, <2>2
      <3>2. m \in program'[q].fetched <=> m \in program[q].fetched
        BY <2>2 DEF Remembers
      <3> QED BY <1>1, <2>0, <3>1, <3>2 DEF Knows, InModules
    <2>3. CASE q = p /\ m = n
      <3>1. cache'[m] = f /\ job'[q][m] = step
        BY <1>1, <2>3
      <3>2. step = "done" /\ m \in program'[q].fetched => m \in program[q].fetched
        BY <2>3 DEF Remembers
      <3> QED BY <1>1, <2>3, <3>1, <3>2 DEF Knows, InModules, Leaves
    <2> QED BY <2>1, <2>2, <2>3
  <1> QED BY <1>1, <1>2, <1>4, <1>5, <1>6, <1>7 DEF CacheInv, CachedFolder

LEMMA KeepsOnce ==
  ASSUME CasesOK, Inv, NEW p \in Program, program[p].pc \in {"packages", "copies"}, NEW n \in Item,
         NEW step, NEW f, Takes(p, n, step, f), Remembers(p, n, step, f)
  PROVE  OnceInv'
  <1>1. /\ case' = case
        /\ \A q \in Program : \A m \in Item : job'[q][m] = IF q = p /\ m = n THEN step ELSE job[q][m]
        /\ \A m \in Item : cache'[m] = IF m = n THEN f ELSE cache[m]
    BY DEF Takes, Moves
  <1>2. /\ \A q \in Program : (Ended(q)' <=> Ended(q)) /\ program'[q].pc = program[q].pc
        /\ ~Ended(p)
        /\ \A q \in Program : Uses(q)' = Uses(q)
    BY <1>1, SamePrograms DEF Uses, Ended
  <1>3. ASSUME NEW q \in Program \ {p} PROVE Fetched(q)'
    <2>1. program'[q] = program[q] /\ Fetched(q)
      BY DEF Remembers, Inv, OnceInv
    <2>2. Ended(q) \/ program[q].fetched = {}
      BY <2>1, AtWork DEF Fetched
    <2> QED BY <1>1, <1>2, <2>1, <2>2 DEF Fetched, Item
  <1>4. Fetched(p)'
    <2>1. Fetched(p)
      BY DEF Inv, OnceInv
    <2>2. /\ ~program'[p].again /\ program'[p].fetched \subseteq Package
          /\ case.lax => program'[p].fetched = {}
          /\ program'[p].pc \notin {"start", "waiting"}
      BY <1>2, <2>1 DEF Fetched, Remembers
    <2>3. ASSUME NEW m \in Package, m # n
          PROVE  /\ m \in program'[p].fetched => Uses(p) \/ m \in program'[p].reloaded
                 /\ m \in program'[p].fetched /\ job'[p][m] \in {"todo", "look", "locked?"} => WholeFolder(cache'[m])
                 /\ job'[p][m] = "locked?" => Uses(p) \/ m \in program'[p].reloaded
                 /\ job'[p][m] = "fetch" => m \notin program'[p].fetched /\ (Uses(p) \/ m \in program'[p].reloaded)
      <3>1. m \in Item /\ job'[p][m] = job[p][m] /\ cache'[m] = cache[m]
        BY <1>1, <2>3 DEF Item
      <3>2. m \in program'[p].fetched <=> m \in program[p].fetched
        BY <2>3 DEF Remembers
      <3>3. m \in program[p].reloaded => m \in program'[p].reloaded
        BY DEF Remembers
      <3> QED BY <1>2, <2>1, <3>1, <3>2, <3>3 DEF Fetched
    <2>4. ASSUME n \in Package
          PROVE  /\ n \in program'[p].fetched => Uses(p) \/ n \in program'[p].reloaded
                 /\ n \in program'[p].fetched /\ job'[p][n] \in {"todo", "look", "locked?"} => WholeFolder(cache'[n])
                 /\ job'[p][n] = "locked?" => Uses(p) \/ n \in program'[p].reloaded
                 /\ job'[p][n] = "fetch" => n \notin program'[p].fetched /\ (Uses(p) \/ n \in program'[p].reloaded)
      <3>1. job'[p][n] = step /\ cache'[n] = f
        BY <1>1
      <3> QED BY <1>2, <2>1, <2>4, <3>1 DEF Fetched, Remembers
    <2> QED BY <1>1, <1>2, <2>2, <2>3, <2>4 DEF Fetched
  <1> QED BY <1>3, <1>4 DEF OnceInv

-----------------------------------------------------------------------------
(* node_modules                                                            *)

\* Where everybody is after a step of p on n, and who is in the same folders as n
LEMMA Places ==
  ASSUME CasesOK, Inv, NEW p \in Program, program[p].pc \in {"packages", "copies"}, NEW n \in Item,
         NEW step, NEW f, Takes(p, n, step, f), Remembers(p, n, step, f)
  PROVE  /\ case' = case /\ Reloads' = Reloads
         /\ \A q \in Program : InModules(q)' = InModules(q) /\ (Active(q)' <=> Active(q))
         /\ \A q \in Program : \A m \in Item : job'[q][m] = IF q = p /\ m = n THEN step ELSE job[q][m]
         /\ \A m \in Item : m # n => (Filling(m)' <=> Filling(m)) /\ (Relinked(m)' <=> Relinked(m))
         /\ Filling(n)' <=> (step \in {"copying", "init"} \/ \E q \in Program \ {p} : Active(q) /\ job[q][n] \in {"copying", "init"})
         /\ Relinked(n)' <=> \/ step = "relink" /\ InModules(p)
                             \/ \E q \in Program \ {p} : Active(q) /\ InModules(q) /\ job[q][n] = "relink"
  <1>1. case' = case
    BY DEF Takes
  <1>2. Reloads' = Reloads
    BY <1>1 DEF Reloads, Uses
  <1>3. \A q \in Program : InModules(q)' = InModules(q) /\ (Active(q)' <=> Active(q))
    BY <1>1, SamePrograms DEF InModules
  <1>4. \A q \in Program : \A m \in Item : job'[q][m] = IF q = p /\ m = n THEN step ELSE job[q][m]
    BY DEF Takes, Moves
  <1>5. \A m \in Item : m # n => (Filling(m)' <=> Filling(m)) /\ (Relinked(m)' <=> Relinked(m))
    BY <1>3, <1>4 DEF Filling, Relinked
  <1>6. Active(p)
    BY AtWork
  <1>7. Filling(n)' <=> (step \in {"copying", "init"} \/ \E q \in Program \ {p} : Active(q) /\ job[q][n] \in {"copying", "init"})
    BY <1>3, <1>4, <1>6 DEF Filling
  <1>8. Relinked(n)' <=> \/ step = "relink" /\ InModules(p)
                         \/ \E q \in Program \ {p} : Active(q) /\ InModules(q) /\ job[q][n] = "relink"
    BY <1>3, <1>4, <1>6 DEF Relinked
  <1> QED BY <1>1, <1>2, <1>3, <1>4, <1>5, <1>7, <1>8

LEMMA Families ==
  ASSUME CasesOK
  PROVE  /\ \A n \in Item : PackageOf(n) \in Package /\ PackageOf(n) \in Item
         /\ \A n \in Package : n \in Item /\ n \notin Copy /\ PackageOf(n) = n
         /\ \A c \in Copy : c \in Item /\ PackageOf(c) = Original(c) /\ c \notin Package
         /\ \A n \in Package : \A m \in Item : m \in Family(n) <=> PackageOf(m) = n
  BY DEF CasesOK, ConstantsOK, Item, PackageOf, Family

\* Steps that leave node_modules alone
LEMMA QuietModules ==
  ASSUME CasesOK, Inv, NEW p \in Program, program[p].pc \in {"packages", "copies"}, NEW n \in Item,
         NEW step, NEW f, Takes(p, n, step, f), Remembers(p, n, step, f), UNCHANGED modules,
         step \notin {"init", "copying"}, job[p][n] \notin {"init"},
         job[p][n] = "copying" => FALSE,
         job[p][n] = "relink" \/ step = "relink" => ~InModules(p),
         step = "done" /\ InModules(p) => modules[n].init,
         step = "link" /\ InModules(p) => ~modules[n].init,
         n \in Package /\ step \in Before /\ InModules(p) => job[p][n] \in Before \/ ~modules[n].init \/ Reloads
  PROVE  ModulesInv'
  <1>1. /\ case' = case /\ Reloads' = Reloads
        /\ \A q \in Program : InModules(q)' = InModules(q) /\ (Active(q)' <=> Active(q))
        /\ \A q \in Program : \A m \in Item : job'[q][m] = IF q = p /\ m = n THEN step ELSE job[q][m]
    BY Places
  <1>2. \A m \in Item : (Filling(m)' <=> Filling(m)) /\ (Relinked(m)' <=> Relinked(m))
    BY <1>1 DEF Filling, Relinked
  <1>3. Writers'
    <2> SUFFICES ASSUME NEW m \in Item, modules[m].content \in Program
                 PROVE  Active(modules[m].content)' /\ job'[modules[m].content][PackageOf(m)] = "copying"
      BY DEF Writers, PackageOf
    <2>1. Active(modules[m].content) /\ job[modules[m].content][PackageOf(m)] = "copying"
      BY DEF Inv, ModulesInv, Writers
    <2> QED BY <1>1, <2>1, Families
  <1>4. Complete' /\ PartsUnused'
    BY <1>1, <1>2 DEF Inv, ModulesInv, Complete, PartsUnused
  <1>5. CopiesLast'
    BY <1>2, Families DEF Inv, ModulesInv, CopiesLast
  <1>6. DoneInit'
    BY <1>1 DEF Inv, ModulesInv, DoneInit
  <1>7. NotAgain'
    BY <1>1, Families DEF Inv, ModulesInv, NotAgain
  <1>8. LinkedOnce'
    BY <1>1, Families DEF Inv, ModulesInv, LinkedOnce
  <1> QED BY <1>3, <1>4, <1>5, <1>6, <1>7, <1>8 DEF ModulesInv

LEMMA ModuleParts ==
  ASSUME NEW g \in Module
  PROVE  /\ \A c : [g EXCEPT !.content = c] = [init |-> g.init, content |-> c]
         /\ \A b : [g EXCEPT !.init = b] = [init |-> b, content |-> g.content]
         /\ \A b \in BOOLEAN : \A c \in Content : [init |-> b, content |-> c] \in Module
         /\ g.init \in BOOLEAN /\ g.content \in Content
  <1>1. \A c : [g EXCEPT !.content = c] = [init |-> g.init, content |-> c]
    BY DEF Module
  <1>2. \A b : [g EXCEPT !.init = b] = [init |-> b, content |-> g.content]
    BY DEF Module
  <1>3. \A b \in BOOLEAN : \A c \in Content : [init |-> b, content |-> c] \in Module
    BY DEF Module
  <1>4. g.init \in BOOLEAN /\ g.content \in Content
    BY DEF Module
  <1> QED BY <1>1, <1>2, <1>3, <1>4

\* A package is opened.
LEMMA CopyFileModules ==
  ASSUME CasesOK, Inv, NEW p \in Program, program[p].pc \in {"packages", "copies"}, NEW n \in Item,
         NEW step, NEW f, Takes(p, n, step, f), Remembers(p, n, step, f), CopyFile(p, n)
  PROVE  modules' \in [Item -> Module] /\ ModulesInv'
  <1>0. /\ job[p][n] = "copy" /\ n \in Package /\ InModules(p) /\ cache[n].there /\ cache[n].content = "whole"
        /\ Active(p) /\ modules \in [Item -> Module]
    BY Here, AtWork DEF CopyFile, At, Leaves, ItemOrder, Knows, WholeFolder, Inv, Typed
  <1>1. modules' = Opened(p, n) /\ Goes(p, n, "copying")
    BY <1>0 DEF CopyFile
  <1>2. step = "copying"
    BY <1>1, Gone DEF Inv, Takes, Moves, ItemStage
  <1>3. /\ case' = case /\ Reloads' = Reloads
        /\ \A q \in Program : InModules(q)' = InModules(q) /\ (Active(q)' <=> Active(q))
        /\ \A q \in Program : \A m \in Item : job'[q][m] = IF q = p /\ m = n THEN step ELSE job[q][m]
        /\ \A m \in Item : m # n => (Filling(m)' <=> Filling(m)) /\ (Relinked(m)' <=> Relinked(m))
    BY Places
  <1>4. /\ modules' \in [Item -> Module]
        /\ modules'[n].content = p
        /\ \A m \in Item : /\ modules'[m].init = modules[m].init
                           /\ \/ modules'[m].content = modules[m].content
                              \/ modules'[m].content = p /\ PackageOf(m) = n
    <2>1. modules' = [m \in Item |-> IF m = n \/ (/\ m \in Family(n) /\ modules[n].content # "none"
                                                  /\ modules[m].content # "none")
                                     THEN [modules[m] EXCEPT !.content = p] ELSE modules[m]]
      BY <1>1 DEF Opened
    <2>2. \A m \in Item : /\ [modules[m] EXCEPT !.content = p] = [init |-> modules[m].init, content |-> p]
                          /\ [init |-> modules[m].init, content |-> p] \in Module
      BY <1>0, ModuleParts DEF Content
    <2>3. n \in Item /\ \A m \in Family(n) : m \in Item => PackageOf(m) = n
      BY <1>0, Families
    <2>4. n \in Family(n)
      BY DEF Family
    <2>5. \A m \in Item : modules'[m] = IF m = n \/ (/\ m \in Family(n) /\ modules[n].content # "none"
                                                    /\ modules[m].content # "none")
                                       THEN [init |-> modules[m].init, content |-> p] ELSE modules[m]
      BY <2>1, <2>2
    <2>6. \A m \in Item : modules'[m] \in Module
      BY <1>0, <2>2, <2>5
    <2>7. modules' \in [Item -> Module]
      BY <2>1, <2>6
    <2>8. ASSUME NEW m \in Item
          PROVE  /\ modules'[m].init = modules[m].init
                 /\ modules'[m].content = modules[m].content \/ (modules'[m].content = p /\ PackageOf(m) = n)
      <3>1. CASE modules'[m] = modules[m]
        BY <3>1
      <3>2. CASE modules'[m] = [init |-> modules[m].init, content |-> p] /\ m \in Family(n)
        BY <2>3, <3>2
      <3> QED BY <2>4, <2>5, <3>1, <3>2
    <2>9. modules'[n].content = p
      <3>1. modules'[n] = [init |-> modules[n].init, content |-> p]
        BY <2>3, <2>5
      <3> QED BY <3>1
    <2> QED BY <2>7, <2>8, <2>9
  <1>5. p \notin {"none", "part", "whole"}
    BY DEF CasesOK, ConstantsOK
  <1>6. Writers'
    <2> SUFFICES ASSUME NEW m \in Item, NEW q \in Program, modules'[m].content = q
                 PROVE  Active(q)' /\ job'[q][PackageOf(m)] = "copying"
      BY DEF Writers, PackageOf
    <2>1. CASE modules[m].content = q
      <3>1. Active(q) /\ job[q][PackageOf(m)] = "copying"
        BY <2>1 DEF Inv, ModulesInv, Writers
      <3> QED BY <1>2, <1>3, <3>1, Families
    <2>2. CASE q = p /\ PackageOf(m) = n
      BY <1>0, <1>2, <1>3, <2>2
    <2> QED BY <1>4, <2>1, <2>2
  <1>7. Relinked(n)' <=> Relinked(n)
    BY <1>0, <1>2, <1>3 DEF Relinked
  <1>8. Complete'
    BY <1>3, <1>4, <1>7 DEF Inv, ModulesInv, Complete
  <1>9. PartsUnused'
    BY <1>3, <1>4, <1>5, <1>7 DEF Inv, ModulesInv, PartsUnused
  <1>10. CopiesLast'
    BY <1>0, <1>3, <1>4, Families DEF Inv, ModulesInv, CopiesLast
  <1>11. DoneInit'
    BY <1>2, <1>3, <1>4 DEF Inv, ModulesInv, DoneInit
  <1>12. NotAgain'
    BY <1>0, <1>2, <1>3, <1>4, Families DEF Inv, ModulesInv, NotAgain, Before
  <1>13. LinkedOnce'
    BY <1>2, <1>3, <1>4, Families DEF Inv, ModulesInv, LinkedOnce
  <1> QED BY <1>4, <1>6, <1>8, <1>9, <1>10, <1>11, <1>12, <1>13 DEF ModulesInv

\* The step that a package or copy takes
LEMMA StepIs ==
  ASSUME Inv, NEW p \in Program, NEW n \in Item, NEW step, NEW f, Takes(p, n, step, f)
  PROVE  /\ \A s : Goes(p, n, s) => step = s
         /\ UNCHANGED job => step = job[p][n]
  <1>1. job'[p][n] = step /\ job \in [Program -> [Item -> ItemStage]]
    BY DEF Takes, Moves, Inv, Typed
  <1>2. ASSUME NEW s, Goes(p, n, s) PROVE step = s
    BY <1>1, <1>2 DEF Goes
  <1> QED BY <1>1, <1>2

\* In node_modules, with a copy, its package is there.
LEMMA PackageThere ==
  ASSUME CasesOK, Inv, NEW p \in Program, program[p].pc \in {"packages", "copies"}, NEW n \in Copy,
         InModules(p), job[p][n] # "todo"
  PROVE  /\ Original(n) \in Item /\ Original(n) # n /\ modules[Original(n)].init
         /\ modules[Original(n)].content \in {"whole"} \cup Program
  <1> DEFINE o == Original(n)
  <1>1. o \in Package /\ o \in Item /\ o \notin Copy /\ o # n /\ n \in Item
    BY DEF CasesOK, ConstantsOK, Item
  <1>2. program[p].pc = "copies"
    BY DEF Inv, Order, ProgramOrder
  <1>3. job[p][o] = "done"
    BY <1>1, <1>2 DEF Inv, Order, ProgramOrder
  <1>4. modules[o].init
    BY <1>1, <1>3, AtWork DEF Inv, ModulesInv, DoneInit
  <1>5. ~Relinked(o)
    <2>1. \A q \in Program : job[q][o] # "relink"
      BY <1>1 DEF Inv, Order, ItemOrder
    <2> QED BY <2>1 DEF Relinked
  <1>6. modules[o].content \in {"whole"} \cup Program
    BY <1>1, <1>4, <1>5 DEF Inv, ModulesInv, Complete
  <1> QED BY <1>1, <1>4, <1>6

\* A module of which the content or the mark is changed
LEMMA NewModule ==
  ASSUME Inv, NEW n \in Item
  PROVE  /\ \A c \in Content : modules' = [modules EXCEPT ![n].content = c] =>
                /\ modules' \in [Item -> Module] /\ modules'[n].content = c
                /\ \A m \in Item : /\ modules'[m].init = modules[m].init
                                   /\ m # n => modules'[m].content = modules[m].content
         /\ modules' = [modules EXCEPT ![n].init = TRUE] =>
                /\ modules' \in [Item -> Module] /\ modules'[n].init
                /\ \A m \in Item : /\ modules'[m].content = modules[m].content
                                   /\ m # n => modules'[m].init = modules[m].init
  <1>1. modules \in [Item -> Module]
    BY DEF Inv, Typed
  <1>2. ASSUME NEW c \in Content, modules' = [modules EXCEPT ![n].content = c]
        PROVE  /\ modules' \in [Item -> Module] /\ modules'[n].content = c
               /\ \A m \in Item : /\ modules'[m].init = modules[m].init
                                  /\ m # n => modules'[m].content = modules[m].content
    <2>1. /\ [modules[n] EXCEPT !.content = c] = [init |-> modules[n].init, content |-> c]
          /\ [init |-> modules[n].init, content |-> c] \in Module
      BY <1>1, ModuleParts
    <2>2. modules' = [modules EXCEPT ![n] = [init |-> modules[n].init, content |-> c]]
      BY <1>2, <2>1
    <2>3. modules'[n] = [init |-> modules[n].init, content |-> c] /\ \A m \in Item : m # n => modules'[m] = modules[m]
      BY <1>1, <2>2
    <2>4. modules' \in [Item -> Module]
      BY <1>1, <2>1, <2>2
    <2>5. modules'[n].init = modules[n].init /\ modules'[n].content = c
      BY <2>3
    <2> QED BY <2>3, <2>4, <2>5
  <1>3. ASSUME modules' = [modules EXCEPT ![n].init = TRUE]
        PROVE  /\ modules' \in [Item -> Module] /\ modules'[n].init
               /\ \A m \in Item : /\ modules'[m].content = modules[m].content
                                  /\ m # n => modules'[m].init = modules[m].init
    <2>1. /\ [modules[n] EXCEPT !.init = TRUE] = [init |-> TRUE, content |-> modules[n].content]
          /\ [init |-> TRUE, content |-> modules[n].content] \in Module
      BY <1>1, ModuleParts
    <2>2. modules' = [modules EXCEPT ![n] = [init |-> TRUE, content |-> modules[n].content]]
      BY <1>3, <2>1
    <2>3. modules'[n] = [init |-> TRUE, content |-> modules[n].content] /\ \A m \in Item : m # n => modules'[m] = modules[m]
      BY <1>1, <2>2
    <2>4. modules' \in [Item -> Module]
      BY <1>1, <2>1, <2>2
    <2>5. modules'[n].init = TRUE /\ modules'[n].content = modules[n].content
      BY <2>3
    <2> QED BY <2>3, <2>4, <2>5
  <1> QED BY <1>2, <1>3

\* What p has been writing is now c.
LEMMA FilledModules ==
  ASSUME CasesOK, Inv, NEW p \in Program, NEW n \in Package, NEW c \in {"whole", "part"},
         modules' = Filled(modules, p, n, c)
  PROVE  /\ modules' \in [Item -> Module]
         /\ \A m \in Item : /\ modules'[m].init = modules[m].init
                            /\ modules'[m].content =
                                  IF PackageOf(m) = n /\ modules[m].content = p THEN c ELSE modules[m].content
  <1>1. modules' = [m \in Item |-> IF m \in Family(n) /\ modules[m].content = p
                                   THEN [modules[m] EXCEPT !.content = c] ELSE modules[m]]
    BY DEF Filled
  <1>2. \A m \in Item : /\ [modules[m] EXCEPT !.content = c] = [init |-> modules[m].init, content |-> c]
                        /\ [init |-> modules[m].init, content |-> c] \in Module
    BY ModuleParts DEF Content, Inv, Typed
  <1>3. \A m \in Item : m \in Family(n) <=> PackageOf(m) = n
    BY Families
  <1>4. \A m \in Item : modules'[m] = IF PackageOf(m) = n /\ modules[m].content = p
                                      THEN [init |-> modules[m].init, content |-> c] ELSE modules[m]
    BY <1>1, <1>2, <1>3
  <1>5. \A m \in Item : modules'[m] \in Module
    BY <1>2, <1>4 DEF Inv, Typed
  <1>6. modules' \in [Item -> Module]
    BY <1>1, <1>5
  <1>7. ASSUME NEW m \in Item
        PROVE  /\ modules'[m].init = modules[m].init
               /\ modules'[m].content = IF PackageOf(m) = n /\ modules[m].content = p THEN c ELSE modules[m].content
    <2>1. CASE PackageOf(m) = n /\ modules[m].content = p
      <3>1. modules'[m] = [init |-> modules[m].init, content |-> c]
        BY <1>4, <2>1
      <3> QED BY <2>1, <3>1
    <2>2. CASE ~(PackageOf(m) = n /\ modules[m].content = p)
      <3>1. modules'[m] = modules[m]
        BY <1>4, <2>2
      <3> QED BY <2>2, <3>1
    <2> QED BY <2>1, <2>2
  <1> QED BY <1>6, <1>7

\* A package is copied, or its copy breaks off.
LEMMA CopyRestModules ==
  ASSUME CasesOK, Inv, NEW p \in Program, program[p].pc \in {"packages", "copies"}, NEW n \in Item,
         NEW step, NEW f, Takes(p, n, step, f), Remembers(p, n, step, f), CopyRest(p, n)
  PROVE  modules' \in [Item -> Module] /\ ModulesInv'
  <1>0. /\ job[p][n] = "copying" /\ n \in Package /\ n \notin Copy /\ InModules(p) /\ cache[n].content = "whole"
        /\ Active(p) /\ Serial(case)
        /\ ~case.lax => \A q \in Program : Active(q) => q = p
    BY Here, AtWork, Families DEF CopyRest, At, Leaves, ItemOrder, Knows, WholeFolder
  <1>1. \/ step = "init" /\ modules' = Filled(modules, p, n, "whole")
        \/ step = "error" /\ modules' = Filled(modules, p, n, "part") /\ case.faults
    BY <1>0, StepIs DEF CopyRest
  <1>2. PICK c \in {"whole", "part"} : /\ modules' = Filled(modules, p, n, c)
                                       /\ \/ step = "init" /\ c = "whole"
                                          \/ step = "error" /\ c = "part" /\ case.faults
    BY <1>1
  <1>3. /\ case' = case /\ Reloads' = Reloads
        /\ \A q \in Program : InModules(q)' = InModules(q) /\ (Active(q)' <=> Active(q))
        /\ \A q \in Program : \A m \in Item : job'[q][m] = IF q = p /\ m = n THEN step ELSE job[q][m]
        /\ \A m \in Item : m # n => (Filling(m)' <=> Filling(m)) /\ (Relinked(m)' <=> Relinked(m))
    BY Places
  <1>4. /\ modules' \in [Item -> Module]
        /\ \A m \in Item : /\ modules'[m].init = modules[m].init
                           /\ modules'[m].content =
                                 IF PackageOf(m) = n /\ modules[m].content = p THEN c ELSE modules[m].content
    BY <1>0, <1>2, FilledModules
  <1>5. "whole" \notin Program /\ "part" \notin Program
    BY DEF CasesOK, ConstantsOK
  <1>6. Filling(n) /\ (Relinked(n)' <=> Relinked(n))
    BY <1>0, <1>2, <1>3 DEF Filling, Relinked
  <1>7. Writers'
    <2> SUFFICES ASSUME NEW m \in Item, NEW q \in Program, modules'[m].content = q
                 PROVE  Active(q)' /\ job'[q][PackageOf(m)] = "copying"
      BY DEF Writers, PackageOf
    <2>1. modules[m].content = q /\ ~(q = p /\ PackageOf(m) = n)
      BY <1>4, <1>5
    <2>2. Active(q) /\ job[q][PackageOf(m)] = "copying"
      BY <2>1 DEF Inv, ModulesInv, Writers
    <2> QED BY <1>3, <2>1, <2>2, Families
  <1>8. step = "error" => /\ ~case.lax /\ ~Reloads /\ ~Filling(n)' /\ ~modules[n].init
                          /\ \A m \in Item : PackageOf(m) = n => ~modules[m].init /\ ~Filling(m)' /\ ~Relinked(m)'
    <2> SUFFICES ASSUME step = "error", case.faults
                 PROVE  /\ ~case.lax /\ ~Reloads /\ ~Filling(n)' /\ ~modules[n].init
                        /\ \A m \in Item : PackageOf(m) = n => ~modules[m].init /\ ~Filling(m)' /\ ~Relinked(m)'
      BY <1>2
    <2>1. ~case.lax /\ ~Reloads
      BY <1>0 DEF Serial, Reloads, Uses
    <2>2. \A q \in Program : Active(q) => q = p
      BY <1>0, <2>1
    <2>3. ~Filling(n)' /\ ~Relinked(n)'
      BY <1>3, <2>2 DEF Filling, Relinked
    <2>4. ~modules[n].init
      BY <1>0, <2>1 DEF Inv, ModulesInv, NotAgain, Before
    <2>5. ASSUME NEW m \in Item, PackageOf(m) = n, m # n
          PROVE  ~modules[m].init /\ ~Filling(m)' /\ ~Relinked(m)'
      <3>1. m \in Copy /\ Original(m) = n
        BY <2>5, Families DEF PackageOf, Item
      <3>2. ~modules[m].init /\ ~Filling(m)
        BY <2>4, <3>1 DEF Inv, ModulesInv, CopiesLast
      <3>3. program[p].pc = "packages"
        BY <1>0 DEF Inv, Order, ProgramOrder
      <3>4. job[p][m] = "todo"
        BY <3>1, <3>3 DEF Inv, Order, ProgramOrder
      <3>5. ~Relinked(m)
        BY <2>2, <3>4 DEF Relinked
      <3> QED BY <1>3, <2>5, <3>2, <3>5
    <2> QED BY <2>1, <2>3, <2>4, <2>5
  <1>9. Complete'
    <2> SUFFICES ASSUME NEW m \in Item, modules'[m].init \/ Filling(m)'
                 PROVE  modules'[m].content \in {"whole"} \cup Program \/ Relinked(m)'
      BY DEF Complete
    <2>1. modules[m].init \/ Filling(m)
      BY <1>3, <1>4, <1>6
    <2>2. modules[m].content \in {"whole"} \cup Program \/ Relinked(m)
      BY <2>1 DEF Inv, ModulesInv, Complete
    <2>3. modules'[m].content = modules[m].content \/ modules'[m].content = "whole"
      BY <1>2, <1>4, <1>8
    <2> QED BY <1>3, <1>6, <2>2, <2>3
  <1>10. PartsUnused'
    <2> SUFFICES ASSUME NEW m \in Item, modules'[m].content = "part"
                 PROVE  ~case.lax /\ ~modules'[m].init /\ ~Filling(m)' /\ ~Relinked(m)'
      BY <1>3 DEF PartsUnused
    <2>1. CASE modules[m].content = "part"
      BY <1>3, <1>4, <1>6, <2>1 DEF Inv, ModulesInv, PartsUnused
    <2>2. CASE modules[m].content # "part"
      <3>1. step = "error" /\ PackageOf(m) = n
        BY <1>2, <1>4, <2>2
      <3> QED BY <1>4, <1>8, <3>1
    <2> QED BY <2>1, <2>2
  <1>11. CopiesLast'
    BY <1>0, <1>3, <1>4, Families DEF Inv, ModulesInv, CopiesLast
  <1>12. DoneInit'
    BY <1>2, <1>3, <1>4 DEF Inv, ModulesInv, DoneInit
  <1>13. NotAgain'
    BY <1>2, <1>3, <1>4, Families DEF Inv, ModulesInv, NotAgain, Before
  <1>14. LinkedOnce'
    BY <1>2, <1>3, <1>4, Families DEF Inv, ModulesInv, LinkedOnce
  <1> QED BY <1>4, <1>7, <1>9, <1>10, <1>11, <1>12, <1>13, <1>14 DEF ModulesInv

\* A copy is linked, at once or after what was in its place is gone.
LEMMA LinkedModules ==
  ASSUME CasesOK, Inv, NEW p \in Program, program[p].pc \in {"packages", "copies"}, NEW n \in Copy, n \in Item,
         NEW step, NEW f, Takes(p, n, step, f), Remembers(p, n, step, f), InModules(p),
         job[p][n] \in {"link", "relink"},
         NEW c \in Content, modules' = [modules EXCEPT ![n].content = c],
         \/ step = "init" /\ c \in {"whole"} \cup Program
         \/ step = "relink" /\ c = "none",
         c \in Program => Active(c) /\ job[c][Original(n)] = "copying"
  PROVE  modules' \in [Item -> Module] /\ ModulesInv'
  <1>0. /\ Original(n) \in Item /\ Original(n) # n /\ modules[Original(n)].init /\ n \notin Package
        /\ PackageOf(n) = Original(n) /\ Active(p)
    BY PackageThere, Families, AtWork
  <1>1. /\ case' = case /\ Reloads' = Reloads
        /\ \A q \in Program : InModules(q)' = InModules(q) /\ (Active(q)' <=> Active(q))
        /\ \A q \in Program : \A m \in Item : job'[q][m] = IF q = p /\ m = n THEN step ELSE job[q][m]
        /\ \A m \in Item : m # n => (Filling(m)' <=> Filling(m)) /\ (Relinked(m)' <=> Relinked(m))
    BY Places
  <1>2. /\ modules' \in [Item -> Module] /\ modules'[n].content = c
        /\ \A m \in Item : /\ modules'[m].init = modules[m].init
                           /\ m # n => modules'[m].content = modules[m].content
    BY NewModule
  <1>3. "part" \notin Program /\ "none" \notin Program
    BY DEF CasesOK, ConstantsOK
  <1>4. Writers'
    <2> SUFFICES ASSUME NEW m \in Item, NEW q \in Program, modules'[m].content = q
                 PROVE  Active(q)' /\ job'[q][PackageOf(m)] = "copying"
      BY DEF Writers, PackageOf
    <2>1. PackageOf(m) \in Item /\ PackageOf(m) # n
      BY <1>0, Families
    <2>2. Active(q) /\ job[q][PackageOf(m)] = "copying"
      <3>1. CASE m = n
        BY <1>0, <1>2, <3>1
      <3>2. CASE m # n
        <4>1. modules[m].content = q
          BY <1>2, <3>2
        <4> QED BY <4>1 DEF Inv, ModulesInv, Writers
      <3> QED BY <3>1, <3>2
    <2> QED BY <1>1, <2>1, <2>2
  <1>5. Complete'
    <2> SUFFICES ASSUME NEW m \in Item, modules'[m].init \/ Filling(m)'
                 PROVE  modules'[m].content \in {"whole"} \cup Program \/ Relinked(m)'
      BY DEF Complete
    <2>1. CASE m # n
      BY <1>1, <1>2, <2>1 DEF Inv, ModulesInv, Complete
    <2>2. CASE m = n /\ step = "relink"
      BY <1>0, <1>1, <2>2 DEF Relinked
    <2>3. CASE m = n /\ c \in {"whole"} \cup Program
      BY <1>2, <2>3
    <2> QED BY <2>1, <2>2, <2>3
  <1>6. PartsUnused'
    <2> SUFFICES ASSUME NEW m \in Item, modules'[m].content = "part"
                 PROVE  ~case.lax /\ ~modules'[m].init /\ ~Filling(m)' /\ ~Relinked(m)'
      BY <1>1 DEF PartsUnused
    <2>1. m # n
      BY <1>2, <1>3
    <2> QED BY <1>1, <1>2, <2>1 DEF Inv, ModulesInv, PartsUnused
  <1>7. CopiesLast'
    <2> SUFFICES ASSUME NEW m \in Copy, modules'[m].init \/ Filling(m)'
                 PROVE  modules'[Original(m)].init
      BY DEF CopiesLast
    <2>1. CASE m = n
      BY <1>0, <1>2, <2>1
    <2>2. CASE m # n
      <3>1. m \in Item /\ Original(m) \in Item
        BY Families DEF CasesOK, ConstantsOK, Item
      <3>2. modules[Original(m)].init
        BY <1>1, <1>2, <2>2, <3>1 DEF Inv, ModulesInv, CopiesLast
      <3> QED BY <1>2, <3>1, <3>2
    <2> QED BY <2>1, <2>2
  <1>8. DoneInit'
    BY <1>1, <1>2 DEF Inv, ModulesInv, DoneInit
  <1>9. NotAgain'
    BY <1>0, <1>1, <1>2, Families DEF Inv, ModulesInv, NotAgain
  <1>10. LinkedOnce'
    BY <1>0, <1>1, <1>2, Families DEF Inv, ModulesInv, LinkedOnce
  <1> QED BY <1>2, <1>4, <1>5, <1>6, <1>7, <1>8, <1>9, <1>10 DEF ModulesInv

\* A package or copy is marked as initialized.
LEMMA InitializedModules ==
  ASSUME CasesOK, Inv, NEW p \in Program, program[p].pc \in {"packages", "copies"}, NEW n \in Item,
         NEW step, NEW f, Takes(p, n, step, f), Remembers(p, n, step, f), Initialized(p, n)
  PROVE  modules' \in [Item -> Module] /\ ModulesInv'
  <1>0. /\ job[p][n] = "init" /\ modules' = [modules EXCEPT ![n].init = TRUE] /\ step = "done" /\ Active(p)
        /\ ~case.lax => \A q \in Program : Active(q) => q = p
    BY StepIs, AtWork DEF Initialized, At
  <1>1. /\ case' = case /\ Reloads' = Reloads
        /\ \A q \in Program : InModules(q)' = InModules(q) /\ (Active(q)' <=> Active(q))
        /\ \A q \in Program : \A m \in Item : job'[q][m] = IF q = p /\ m = n THEN step ELSE job[q][m]
        /\ \A m \in Item : m # n => (Filling(m)' <=> Filling(m)) /\ (Relinked(m)' <=> Relinked(m))
    BY Places
  <1>2. /\ modules' \in [Item -> Module] /\ modules'[n].init
        /\ \A m \in Item : /\ modules'[m].content = modules[m].content
                           /\ m # n => modules'[m].init = modules[m].init
    BY <1>0, NewModule
  <1>3. Filling(n) /\ (Relinked(n)' <=> Relinked(n))
    BY <1>0, <1>1 DEF Filling, Relinked
  <1>4. Writers'
    <2> SUFFICES ASSUME NEW m \in Item, NEW q \in Program, modules'[m].content = q
                 PROVE  Active(q)' /\ job'[q][PackageOf(m)] = "copying"
      BY DEF Writers, PackageOf
    <2>1. Active(q) /\ job[q][PackageOf(m)] = "copying" /\ PackageOf(m) \in Item
      BY <1>2, Families DEF Inv, ModulesInv, Writers
    <2> QED BY <1>0, <1>1, <2>1
  <1>5. Complete'
    BY <1>1, <1>2, <1>3 DEF Inv, ModulesInv, Complete
  <1>6. PartsUnused'
    BY <1>1, <1>2, <1>3 DEF Inv, ModulesInv, PartsUnused
  <1>7. CopiesLast'
    <2> SUFFICES ASSUME NEW m \in Copy, modules'[m].init \/ Filling(m)'
                 PROVE  modules'[Original(m)].init
      BY DEF CopiesLast
    <2>1. m \in Item /\ Original(m) \in Item
      BY Families DEF CasesOK, ConstantsOK, Item
    <2>2. modules[m].init \/ Filling(m)
      BY <1>1, <1>2, <1>3, <2>1
    <2>3. modules[Original(m)].init
      BY <2>2 DEF Inv, ModulesInv, CopiesLast
    <2> QED BY <1>2, <2>1, <2>3
  <1>8. DoneInit'
    BY <1>0, <1>1, <1>2 DEF Inv, ModulesInv, DoneInit
  <1>9. NotAgain'
    <2> SUFFICES ASSUME ~Reloads, ~case.lax, NEW q \in Program, Active(q), InModules(q), NEW m \in Package,
                        job'[q][m] \in Before
                 PROVE  ~modules'[m].init
      BY <1>1 DEF NotAgain
    <2>1. q = p /\ m # n /\ m \in Item
      BY <1>0, <1>1, Families DEF Before
    <2> QED BY <1>1, <1>2, <2>1 DEF Inv, ModulesInv, NotAgain
  <1>10. LinkedOnce'
    <2> SUFFICES ASSUME ~case.lax, NEW q \in Program, Active(q), InModules(q), NEW c \in Copy,
                        job'[q][c] \in {"link", "relink"}
                 PROVE  ~modules'[c].init
      BY <1>1 DEF LinkedOnce
    <2>1. q = p /\ c # n /\ c \in Item
      BY <1>0, <1>1, Families
    <2> QED BY <1>1, <1>2, <2>1 DEF Inv, ModulesInv, LinkedOnce
  <1> QED BY <1>2, <1>4, <1>5, <1>6, <1>7, <1>8, <1>9, <1>10 DEF ModulesInv

\* What a step of p on n makes of node_modules.
LEMMA KeepsModules ==
  ASSUME CasesOK, Inv, NEW p \in Program, program[p].pc \in {"packages", "copies"}, NEW n \in Item,
         NEW step \in ItemStage, NEW f, Takes(p, n, step, f), Remembers(p, n, step, f), ItemStep(p, n)
  PROVE  modules' \in [Item -> Module] /\ ModulesInv'
  <1>0. /\ modules \in [Item -> Module] /\ ItemOrder(p, n, job[p][n])
        /\ n \in Package \/ n \in Copy
        /\ job[p][n] = "copy" => cache[n].there /\ cache[n].content = "whole"
    BY Here DEF Inv, Typed, Item, Leaves, Knows, WholeFolder
  <1>1. \A s : Goes(p, n, s) => step = s
    BY StepIs
  <1>2. UNCHANGED job => step = job[p][n]
    BY StepIs
  <1>3. n \in Package => n \notin Copy
    BY DEF CasesOK, ConstantsOK
  <1>4. ASSUME UNCHANGED modules, step \notin {"init", "copying", "relink", "done", "link"},
               job[p][n] \notin {"init", "copying", "relink"},
               n \in Package /\ step \in Before /\ InModules(p) => job[p][n] \in Before \/ ~modules[n].init \/ Reloads
        PROVE  modules' \in [Item -> Module] /\ ModulesInv'
    BY <1>0, <1>4, QuietModules
  <1>10. CASE Begin(p, n)
    <2>1. job[p][n] = "todo" /\ UNCHANGED modules
      BY <1>10 DEF Begin, At
    <2>2. CASE Skips(p, n)
      <3>1. step = "done" /\ modules[n].init
        BY <1>1, <1>10, <2>2 DEF Begin, Skips
      <3> QED BY <1>0, <2>1, <3>1, QuietModules DEF Before
    <2>3. CASE ~Skips(p, n)
      <3>1. (step = "link" /\ n \in Copy /\ InModules(p)) \/ step = "look"
        BY <1>1, <1>10, <2>3 DEF Begin
      <3>3. CASE step = "link" /\ n \in Copy /\ InModules(p)
        <4>1. ~modules[n].init
          BY <2>3, <3>3 DEF Skips
        <4> QED BY <1>0, <1>3, <2>1, <3>3, <4>1, QuietModules
      <3>2. n \in Package /\ InModules(p) => ~modules[n].init \/ Reloads
        BY <2>3 DEF Skips, Reloads
      <3> QED BY <1>3, <1>4, <2>1, <3>1, <3>2, <3>3 DEF Before
    <2> QED BY <2>2, <2>3
  <1>11. CASE Look(p, n)
    <2>1. job[p][n] = "look" /\ UNCHANGED modules /\ step \in {"locked?", "folder", "error", "fetch"}
      BY <1>1, <1>11 DEF Look, At, Missing
    <2> QED BY <1>4, <2>1 DEF Before
  <1>12. CASE SeeLock(p, n)
    <2>1. /\ job[p][n] = "locked?" /\ UNCHANGED modules
          /\ step \in {"folder", "error", "fetch", "copy"} \/ (step = "done" /\ ~InModules(p))
      BY <1>1, <1>12 DEF SeeLock, At, Missing, Then
    <2>2. CASE step = "done" /\ ~InModules(p)
      BY <1>0, <2>1, <2>2, QuietModules
    <2> QED BY <1>4, <2>1, <2>2 DEF Before
  <1>13. CASE Fetch(p, n)
    <2>1. job[p][n] = "fetch" /\ UNCHANGED modules /\ step \in {"folder", "error"}
      BY <1>1, <1>13 DEF Fetch, At
    <2> QED BY <1>4, <2>1 DEF Before
  <1>14. CASE MakeFolder(p, n)
    <2>1. job[p][n] = "folder" /\ UNCHANGED modules /\ step = "lock"
      BY <1>1, <1>14 DEF MakeFolder, At
    <2> QED BY <1>4, <2>1 DEF Before
  <1>15. CASE LockFile(p, n)
    <2>1. job[p][n] = "lock" /\ UNCHANGED modules /\ step \in {"extract", "clean"}
      BY <1>1, <1>15 DEF LockFile, At
    <2> QED BY <1>4, <2>1 DEF Before
  <1>16. CASE Extract(p, n)
    <2>1. /\ job[p][n] = "extract" /\ UNCHANGED modules
          /\ step \in {"write", "unlock", "clean"} \/ (step = "relink" /\ n \in Copy)
      BY <1>1, <1>16 DEF Extract, At
    <2>2. CASE step = "relink" /\ n \in Copy
      <3>1. ~InModules(p)
        BY <1>0, <2>1, <2>2 DEF ItemOrder
      <3> QED BY <1>0, <2>1, <2>2, <3>1, QuietModules
    <2> QED BY <1>4, <2>1, <2>2 DEF Before
  <1>17. CASE Write(p, n)
    <2>1. job[p][n] = "write" /\ UNCHANGED modules /\ step \in {"unlock", "clean"}
      BY <1>1, <1>17 DEF Write, At
    <2> QED BY <1>4, <2>1 DEF Before
  <1>18. CASE Unlock(p, n)
    <2>1. job[p][n] = "unlock" /\ UNCHANGED modules /\ (step = "copy" \/ (step = "done" /\ ~InModules(p)))
      BY <1>1, <1>18 DEF Unlock, At, Then
    <2>2. CASE step = "done" /\ ~InModules(p)
      BY <1>0, <2>1, <2>2, QuietModules
    <2> QED BY <1>4, <2>1, <2>2 DEF Before
  <1>19. CASE Clean(p, n)
    <2>1. job[p][n] = "clean" /\ UNCHANGED modules /\ step \in {"clean", "error"}
      BY <1>1, <1>2, <1>19 DEF Clean, At
    <2> QED BY <1>4, <2>1 DEF Before
  <1>20. CASE Relink(p, n)
    <2>1. job[p][n] = "relink" /\ n \in Copy
      BY <1>0, <1>20 DEF Relink, At, ItemOrder
    <2>2. CASE ~InModules(p)
      <3>1. UNCHANGED modules /\ step = "unlock"
        BY <1>1, <1>20, <2>2 DEF Relink
      <3> QED BY <1>0, <2>1, <2>2, <3>1, QuietModules DEF Before
    <2>3. CASE InModules(p)
      <3>1. modules' = LinkedAgain(modules, n) /\ step = "init"
        BY <1>1, <1>20, <2>3 DEF Relink
      <3> DEFINE c == IF modules[n].content = "none" THEN modules[Original(n)].content ELSE modules[n].content
      <3>2. /\ modules[Original(n)].content \in {"whole"} \cup Program /\ Original(n) \in Item
            /\ modules[Original(n)] \in Module /\ modules[n] \in Module
        BY <1>0, <2>1, <2>3, PackageThere
      <3>3. Active(p)
        BY AtWork
      <3>4. modules[n].content # "part"
        BY <2>1, <2>3, <3>3 DEF Relinked, Inv, ModulesInv, PartsUnused
      <3>5. modules[n].content \in Content /\ modules[Original(n)].content \in Content
        BY <3>2, ModuleParts
      <3>6. c \in {"whole"} \cup Program /\ c \in Content
        BY <3>2, <3>4, <3>5 DEF Content
      <3>7. c \in Program => Active(c) /\ job[c][Original(n)] = "copying"
        <4>1. PackageOf(n) = Original(n) /\ PackageOf(Original(n)) = Original(n)
          BY <2>1, <3>2, Families DEF CasesOK, ConstantsOK
        <4> QED BY <3>2, <4>1 DEF Inv, ModulesInv, Writers
      <3>8. modules' = [modules EXCEPT ![n].content = c]
        <4>1. CASE modules[n].content = "none"
          BY <3>1, <4>1 DEF LinkedAgain, Linked
        <4>2. CASE modules[n].content # "none"
          <5>1. [modules[n] EXCEPT !.content = c] = [init |-> modules[n].init, content |-> modules[n].content]
            BY <3>2, <4>2, ModuleParts
          <5>2. [init |-> modules[n].init, content |-> modules[n].content] = modules[n]
            BY <3>2 DEF Module
          <5>3. modules' = modules
            BY <3>1, <4>2 DEF LinkedAgain
          <5>4. [modules EXCEPT ![n] = modules[n]] = modules
            BY <1>0
          <5> QED BY <5>1, <5>2, <5>3, <5>4
        <4> QED BY <4>1, <4>2
      <3> HIDE DEF c
      <3> QED BY <2>1, <2>3, <3>1, <3>6, <3>7, <3>8, LinkedModules
    <2> QED BY <2>2, <2>3
  <1>21. CASE CopyFile(p, n)
    BY <1>21, CopyFileModules
  <1>22. CASE CopyRest(p, n)
    BY <1>22, CopyRestModules
  <1>23. CASE LinkCopy(p, n)
    <2>1. job[p][n] = "link" /\ n \in Copy /\ InModules(p)
      BY <1>0, <1>23 DEF LinkCopy, At, ItemOrder
    <2>2. CASE step = "error" /\ UNCHANGED modules
      BY <1>4, <2>1, <2>2 DEF Before
    <2>3. CASE modules' = Linked(modules, n) /\ step = IF modules[n].content = "none" THEN "init" ELSE "relink"
      <3> DEFINE c == IF modules[n].content = "none" THEN modules[Original(n)].content ELSE "none"
      <3>1. /\ modules[Original(n)].content \in {"whole"} \cup Program /\ Original(n) \in Item
            /\ modules[Original(n)] \in Module
        BY <1>0, <2>1, PackageThere
      <3>2. c \in Content /\ "none" \notin Program
        BY <3>1 DEF Content, CasesOK, ConstantsOK
      <3>3. c \in Program => Active(c) /\ job[c][Original(n)] = "copying"
        <4>1. PackageOf(Original(n)) = Original(n)
          BY <2>1, <3>1, Families DEF CasesOK, ConstantsOK
        <4> QED BY <3>1, <3>2, <4>1 DEF Inv, ModulesInv, Writers
      <3>4. modules' = [modules EXCEPT ![n].content = c]
        BY <2>3 DEF Linked
      <3>5. (step = "init" /\ c \in {"whole"} \cup Program) \/ (step = "relink" /\ c = "none")
        BY <2>3, <3>1
      <3> HIDE DEF c
      <3> QED BY <2>1, <3>2, <3>3, <3>4, <3>5, LinkedModules
    <2> QED BY <1>1, <1>23, <2>2, <2>3 DEF LinkCopy
  <1>24. CASE Initialized(p, n)
    BY <1>24, InitializedModules
  <1> QED BY <1>10, <1>11, <1>12, <1>13, <1>14, <1>15, <1>16, <1>17, <1>18, <1>19, <1>20, <1>21,
             <1>22, <1>23, <1>24 DEF ItemStep

\* Every step on a package or copy keeps the invariant.
LEMMA ItemInv ==
  ASSUME CasesOK, Inv, NEW p \in Program, program[p].pc \in {"packages", "copies"}, NEW n \in Item,
         ItemStep(p, n)
  PROVE  Inv'
  <1>1. PICK step \in ItemStage, f \in Folder : Takes(p, n, step, f) /\ Remembers(p, n, step, f)
    BY Taken
  <1>2. Exclusive' /\ Order' /\ CacheInv' /\ OnceInv'
    BY <1>1, KeepsExclusive, KeepsOrder, KeepsCache, KeepsOnce
  <1>3. modules' \in [Item -> Module] /\ ModulesInv'
    BY <1>1, KeepsModules
  <1>4. Typed'
    BY <1>1, <1>3 DEF Typed, Takes, Moves, Remembers, Inv
  <1> QED BY <1>2, <1>3, <1>4 DEF Inv

-----------------------------------------------------------------------------
(* Programs begin, go on, and end                                          *)

\* p is at goal now; the lock is as it was, or taken or given up by p.
NowAt(p, goal) ==
    /\ program' \in [Program -> ProgramState] /\ \A q \in Program \ {p} : program'[q] = program[q]
    /\ program'[p].pc = goal
    /\ program'[p].fetched = program[p].fetched /\ program'[p].again = program[p].again
    /\ program'[p].reloaded = program[p].reloaded

LEMMA MovedOn ==
  ASSUME Inv, NEW p \in Program, NEW goal \in Stage, MoveOn(p, goal)
  PROVE  NowAt(p, goal) /\ program'[p].round = program[p].round
  <1>1. program' = [program EXCEPT ![p].pc = goal] /\ program \in [Program -> ProgramState]
    BY DEF MoveOn, Inv, Typed
  <1>2. program' \in [Program -> ProgramState]
    BY <1>1 DEF ProgramState
  <1>3. /\ \A q \in Program \ {p} : program'[q] = program[q]
        /\ program'[p].pc = goal /\ program'[p].round = program[p].round
        /\ program'[p].fetched = program[p].fetched /\ program'[p].reloaded = program[p].reloaded
    BY <1>1 DEF ProgramState
  <1>4. program'[p].again = program[p].again
    BY <1>1 DEF ProgramState
  <1> QED BY <1>2, <1>3, <1>4 DEF NowAt

\* Neither before nor after is p at work on anything, or its work goes on.
LEMMA SameWork ==
  ASSUME CasesOK, Inv, NEW p \in Program, NEW goal \in Stage, NowAt(p, goal),
         UNCHANGED <<case, cache, modules, job>>,
         Active(p) \/ \A n \in Item : job[p][n] = "todo",
         goal \in {"packages", "copies", "links"} \/ \A n \in Item : job[p][n] \in {"todo", "done", "error"}
  PROVE  CacheInv' /\ ModulesInv'
  <1>1. \A q \in Program : q # p => (Active(q)' <=> Active(q)) /\ (Ended(q)' <=> Ended(q))
    BY DEF NowAt, Active, Ended
  <1>2. Active(p)' <=> goal \in {"packages", "copies", "links"}
    BY DEF NowAt, Active
  <1>3. \A q \in Program : \A n \in Item : job[q][n] \notin {"todo", "done", "error"} =>
            (Active(q)' <=> Active(q))
    BY <1>1, <1>2
  <1>4. \A n \in Item : (Filling(n)' <=> Filling(n)) /\ (Relinked(n)' <=> Relinked(n))
    BY <1>3 DEF Filling, Relinked, InModules
  <1>5. \A n \in Item : PackageOf(n) \in Item
    BY Families
  <1>6. Writers'
    <2> SUFFICES ASSUME NEW m \in Item, NEW q \in Program, modules[m].content = q
                 PROVE  Active(q)' /\ job[q][PackageOf(m)] = "copying"
      BY DEF Writers, PackageOf
    <2>1. Active(q) /\ job[q][PackageOf(m)] = "copying"
      BY DEF Inv, ModulesInv, Writers
    <2> QED BY <1>3, <1>5, <2>1
  <1>7. Complete' /\ PartsUnused' /\ CopiesLast'
    <2>1. Complete' /\ PartsUnused'
      BY <1>4 DEF Inv, ModulesInv, Complete, PartsUnused
    <2>2. CopiesLast'
      BY <1>4, Families DEF Inv, ModulesInv, CopiesLast
    <2> QED BY <2>1, <2>2
  <1>8. \A q \in Program : Active(q)' => Active(q) \/ \A n \in Item : job[q][n] = "todo"
    BY <1>1
  <1>9. DoneInit'
    BY <1>8 DEF Inv, ModulesInv, DoneInit, InModules
  <1>10. NotAgain' /\ LinkedOnce'
    <2>1. Reloads' = Reloads
      BY DEF Reloads, Uses
    <2>2. NotAgain'
      BY <1>8, <2>1, Families DEF Inv, ModulesInv, NotAgain, InModules, Before
    <2>3. LinkedOnce'
      BY <1>8, Families DEF Inv, ModulesInv, LinkedOnce, InModules
    <2> QED BY <2>2, <2>3
  <1>11. case.lax => \A n \in Item : cache[n] = CachedFolder
    BY DEF Inv, CacheInv
  <1>12. \A n \in Item : cache[n].content \in Program =>
             Active(cache[n].content)' /\ job[cache[n].content][n] \in {"write", "clean"}
    <2> SUFFICES ASSUME NEW n \in Item, NEW q \in Program, cache[n].content = q
                 PROVE  Active(q)' /\ job[q][n] \in {"write", "clean"}
      BY DEF Active
    <2>1. Active(q) /\ job[q][n] \in {"write", "clean"}
      BY DEF Inv, CacheInv
    <2> QED BY <1>3, <2>1
  <1>13. UnlockedWhole'
    <2>1. \A q \in Program : \A n \in Item : ~Ended(q) /\ job[q][n] \in {"lock", "clean"} => Active(q)
      <3>1. \A q \in Program : program[q].pc \in Stage
        BY DEF Inv, Typed, ProgramState
      <3>2. \A q \in Program : program[q].pc \in {"start", "waiting"} => \A n \in Item : job[q][n] = "todo"
        BY DEF Inv, Order, ProgramOrder
      <3> QED BY <3>1, <3>2 DEF Active, Ended, Stage
    <2>2. \A q \in Program : Active(q)' => ~Ended(q)'
      BY DEF Active, Ended
    <2>3. \A n \in Item : Busy(n, {"lock", "clean"}) => Busy(n, {"lock", "clean"})'
      BY <1>3, <2>1, <2>2 DEF Busy
    <2> QED BY <2>3 DEF UnlockedWhole, Inv, CacheInv
  <1>14. \A q \in Program : Active(q)' => \A n \in Item : Knows(q, n, job[q][n], cache[n])'
    <2> SUFFICES ASSUME NEW q \in Program, Active(q)', NEW n \in Item
                 PROVE  Knows(q, n, job[q][n], cache[n])'
      OBVIOUS
    <2>1. program'[q].fetched = program[q].fetched
      BY DEF NowAt
    <2>2. CASE Active(q)
      <3>1. Knows(q, n, job[q][n], cache[n])
        BY <2>2 DEF Inv, CacheInv
      <3> QED BY <2>1, <3>1 DEF Knows, InModules
    <2>3. CASE job[q][n] = "todo"
      BY <2>3 DEF Knows
    <2> QED BY <1>8, <2>2, <2>3
  <1>15. CacheInv'
    BY <1>11, <1>12, <1>13, <1>14 DEF CacheInv, CachedFolder
  <1> QED BY <1>6, <1>7, <1>9, <1>10, <1>15 DEF ModulesInv

\* What a program has fetched is not touched by a step to goal.
LEMMA SameFetches ==
  ASSUME CasesOK, Inv, NEW p \in Program, NEW goal \in Stage, NowAt(p, goal), goal # "start", ~Ended(p),
         UNCHANGED <<case, cache>>,
         \/ UNCHANGED job
         \/ /\ Active(p) /\ \A n \in Item : job[p][n] = "done"
            /\ job' = [job EXCEPT ![p] = [n \in Item |-> "todo"]],
         goal = "waiting" => program[p].pc = "start" \/ case.lax \/ case.apart
  PROVE  OnceInv'
  <1>1. \A q \in Program : Uses(q)' = Uses(q)
    BY DEF Uses
  <1>2. ASSUME NEW q \in Program \ {p} PROVE Fetched(q)'
    <2>1. program'[q] = program[q] /\ Fetched(q)
      BY DEF NowAt, Inv, OnceInv
    <2>2. \A n \in Item : job'[q][n] = job[q][n]
      BY DEF Inv, Typed
    <2>3. Ended(q)' <=> Ended(q)
      BY <2>1 DEF Ended
    <2> QED BY <1>1, <2>1, <2>2, <2>3 DEF Fetched, Item
  <1>3. Fetched(p)'
    <2>1. Fetched(p)
      BY DEF Inv, OnceInv
    <2>2. /\ ~program'[p].again /\ program'[p].fetched \subseteq Package
          /\ case.lax \/ program'[p].pc = "start" => program'[p].fetched = {}
          /\ ~case.apart /\ program'[p].pc = "waiting" => program'[p].fetched = {}
      BY <2>1 DEF Fetched, NowAt
    <2>3. ASSUME NEW n \in Package
          PROVE  /\ n \in program'[p].fetched => Uses(p) \/ n \in program'[p].reloaded
                 /\ n \in program'[p].fetched /\ job'[p][n] \in {"todo", "look", "locked?"} => WholeFolder(cache[n])
                 /\ job'[p][n] = "locked?" => Uses(p) \/ n \in program'[p].reloaded
                 /\ job'[p][n] = "fetch" => n \notin program'[p].fetched /\ (Uses(p) \/ n \in program'[p].reloaded)
      <3>1. CASE UNCHANGED job
        BY <2>1, <3>1 DEF Fetched, NowAt
      <3>2. CASE job' = [job EXCEPT ![p] = [m \in Item |-> "todo"]] /\ Active(p) /\ job[p][n] = "done"
        <4>1. job'[p][n] = "todo" /\ n \in Item
          BY <3>2 DEF Inv, Typed, Item
        <4>2. n \in program[p].fetched => WholeFolder(cache[n])
          BY <3>2, <4>1 DEF Inv, CacheInv, Knows
        <4> QED BY <2>1, <4>1, <4>2 DEF Fetched, NowAt
      <3> QED BY <3>1, <3>2 DEF Item
    <2> QED BY <1>1, <2>2, <2>3 DEF Fetched
  <1> QED BY <1>2, <1>3 DEF OnceInv

\* The lock is with whom it was, or p has given it up.
LEMMA GivesUp ==
  ASSUME Inv, NEW p \in Program, NEW goal \in Stage, NowAt(p, goal), program'[p].round = program[p].round,
         UNCHANGED case, flag' = flag \/ flag' = flag \ {p},
         Started(p)' => Started(p), Active(p)' => Active(p) /\ flag' = flag
  PROVE  Exclusive' /\ (flag' = {} \/ \E q \in Program : flag' = {q})
  <1>1. \A q \in Program \ {p} : (Started(q)' <=> Started(q)) /\ (Active(q)' <=> Active(q))
    BY DEF NowAt, Started, Active, Ended
  <1>2. \A q \in Program : program'[q].round = program[q].round
    BY DEF NowAt
  <1>3. \A q \in Program \ {p} : flag = {q} => flag' = {q}
    OBVIOUS
  <1>4. case.apart => \A q, r \in Program : Started(q)' /\ Started(r)' => q = r
    BY <1>1 DEF Inv, Exclusive
  <1>5. ~case.apart /\ ~case.lax => \A q \in Program : Active(q)' => flag' = {q}
    BY <1>1, <1>3 DEF Inv, Exclusive
  <1>6. ~case.apart /\ ~case.lax => \A q \in Program : program'[q].round = 1
    BY <1>2 DEF Inv, Exclusive
  <1>7. flag' = {} \/ \E q \in Program : flag' = {q}
    BY DEF Inv, Typed
  <1> QED BY <1>4, <1>5, <1>6, <1>7 DEF Exclusive

\* Where its packages and copies are fits p's place.
LEMMA InPlace ==
  ASSUME Inv, NEW p \in Program, NEW goal \in Stage, NowAt(p, goal), UNCHANGED <<case, job>>,
         goal \in {"start", "waiting"} => \A n \in Item : job[p][n] = "todo",
         goal = "packages" => \A n \in Copy : job[p][n] = "todo",
         goal \in {"copies", "links"} => \A n \in Package : job[p][n] = "done",
         goal = "links" => \A n \in Copy : job[p][n] = "done"
  PROVE  Order'
  <1>1. \A q \in Program : \A m \in Item : ItemOrder(q, m, job[q][m])'
    BY DEF Inv, Order, ItemOrder, InModules
  <1>2. ASSUME NEW q \in Program \ {p} PROVE ProgramOrder(q)'
    <2>1. program'[q] = program[q] /\ ProgramOrder(q)
      BY DEF NowAt, Inv, Order
    <2> QED BY <2>1 DEF ProgramOrder
  <1>3. ProgramOrder(p)'
    <2>1. program'[p].pc = goal /\ ProgramOrder(p)
      BY DEF NowAt, Inv, Order
    <2> QED BY <2>1 DEF ProgramOrder
  <1> QED BY <1>1, <1>2, <1>3 DEF Order

\* cache_packages is called.
LEMMA CallInv ==
  ASSUME CasesOK, Inv, NEW p \in Program, Call(p)
  PROVE  Inv'
  <1> DEFINE goal == IF InModules(p) THEN "waiting" ELSE "packages"
  <1>1. /\ program[p].pc = "start" /\ MoveOn(p, goal) /\ goal \in Stage
        /\ UNCHANGED <<case, cache, modules, links, flag, job>>
        /\ \A n \in Item : job[p][n] = "todo"
        /\ ~Ended(p) /\ ~Active(p)
    BY DEF Call, Stage, Inv, Order, ProgramOrder, Ended, Active
  <1>2. NowAt(p, goal) /\ program'[p].round = program[p].round
    BY <1>1, MovedOn
  <1>3. Serial(case)
    BY DEF CasesOK, Inv, Typed
  <1>4. \A n \in Copy : n \in Item
    BY DEF Item
  <1>5. CacheInv' /\ ModulesInv'
    BY <1>1, <1>2, SameWork
  <1>6. OnceInv'
    BY <1>1, <1>2, SameFetches
  <1>7. Order'
    BY <1>1, <1>2, <1>4, InPlace
  <1>8. Exclusive'
    <2>1. \A q \in Program \ {p} : (Started(q)' <=> Started(q)) /\ (Active(q)' <=> Active(q))
      BY <1>2 DEF NowAt, Started, Active, Ended
    <2>2. case.apart => \A q \in Program \ {p} : ~Started(q)
      BY DEF Call, Alone, Started
    <2>3. case.apart => \A q, r \in Program : Started(q)' /\ Started(r)' => q = r
      BY <2>1, <2>2
    <2>4. ~case.apart /\ ~case.lax => ~Active(p)'
      <3>1. ~case.apart /\ ~case.lax => InModules(p)
        BY <1>3 DEF Serial, InModules
      <3> QED BY <1>2, <3>1 DEF NowAt, Active
    <2>5. ~case.apart /\ ~case.lax => \A q \in Program : Active(q)' => flag' = {q}
      BY <1>1, <2>1, <2>4 DEF Inv, Exclusive
    <2>6. ~case.apart /\ ~case.lax => \A q \in Program : program'[q].round = 1
      BY <1>2 DEF NowAt, Inv, Exclusive
    <2> QED BY <1>1, <2>3, <2>5, <2>6 DEF Exclusive
  <1>9. Typed'
    BY <1>1, <1>2 DEF Typed, NowAt, Inv
  <1> QED BY <1>5, <1>6, <1>7, <1>8, <1>9 DEF Inv

\* The lock is taken, or passed by.
LEMMA FlagInv ==
  ASSUME CasesOK, Inv, NEW p \in Program, Flag(p)
  PROVE  Inv'
  <1>1. /\ program[p].pc = "waiting" /\ MoveOn(p, "packages")
        /\ UNCHANGED <<case, cache, modules, links, job>>
        /\ \A n \in Item : job[p][n] = "todo"
        /\ ~Ended(p) /\ Started(p)
        /\ (flag = {} /\ flag' = {p}) \/ (case.lax /\ UNCHANGED flag)
    BY DEF Flag, Inv, Order, ProgramOrder, Ended, Started
  <1>2. NowAt(p, "packages") /\ program'[p].round = program[p].round
    BY <1>1, MovedOn DEF Stage
  <1>4. \A n \in Copy : n \in Item
    BY DEF Item
  <1>5. CacheInv' /\ ModulesInv'
    BY <1>1, <1>2, SameWork DEF Stage
  <1>6. OnceInv'
    BY <1>1, <1>2, SameFetches DEF Stage
  <1>7. Order'
    BY <1>1, <1>2, <1>4, InPlace DEF Stage
  <1>8. Exclusive'
    <2>1. \A q \in Program \ {p} : (Started(q)' <=> Started(q)) /\ (Active(q)' <=> Active(q))
      BY <1>2 DEF NowAt, Started, Active, Ended
    <2>3. case.apart => \A q, r \in Program : Started(q)' /\ Started(r)' => q = r
      BY <1>1, <2>1 DEF Inv, Exclusive
    <2>5. ~case.apart /\ ~case.lax => \A q \in Program : Active(q)' => flag' = {q}
      <3> SUFFICES ASSUME ~case.apart, ~case.lax, NEW q \in Program, Active(q)' PROVE flag' = {q}
        OBVIOUS
      <3>1. flag = {} /\ flag' = {p}
        BY <1>1
      <3>2. q # p => flag = {q}
        BY <2>1 DEF Inv, Exclusive
      <3> QED BY <3>1, <3>2
    <2>6. ~case.apart /\ ~case.lax => \A q \in Program : program'[q].round = 1
      BY <1>2 DEF NowAt, Inv, Exclusive
    <2> QED BY <1>1, <2>3, <2>5, <2>6 DEF Exclusive
  <1>9. Typed'
    BY <1>1, <1>2 DEF Typed, NowAt, Inv
  <1> QED BY <1>5, <1>6, <1>7, <1>8, <1>9 DEF Inv

\* All packages, or all copies, are there, or one has failed.
LEMMA WaitedInv ==
  ASSUME CasesOK, Inv, NEW p \in Program, AllPackages(p) \/ AllCopies(p)
  PROVE  Inv'
  <1>1. PICK goal \in {"copies", "links", "failed"} :
           /\ program[p].pc \in {"packages", "copies"} /\ MoveOn(p, goal)
           /\ UNCHANGED <<case, cache, modules, links, job>>
           /\ goal = "failed" => /\ \A n \in Item : job[p][n] \in {"todo", "done", "error"}
                               /\ flag' = flag \ {p}
           /\ goal # "failed" => UNCHANGED flag /\ \A n \in Package : job[p][n] = "done"
           /\ goal = "links" => \A n \in Copy : job[p][n] = "done"
    <2>0. /\ ProgramOrder(p) /\ \A n \in Item : n \in Package \/ n \in Copy
          /\ \A n \in Package : n \in Item
      BY DEF Inv, Order, Item
    <2>1. CASE AllPackages(p)
      <3>1. program[p].pc = "packages" /\ \A n \in Package : job[p][n] \in {"done", "error"}
        BY <2>1 DEF AllPackages, Waited, Results
      <3>2. \A n \in Copy : job[p][n] = "todo"
        BY <2>0, <3>1 DEF ProgramOrder
      <3>3. CASE "error" \in Results(p, Package)
        BY <2>0, <2>1, <3>1, <3>2, <3>3 DEF AllPackages
      <3>4. CASE "error" \notin Results(p, Package)
        <4>1. \A n \in Package : job[p][n] = "done"
          BY <3>1, <3>4 DEF Results
        <4> QED BY <2>1, <3>1, <3>4, <4>1 DEF AllPackages
      <3> QED BY <3>3, <3>4
    <2>2. CASE AllCopies(p)
      <3>1. program[p].pc = "copies" /\ \A n \in Package : job[p][n] = "done"
        BY <2>0, <2>2 DEF AllCopies, ProgramOrder
      <3>2. CASE "error" \in Results(p, Copy)
        <4>1. PICK c \in Copy : job[p][c] = "error"
          BY <3>2 DEF Results
        <4>2. \A d \in Copy : job[p][d] \in {"todo", "done", "error"}
          BY <2>0, <4>1 DEF ProgramOrder
        <4> QED BY <2>0, <2>2, <3>1, <3>2, <4>2 DEF AllCopies
      <3>3. CASE "error" \notin Results(p, Copy)
        <4>1. \A n \in Copy : job[p][n] = "done"
          BY <2>2, <3>3 DEF AllCopies, Waited, Results
        <4> QED BY <2>2, <3>1, <3>3, <4>1 DEF AllCopies
      <3> QED BY <3>2, <3>3
    <2> QED BY <2>1, <2>2
  <1>2. goal \in Stage /\ NowAt(p, goal) /\ program'[p].round = program[p].round
    BY <1>1, MovedOn DEF Stage
  <1>3. Active(p) /\ Started(p) /\ ~Ended(p)
    BY <1>1, AtWork
  <1>5. CacheInv' /\ ModulesInv'
    BY <1>1, <1>2, <1>3, SameWork
  <1>6. OnceInv'
    BY <1>1, <1>2, <1>3, SameFetches
  <1>7. Order'
    BY <1>1, <1>2, InPlace
  <1>8. Exclusive' /\ (flag' = {} \/ \E q \in Program : flag' = {q})
    <2>1. Active(p)' => flag' = flag
      BY <1>1, <1>2 DEF NowAt, Active
    <2> QED BY <1>1, <1>2, <1>3, <2>1, GivesUp
  <1>9. Typed'
    BY <1>1, <1>2, <1>8 DEF Typed, NowAt, Inv
  <1> QED BY <1>5, <1>6, <1>7, <1>8, <1>9 DEF Inv

\* Links are made where they lead to what is there: no package depends on its own name.
LEMMA LinksModules ==
  ASSUME CasesOK, Inv, NEW p \in Program, Links(p)
  PROVE  /\ UNCHANGED <<case, cache, modules>> /\ Active(p) /\ Started(p) /\ ~Ended(p) /\ flag' = flag \ {p}
         /\ \A n \in Item : job[p][n] = "done"
         /\ Serial(case)
  <1>1. Serial(case) /\ modules \in [Item -> Module]
    BY DEF CasesOK, Inv, Typed
  <1>2. case.own = {}
    BY <1>1 DEF Serial
  <1>3. modules' = modules
    BY <1>1, <1>2 DEF Links
  <1>4. \A n \in Item : job[p][n] = "done"
    BY DEF Links, Inv, Order, ProgramOrder, Item
  <1>5. Active(p) /\ Started(p) /\ ~Ended(p)
    BY DEF Links, Active, Started, Ended
  <1> QED BY <1>1, <1>3, <1>4, <1>5 DEF Links

LEMMA LinksInv ==
  ASSUME CasesOK, Inv, NEW p \in Program, Links(p)
  PROVE  Inv'
  <1>1. /\ UNCHANGED <<case, cache, modules>> /\ Active(p) /\ Started(p) /\ ~Ended(p) /\ flag' = flag \ {p}
        /\ \A n \in Item : job[p][n] = "done"
        /\ Serial(case)
    BY LinksModules
  <1>2. CASE MoveOn(p, "done") /\ UNCHANGED job
    <2>1. NowAt(p, "done") /\ program'[p].round = program[p].round
      BY <1>2, MovedOn DEF Stage
    <2>2. CacheInv' /\ ModulesInv'
      BY <1>1, <1>2, <2>1, SameWork DEF Stage
    <2>3. OnceInv'
      BY <1>1, <1>2, <2>1, SameFetches DEF Stage
    <2>4. Order'
      BY <1>1, <1>2, <2>1, InPlace DEF Stage
    <2>5. Exclusive' /\ (flag' = {} \/ \E q \in Program : flag' = {q})
      <3>1. ~Active(p)'
        BY <2>1 DEF NowAt, Active
      <3> QED BY <1>1, <2>1, <3>1, GivesUp DEF Stage
    <2>6. Typed'
      BY <1>1, <1>2, <2>1, <2>5 DEF Typed, NowAt, Inv
    <2> QED BY <2>2, <2>3, <2>4, <2>5, <2>6 DEF Inv
  <1>3. CASE /\ program[p].round < case.rounds
             /\ program' = [program EXCEPT ![p].pc = IF InModules(p) THEN "waiting" ELSE "packages",
                                           ![p].round = @ + 1]
             /\ job' = [job EXCEPT ![p] = [n \in Item |-> "todo"]]
    <2> DEFINE goal == IF InModules(p) THEN "waiting" ELSE "packages"
    <2>1. NowAt(p, goal) /\ goal \in Stage /\ goal # "start"
      <3>1. program' \in [Program -> ProgramState]
        BY <1>3 DEF Inv, Typed, ProgramState, Stage
      <3>2. /\ \A q \in Program \ {p} : program'[q] = program[q]
            /\ program'[p].pc = goal
            /\ program'[p].fetched = program[p].fetched /\ program'[p].reloaded = program[p].reloaded
        BY <1>3 DEF Inv, Typed, ProgramState
      <3>3. program'[p].again = program[p].again
        BY <1>3 DEF Inv, Typed, ProgramState
      <3> QED BY <3>1, <3>2, <3>3 DEF NowAt, Stage
    <2>2. case.apart \/ case.lax
      <3> SUFFICES ASSUME ~case.apart, ~case.lax PROVE FALSE
        OBVIOUS
      <3>1. case.rounds = 1 /\ program[p].round = 1
        BY <1>1 DEF Serial, Inv, Exclusive
      <3> QED BY <1>3, <3>1
    <2>3. /\ job' \in [Program -> [Item -> ItemStage]]
          /\ \A q \in Program : \A n \in Item : job'[q][n] = IF q = p THEN "todo" ELSE job[q][n]
      BY <1>3 DEF Inv, Typed, ItemStage
    <2> HIDE DEF goal
    <2>4. OnceInv'
      BY <1>1, <1>3, <2>1, <2>2, SameFetches
    <2>5. \A q \in Program \ {p} : /\ (Active(q)' <=> Active(q)) /\ (Ended(q)' <=> Ended(q))
                                   /\ (Started(q)' <=> Started(q))
      BY <2>1 DEF NowAt, Active, Ended, Started
    <2>6. Exclusive'
      <3>1. case.apart => \A q, r \in Program : Started(q)' /\ Started(r)' => q = r
        BY <1>1, <2>5 DEF Inv, Exclusive
      <3> QED BY <1>1, <2>2, <3>1 DEF Exclusive
    <2>7. Order'
      <3>1. ASSUME NEW q \in Program \ {p} PROVE ProgramOrder(q)'
        <4>1. program'[q] = program[q] /\ ProgramOrder(q)
          BY <2>1 DEF NowAt, Inv, Order
        <4>2. \A n \in Item : job'[q][n] = job[q][n]
          BY <2>3
        <4> QED BY <4>1, <4>2 DEF ProgramOrder, Item
      <3>2. ProgramOrder(p)'
        <4>1. program'[p].pc = goal /\ goal \notin {"copies", "links"} /\ \A n \in Item : job'[p][n] = "todo"
          BY <2>1, <2>3 DEF NowAt, goal
        <4> QED BY <4>1 DEF ProgramOrder, Item
      <3>3. \A q \in Program : \A n \in Item : ItemOrder(q, n, job[q][n])'
        BY <1>1, <2>3 DEF Inv, Order, ItemOrder, InModules
      <3> QED BY <3>1, <3>2, <3>3 DEF Order
    <2>8. \A n \in Item : (Filling(n)' <=> Filling(n)) /\ (Relinked(n)' <=> Relinked(n))
      BY <1>1, <2>3, <2>5 DEF Filling, Relinked, InModules
    <2>9. ModulesInv'
      <3>1. Reloads' = Reloads
        BY <1>1 DEF Reloads, Uses
      <3>2. Writers'
        <4> SUFFICES ASSUME NEW m \in Item, NEW q \in Program, modules'[m].content = q
                     PROVE  Active(q)' /\ job'[q][PackageOf(m)] = "copying"
          BY DEF Writers, PackageOf
        <4>1. Active(q) /\ job[q][PackageOf(m)] = "copying" /\ PackageOf(m) \in Item
          BY <1>1, Families DEF Inv, ModulesInv, Writers
        <4> QED BY <1>1, <2>3, <2>5, <4>1
      <3>3. Complete' /\ PartsUnused'
        BY <1>1, <2>8 DEF Inv, ModulesInv, Complete, PartsUnused
      <3>4. CopiesLast'
        BY <1>1, <2>8, Families DEF Inv, ModulesInv, CopiesLast
      <3>5. DoneInit'
        BY <1>1, <2>3, <2>5 DEF Inv, ModulesInv, DoneInit, InModules
      <3>6. NotAgain'
        BY <1>1, <2>3, <2>5, <3>1, Families DEF Inv, ModulesInv, NotAgain, InModules, Before
      <3>7. LinkedOnce'
        BY <1>1, <2>3, <2>5, Families DEF Inv, ModulesInv, LinkedOnce, InModules
      <3> QED BY <3>2, <3>3, <3>4, <3>5, <3>6, <3>7 DEF ModulesInv
    <2>10. CacheInv'
      <3>1. \A n \in Item : cache'[n].content \in Program =>
                Active(cache[n].content)' /\ job'[cache'[n].content][n] \in {"write", "clean"}
        <4> SUFFICES ASSUME NEW n \in Item, NEW q \in Program, cache[n].content = q
                     PROVE  Active(q)' /\ job'[q][n] \in {"write", "clean"}
          BY <1>1
        <4>1. Active(q) /\ job[q][n] \in {"write", "clean"}
          BY DEF Inv, CacheInv
        <4> QED BY <1>1, <2>3, <2>5, <4>1
      <3>2. \A n \in Item : Busy(n, {"lock", "clean"}) => Busy(n, {"lock", "clean"})'
        BY <1>1, <2>3, <2>5 DEF Busy
      <3>3. UnlockedWhole'
        BY <1>1, <3>2 DEF Inv, CacheInv, UnlockedWhole
      <3>4. ASSUME NEW q \in Program, Active(q)', NEW n \in Item PROVE Knows(q, n, job[q][n], cache[n])'
        <4>1. CASE q = p
          BY <2>3, <4>1 DEF Knows
        <4>2. CASE q # p
          <5>1. Knows(q, n, job[q][n], cache[n]) /\ program'[q] = program[q] /\ job'[q][n] = job[q][n]
            BY <2>1, <2>3, <2>5, <3>4, <4>2 DEF Inv, CacheInv, NowAt
          <5> QED BY <1>1, <5>1 DEF Knows, InModules
        <4> QED BY <4>1, <4>2
      <3> QED BY <1>1, <3>1, <3>3, <3>4 DEF Inv, CacheInv, CachedFolder
    <2>11. Typed'
      BY <1>1, <2>1, <2>3 DEF Typed, NowAt, Inv
    <2> QED BY <2>4, <2>6, <2>7, <2>9, <2>10, <2>11 DEF Inv
  <1> QED BY <1>2, <1>3 DEF Links

\* One program is at work at a time, but for those that pass the lock by.
LEMMA OneActive ==
  ASSUME Inv, ~case.lax, NEW p \in Program, NEW q \in Program, Active(p), Active(q)
  PROVE  p = q
  <1>1. Started(p) /\ Started(q)
    BY DEF Active, Started, Ended
  <1>2. CASE case.apart
    BY <1>1, <1>2 DEF Inv, Exclusive
  <1>3. CASE ~case.apart
    <2>1. flag = {p} /\ flag = {q}
      BY <1>3 DEF Inv, Exclusive
    <2> QED BY <2>1
  <1> QED BY <1>2, <1>3

\* What a killed program has been writing stays as a part.
LEMMA KilledParts ==
  ASSUME CasesOK, Inv, NEW p \in Program, Killed(p)
  PROVE  /\ cache' \in [Item -> Folder] /\ modules' \in [Item -> Module]
         /\ \A n \in Item : /\ cache[n].content # p => cache'[n] = cache[n]
                            /\ cache[n].content = p => cache'[n].content = "part"
                            /\ cache'[n].there = cache[n].there /\ cache'[n].lock = cache[n].lock
         /\ \A n \in Item : /\ modules[n].content # p => modules'[n].content = modules[n].content
                            /\ modules[n].content = p => modules'[n].content = "part"
                            /\ modules'[n].init = modules[n].init
  <1>0. cache \in [Item -> Folder] /\ modules \in [Item -> Module] /\ "part" \in Content
    BY DEF Inv, Typed, Content
  <1>1. /\ cache' = [n \in Item |-> [cache[n] EXCEPT !.content = Left(p, cache[n].content)]]
        /\ modules' = [n \in Item |-> [modules[n] EXCEPT !.content = Left(p, modules[n].content)]]
    BY DEF Killed
  <1>2. ASSUME NEW n \in Item
        PROVE  /\ cache'[n] \in Folder
               /\ cache[n].content # p => cache'[n] = cache[n]
               /\ cache[n].content = p => cache'[n].content = "part"
               /\ cache'[n].there = cache[n].there /\ cache'[n].lock = cache[n].lock
    <2> DEFINE c == Left(p, cache[n].content)
    <2>1. cache'[n] = [there |-> cache[n].there, lock |-> cache[n].lock, content |-> c]
      BY <1>0, <1>1, FolderParts
    <2>2. c \in Content /\ (cache[n].content # p => c = cache[n].content) /\ (cache[n].content = p => c = "part")
      BY <1>0, FolderParts DEF Left
    <2> HIDE DEF c
    <2>3. cache'[n] \in Folder
      BY <1>0, <2>1, <2>2, FolderParts
    <2>4. cache'[n].there = cache[n].there /\ cache'[n].lock = cache[n].lock /\ cache'[n].content = c
      BY <2>1
    <2>5. cache[n] = [there |-> cache[n].there, lock |-> cache[n].lock, content |-> cache[n].content]
      BY <1>0 DEF Folder
    <2> QED BY <2>1, <2>2, <2>3, <2>4, <2>5
  <1>3. ASSUME NEW n \in Item
        PROVE  /\ modules'[n] \in Module
               /\ modules[n].content # p => modules'[n].content = modules[n].content
               /\ modules[n].content = p => modules'[n].content = "part"
               /\ modules'[n].init = modules[n].init
    <2> DEFINE c == Left(p, modules[n].content)
    <2>1. modules'[n] = [init |-> modules[n].init, content |-> c]
      BY <1>0, <1>1, ModuleParts
    <2>2. c \in Content /\ (modules[n].content # p => c = modules[n].content) /\ (modules[n].content = p => c = "part")
      BY <1>0, ModuleParts DEF Left
    <2> HIDE DEF c
    <2>3. modules'[n] \in Module
      BY <1>0, <2>1, <2>2, ModuleParts
    <2>4. modules'[n].init = modules[n].init /\ modules'[n].content = c
      BY <2>1
    <2> QED BY <2>2, <2>3, <2>4
  <1>4. cache' \in [Item -> Folder]
    BY <1>1, <1>2
  <1>5. modules' \in [Item -> Module]
    BY <1>1, <1>3
  <1> QED BY <1>2, <1>3, <1>4, <1>5

\* A program is killed.
LEMMA KilledInv ==
  ASSUME CasesOK, Inv, NEW p \in Program, Killed(p)
  PROVE  Inv'
  <1>1. /\ program[p].pc # "start" /\ ~Ended(p) /\ Started(p) /\ MoveOn(p, "killed") /\ flag' = flag \ {p}
        /\ UNCHANGED <<case, links, job>>
        /\ \A n \in Item : job[p][n] \in case.killed
        /\ Serial(case)
    BY DEF Killed, Started, CasesOK, Inv, Typed
  <1>2. NowAt(p, "killed") /\ program'[p].round = program[p].round
    BY <1>1, MovedOn DEF Stage
  <1>3. /\ cache' \in [Item -> Folder] /\ modules' \in [Item -> Module]
        /\ \A n \in Item : /\ cache[n].content # p => cache'[n] = cache[n]
                           /\ cache[n].content = p => cache'[n].content = "part"
                           /\ cache'[n].there = cache[n].there /\ cache'[n].lock = cache[n].lock
        /\ \A n \in Item : /\ modules[n].content # p => modules'[n].content = modules[n].content
                           /\ modules[n].content = p => modules'[n].content = "part"
                           /\ modules'[n].init = modules[n].init
    BY KilledParts
  <1>4. /\ \A q \in Program \ {p} : (Active(q)' <=> Active(q)) /\ (Ended(q)' <=> Ended(q))
        /\ ~Active(p)' /\ Ended(p)' /\ ~Started(p)'
    BY <1>2 DEF NowAt, Active, Ended, Started
  <1>5. "whole" \notin Program /\ "part" \notin Program /\ "none" \notin Program
    BY DEF CasesOK, ConstantsOK
  <1>6. /\ \A n \in Item : case.killed # {}
        /\ case.lax => case.killed = {}
        /\ "lock" \notin case.killed /\ "clean" \notin case.killed
        /\ "copying" \in case.killed => ~Reloads
    BY <1>1 DEF Serial, Reloads, Uses
  <1>7. ~case.lax => \A q, r \in Program : Active(q) /\ Active(r) => q = r
    BY OneActive
  <1>10. Exclusive' /\ (flag' = {} \/ \E q \in Program : flag' = {q})
    BY <1>1, <1>2, <1>4, GivesUp DEF Stage
  <1>11. Order'
    BY <1>1, <1>2, InPlace DEF Stage
  <1>12. Typed'
    BY <1>1, <1>2, <1>3, <1>10 DEF Typed, NowAt, Inv
  <1>13. CacheInv'
    <2>1. case.lax => \A n \in Item : cache'[n] = CachedFolder
      BY <1>3, <1>5 DEF Inv, CacheInv, CachedFolder
    <2>2. \A n \in Item : cache'[n].content \in Program =>
              Active(cache[n].content)' /\ job'[cache'[n].content][n] \in {"write", "clean"}
      <3> SUFFICES ASSUME NEW n \in Item, NEW q \in Program, cache'[n].content = q
                   PROVE  Active(q)' /\ job'[q][n] \in {"write", "clean"}
        BY DEF Active
      <3>1. cache[n].content = q /\ q # p
        BY <1>3, <1>5
      <3>2. Active(q) /\ job[q][n] \in {"write", "clean"}
        BY <3>1 DEF Inv, CacheInv
      <3> QED BY <1>1, <1>4, <3>1, <3>2
    <2>3. UnlockedWhole'
      <3> SUFFICES ASSUME NEW n \in Item, cache'[n].there, ~cache'[n].lock, ~Busy(n, {"lock", "clean"})'
                   PROVE  cache'[n].content = "whole"
        BY DEF UnlockedWhole
      <3>1. job[p][n] \notin {"lock", "clean"}
        BY <1>1, <1>6
      <3>2. ~Busy(n, {"lock", "clean"})
        BY <1>1, <1>4, <3>1 DEF Busy
      <3>3. cache[n].content = "whole"
        BY <1>3, <3>2 DEF Inv, CacheInv, UnlockedWhole
      <3> QED BY <1>3, <1>5, <3>3
    <2>4. ASSUME NEW q \in Program, Active(q)', NEW n \in Item PROVE Knows(q, n, job[q][n], cache[n])'
      <3>1. q # p /\ Active(q)
        BY <1>4, <2>4
      <3>2. Knows(q, n, job[q][n], cache[n]) /\ program'[q] = program[q]
        BY <1>2, <3>1 DEF Inv, CacheInv, NowAt
      <3>3. cache[n].content # p
        <4>1. CASE case.lax
          BY <1>5, <4>1 DEF Inv, CacheInv, CachedFolder
        <4>2. CASE ~case.lax
          <5>1. cache[n].content = p => Active(p)
            BY DEF Inv, CacheInv
          <5> QED BY <1>7, <3>1, <4>2, <5>1
        <4> QED BY <4>1, <4>2
      <3>4. cache'[n] = cache[n]
        BY <1>3, <3>3
      <3> QED BY <1>1, <3>2, <3>4 DEF Knows, InModules
    <2> QED BY <1>1, <2>1, <2>2, <2>3, <2>4 DEF CacheInv, CachedFolder
  <1>14. ASSUME NEW m \in Item
         PROVE  /\ Filling(m)' => Filling(m)
                /\ Relinked(m)' => Relinked(m)
                /\ Active(p) => ~Filling(m)' /\ ~Relinked(m)'
    <2>1. Filling(m)' => Filling(m)
      BY <1>1, <1>4 DEF Filling
    <2>2. Relinked(m)' => Relinked(m)
      BY <1>1, <1>4 DEF Relinked, InModules
    <2>3. Active(p) => \A q \in Program : ~Active(q)'
      BY <1>4, <1>6, <1>7
    <2>4. Active(p) => ~Filling(m)' /\ ~Relinked(m)'
      BY <2>3 DEF Filling, Relinked
    <2> QED BY <2>1, <2>2, <2>4
  <1>15. ASSUME NEW m \in Item, modules[m].content = p
         PROVE  ~case.lax /\ ~modules[m].init /\ ~Filling(m)' /\ ~Relinked(m)'
    <2>1. Active(p) /\ job[p][PackageOf(m)] = "copying" /\ PackageOf(m) \in Package /\ PackageOf(m) \in Item
      BY <1>15, Families DEF Inv, ModulesInv, Writers
    <2>2. ~case.lax /\ ~Reloads
      BY <1>1, <1>6, <2>1
    <2>3. InModules(p)
      BY <2>1 DEF Inv, Order, ItemOrder
    <2>4. ~modules[PackageOf(m)].init
      BY <2>1, <2>2, <2>3 DEF Inv, ModulesInv, NotAgain, Before
    <2>5. ~modules[m].init
      <3>1. CASE m \in Package
        BY <2>4, <3>1, Families
      <3>2. CASE m \in Copy
        BY <2>4, <3>2, Families DEF Inv, ModulesInv, CopiesLast
      <3> QED BY <3>1, <3>2 DEF Item
    <2> QED BY <1>14, <2>1, <2>2, <2>5
  <1>16. Writers'
    <2> SUFFICES ASSUME NEW m \in Item, NEW q \in Program, modules'[m].content = q
                 PROVE  Active(q)' /\ job'[q][PackageOf(m)] = "copying"
      BY DEF Writers, PackageOf
    <2>1. modules[m].content = q /\ q # p
      BY <1>3, <1>5
    <2>2. Active(q) /\ job[q][PackageOf(m)] = "copying"
      BY <2>1 DEF Inv, ModulesInv, Writers
    <2> QED BY <1>1, <1>4, <2>1, <2>2
  <1>17. Complete'
    <2> SUFFICES ASSUME NEW m \in Item, modules'[m].init \/ Filling(m)'
                 PROVE  modules'[m].content \in {"whole"} \cup Program
      BY DEF Complete
    <2>1. modules[m].content # p /\ ~case.lax
      BY <1>3, <1>6, <1>15
    <2>2. modules[m].content \in {"whole"} \cup Program \/ Relinked(m)
      BY <1>3, <1>14 DEF Inv, ModulesInv, Complete
    <2>3. ~Relinked(m)
      <3> SUFFICES ASSUME NEW q \in Program, Active(q), InModules(q), job[q][m] = "relink" PROVE FALSE
        BY DEF Relinked
      <3>1. m \in Copy
        BY DEF Inv, Order, ItemOrder
      <3>2. ~modules[m].init
        BY <2>1, <3>1 DEF Inv, ModulesInv, LinkedOnce
      <3>3. Filling(m)'
        BY <1>3, <3>2
      <3>4. PICK r \in Program : Active(r)' /\ job'[r][m] \in {"copying", "init"}
        BY <3>3 DEF Filling
      <3>5. Active(r) /\ job[r][m] \in {"copying", "init"} /\ r # p
        BY <1>1, <1>4, <3>4
      <3>6. r # q
        BY <3>5
      <3> QED BY <2>1, <3>5, <3>6, OneActive
    <2> QED BY <1>3, <2>1, <2>2, <2>3
  <1>18. PartsUnused'
    <2> SUFFICES ASSUME NEW m \in Item, modules'[m].content = "part"
                 PROVE  ~case.lax /\ ~modules'[m].init /\ ~Filling(m)' /\ ~Relinked(m)'
      BY <1>1 DEF PartsUnused
    <2>1. CASE modules[m].content = p
      BY <1>3, <1>15, <2>1
    <2>2. CASE modules[m].content # p
      BY <1>3, <1>14, <2>2 DEF Inv, ModulesInv, PartsUnused
    <2> QED BY <2>1, <2>2
  <1>19. CopiesLast'
    <2> SUFFICES ASSUME NEW m \in Copy, modules'[m].init \/ Filling(m)'
                 PROVE  modules'[Original(m)].init
      BY DEF CopiesLast
    <2>1. m \in Item /\ Original(m) \in Item
      BY Families DEF CasesOK, ConstantsOK, Item
    <2>2. modules[Original(m)].init
      BY <1>3, <1>14, <2>1 DEF Inv, ModulesInv, CopiesLast
    <2> QED BY <1>3, <2>1, <2>2
  <1>20. \A q \in Program : Active(q)' => Active(q)
    BY <1>4
  <1>21. DoneInit' /\ NotAgain' /\ LinkedOnce'
    <2>1. Reloads' = Reloads
      BY <1>1 DEF Reloads, Uses
    <2>2. DoneInit'
      BY <1>1, <1>3, <1>20 DEF Inv, ModulesInv, DoneInit, InModules
    <2>3. NotAgain'
      BY <1>1, <1>3, <1>20, <2>1, Families DEF Inv, ModulesInv, NotAgain, InModules
    <2>4. LinkedOnce'
      BY <1>1, <1>3, <1>20, Families DEF Inv, ModulesInv, LinkedOnce, InModules
    <2> QED BY <2>2, <2>3, <2>4
  <1>22. OnceInv'
    <2>0. \A n \in Item : WholeFolder(cache[n]) => WholeFolder(cache'[n])
      BY <1>3, <1>5 DEF WholeFolder
    <2>1. ASSUME NEW q \in Program \ {p} PROVE Fetched(q)'
      <3>1. program'[q] = program[q] /\ Fetched(q) /\ Uses(q)' = Uses(q)
        BY <1>1, <1>2 DEF NowAt, Inv, OnceInv, Uses
      <3> QED BY <1>1, <1>4, <2>0, <3>1 DEF Fetched, Item
    <2>2. Fetched(p)'
      <3>1. Fetched(p)
        BY DEF Inv, OnceInv
      <3> QED BY <1>1, <1>2, <1>4, <3>1 DEF Fetched, NowAt
    <2> QED BY <2>1, <2>2 DEF OnceInv
  <1> QED BY <1>10, <1>11, <1>12, <1>13, <1>16, <1>17, <1>18, <1>19, <1>21, <1>22 DEF Inv, ModulesInv

-----------------------------------------------------------------------------
(* The invariant holds                                                     *)

LEMMA InitInv ==
  ASSUME CasesOK, Init, Serial(case)
  PROVE  Inv
  <1>1. /\ case \in Cases /\ Serial(case) /\ links = {} /\ flag = {}
        /\ \A n \in Item : /\ modules[n] = NoModule /\ cache[n] \in {CachedFolder, NoFolder}
                           /\ case.lax => cache[n] = CachedFolder
        /\ \A p \in Program :
              /\ program[p] = [pc |-> "start", round |-> 1, reloaded |-> {}, fetched |-> {}, again |-> FALSE]
              /\ \A n \in Item : job[p][n] = "todo"
    BY DEF Init, CasesOK, Serial
  <1>2. "whole" \notin Program /\ "part" \notin Program /\ "none" \notin Program
    BY DEF CasesOK, ConstantsOK
  <1>3. Typed
    <2>1. CachedFolder \in Folder /\ NoFolder \in Folder /\ NoModule \in Module
      BY DEF CachedFolder, NoFolder, NoModule, Folder, Module, Content
    <2>2. cache \in [Item -> Folder] /\ modules \in [Item -> Module]
      BY <2>1 DEF Init
    <2>3. [pc |-> "start", round |-> 1, reloaded |-> {}, fetched |-> {}, again |-> FALSE] \in ProgramState
      BY DEF ProgramState, Stage
    <2>4. program \in [Program -> ProgramState]
      BY <2>3 DEF Init
    <2>5. job \in [Program -> [Item -> ItemStage]]
      BY DEF Init, ItemStage
    <2> QED BY <1>1, <2>2, <2>4, <2>5 DEF Typed
  <1>4. \A p \in Program : ~Active(p) /\ ~Started(p)
    BY <1>1 DEF Active, Started
  <1>5. Exclusive
    BY <1>1, <1>4 DEF Exclusive
  <1>6. Order
    BY <1>1 DEF Order, ProgramOrder, ItemOrder, Item
  <1>7. CacheInv
    <2>1. \A n \in Item : cache[n].content \in {"whole", "none"} /\ (cache[n].there => cache[n].content = "whole")
      BY <1>1 DEF CachedFolder, NoFolder
    <2>2. UnlockedWhole
      BY <2>1 DEF UnlockedWhole
    <2> QED BY <1>1, <1>2, <1>4, <2>1, <2>2 DEF CacheInv
  <1>8. ModulesInv
    <2>1. \A n \in Item : modules[n].content = "none" /\ ~modules[n].init
      BY <1>1 DEF NoModule
    <2>2. \A n \in Item : ~Filling(n) /\ ~Relinked(n)
      BY <1>4 DEF Filling, Relinked
    <2>3. \A c \in Copy : c \in Item
      BY DEF Item
    <2>4. \A n \in Package : n \in Item
      BY DEF Item
    <2> QED BY <1>2, <1>4, <2>1, <2>2, <2>3, <2>4
        DEF ModulesInv, Writers, Complete, PartsUnused, CopiesLast, DoneInit, NotAgain, LinkedOnce
  <1>9. OnceInv
    <2>1. \A p \in Program : ~program[p].again
      BY <1>1
    <2>2. \A p \in Program : program[p].fetched = {} /\ \A n \in Package : job[p][n] = "todo"
      BY <1>1 DEF Item
    <2> QED BY <2>1, <2>2 DEF OnceInv, Fetched
  <1> QED BY <1>3, <1>5, <1>6, <1>7, <1>8, <1>9 DEF Inv

\* Every step keeps the invariant.
LEMMA NextInv ==
  ASSUME CasesOK, Inv, [Next]_vars
  PROVE  Inv'
  <1>1. CASE UNCHANGED vars
    <2>1. UNCHANGED <<case, cache, modules, links, flag, program, job>>
      BY <1>1 DEF vars
    <2>2. Typed' /\ Exclusive' /\ Order' /\ OnceInv'
      BY <2>1 DEF Inv, Typed, Exclusive, Order, ProgramOrder, ItemOrder, OnceInv, Fetched, Started, Active,
                  Ended, InModules, Uses
    <2>3. CacheInv'
      BY <2>1 DEF Inv, CacheInv, UnlockedWhole, Knows, Busy, Active, Ended, InModules, CachedFolder
    <2>4. ModulesInv'
      BY <2>1 DEF Inv, ModulesInv, Writers, Complete, PartsUnused, CopiesLast, DoneInit, NotAgain, LinkedOnce,
                  Filling, Relinked, Active, InModules, Reloads, Uses, PackageOf
    <2> QED BY <2>2, <2>3, <2>4 DEF Inv
  <1>2. ASSUME NEW p \in Program, Step(p) PROVE Inv'
    <2>1. CASE Call(p)
      BY <2>1, CallInv
    <2>2. CASE Flag(p)
      BY <2>2, FlagInv
    <2>3. CASE AllPackages(p) \/ AllCopies(p)
      BY <2>3, WaitedInv
    <2>4. CASE Links(p)
      BY <2>4, LinksInv
    <2>5. CASE program[p].pc \in {"packages", "copies"} /\ \E n \in Item : ItemStep(p, n)
      <3>1. PICK n \in Item : ItemStep(p, n)
        BY <2>5
      <3> QED BY <2>5, <3>1, ItemInv
    <2> QED BY <1>2, <2>1, <2>2, <2>3, <2>4, <2>5 DEF Step
  <1>3. ASSUME NEW p \in Program, Killed(p) PROVE Inv'
    BY <1>3, KilledInv
  <1> QED BY <1>1, <1>2, <1>3 DEF Next

-----------------------------------------------------------------------------
(* What it implies                                                         *)

LEMMA InvTyped ==
  ASSUME Inv
  PROVE  TypeOK
  <1>1. \A n \in Item : /\ cache[n] \in [there : BOOLEAN, lock : BOOLEAN, content : Content]
                        /\ modules[n] \in [init : BOOLEAN, content : Content]
    BY DEF Inv, Typed, Folder, Module
  <1>2. Cardinality(flag) <= 1
    <2>1. CASE flag = {}
      BY <2>1, FS_EmptySet
    <2>2. CASE \E p \in Program : flag = {p}
      BY <2>2, FS_Singleton
    <2> QED BY <2>1, <2>2 DEF Inv, Typed
  <1> QED BY <1>1, <1>2 DEF TypeOK

\* A part or a file being written is not initialized, but where it is written again.
LEMMA InvModules ==
  ASSUME CasesOK, Inv
  PROVE  ModulesWhole
  <1> SUFFICES ASSUME NEW n \in Item, modules[n].init, ~Rewritten(n) PROVE modules[n].content = "whole"
    BY DEF ModulesWhole
  <1>1. \A q \in Program : Active(q) => ~Ended(q)
    BY DEF Active, Ended
  <1>2. ~Relinked(n)
    BY <1>1 DEF Rewritten, Relinked, Busy
  <1>3. modules[n].content \in {"whole"} \cup Program
    BY <1>2 DEF Inv, ModulesInv, Complete
  <1>4. ASSUME NEW q \in Program, modules[n].content = q PROVE FALSE
    <2>1. Active(q) /\ job[q][PackageOf(n)] = "copying"
      BY <1>4 DEF Inv, ModulesInv, Writers
    <2>2. PackageOf(n) \in Item /\ n \in Family(PackageOf(n))
      BY DEF PackageOf, Family, Item, CasesOK, ConstantsOK
    <2> QED BY <1>1, <2>1, <2>2 DEF Rewritten, Busy
  <1> QED BY <1>3, <1>4

LEMMA InvSound ==
  ASSUME CasesOK, Inv
  PROVE  TypeOK /\ UnlockedWhole /\ ModulesWhole /\ OncePerRun
  <1>1. \A p \in Program : ~program[p].again
    BY DEF Inv, OnceInv, Fetched
  <1> QED BY <1>1, InvTyped, InvModules DEF Inv, CacheInv, OncePerRun

\* Only Links makes a program done.
LEMMA OnlyLinks ==
  ASSUME program \in [Program -> ProgramState], Next, NEW p \in Program,
         program'[p].pc = "done", program[p].pc # "done"
  PROVE  Links(p)
  <1> SUFFICES ASSUME ~Links(p) PROVE FALSE
    OBVIOUS
  <1>0. program \in [Program -> ProgramState]
    OBVIOUS
  <1>1. PICK q \in Program : Step(q) \/ Killed(q)
    BY DEF Next
  <1>2. ASSUME NEW goal \in Stage \ {"done"}, MoveOn(q, goal) PROVE FALSE
    BY <1>0, <1>2 DEF MoveOn, ProgramState
  <1>3. ~Call(q) /\ ~Flag(q) /\ ~AllPackages(q) /\ ~AllCopies(q) /\ ~Killed(q)
    BY <1>2 DEF Call, Flag, AllPackages, AllCopies, Killed, Stage
  <1>4. CASE Links(q)
    <2>1. q # p
      BY <1>4
    <2>2. program'[p] = program[p]
      BY <1>0, <1>4, <2>1 DEF Links, MoveOn
    <2> QED BY <2>2
  <1>5. CASE program[q].pc \in {"packages", "copies"} /\ \E n \in Item : ItemStep(q, n)
    <2>1. PICK n \in Item : ItemStep(q, n)
      BY <1>5
    <2>2. \A r \in Program : program'[r].pc = program[r].pc
      BY <1>0, <2>1 DEF ItemStep, Begin, Look, SeeLock, Fetch, MakeFolder, LockFile, Extract, Write, Unlock,
                        Clean, Relink, CopyFile, CopyRest, LinkCopy, Initialized, SameProgram, ProgramState
    <2> QED BY <2>2
  <1> QED BY <1>1, <1>3, <1>4, <1>5 DEF Step

LEMMA DoneSound ==
  ASSUME CasesOK, Inv, [Next]_vars
  PROVE  [DoneStep]_vars
  <1> SUFFICES ASSUME Next, NEW p \in Program, program'[p].pc = "done", program[p].pc # "done"
               PROVE  Whole(p)'
    BY DEF DoneStep
  <1>1. Links(p)
    BY OnlyLinks DEF Inv, Typed
  <1>2. /\ UNCHANGED <<case, cache, modules>> /\ Active(p)
        /\ \A n \in Item : job[p][n] = "done"
    BY <1>1, LinksModules
  <1>3. CASE InModules(p)
    <2>1. links' = Item
      BY <1>1, <1>3 DEF Links
    <2>2. \A n \in Item : modules'[n].init
      BY <1>2, <1>3 DEF Inv, ModulesInv, DoneInit
    <2>3. ModulesWhole'
      <3>1. Inv'
        BY NextInv
      <3> QED BY <3>1, InvModules, PTL
    <2> QED BY <1>2, <1>3, <2>1, <2>2, <2>3 DEF Whole, ModulesWhole, InModules
  <1>4. CASE ~InModules(p)
    <2>1. \A n \in Item : WholeFolder(cache[n])
      BY <1>2, <1>4 DEF Inv, CacheInv, Knows
    <2> QED BY <1>2, <1>4, <2>1 DEF Whole, InModules, WholeFolder
  <1> QED BY <1>3, <1>4

-----------------------------------------------------------------------------
(* Programs that fill the global cache at once                             *)

SharedStage == ItemStage \ {"clean", "copy", "copying", "link", "init"}
AtFolder == {"lock", "extract", "write", "unlock"}
Placed == {"locked?", "lock", "extract", "write", "relink", "unlock", "done"}

\* A program makes a folder before it fills it, fetches a package once, and has left the
\* packages when it comes to the copies.
SharedProgram(p) ==
    /\ program[p].pc # "waiting" /\ program[p].round = 1 /\ ~program[p].again
    /\ \A n \in Item : job[p][n] \in SharedStage /\ (job[p][n] \in Placed => cache[n].there)
    /\ program[p].pc = "start" => program[p].fetched = {} /\ \A n \in Item : job[p][n] = "todo"
    /\ program[p].pc = "packages" => \A n \in Copy : job[p][n] = "todo"
    /\ program[p].pc \in {"copies", "links"} => \A n \in Package : job[p][n] = "done"
    /\ \A n \in Package : job[p][n] \in {"todo", "look", "locked?", "fetch"} => n \notin program[p].fetched
    /\ \A n \in Package : job[p][n] # "relink"
    /\ \A n \in Copy : job[p][n] # "fetch"

\* What is not in the folder of a package is still to come from one that is at it.
SharedFolder(n) ==
    /\ cache[n].there /\ cache[n].content = "none" => Busy(n, {"lock", "extract"})
    /\ cache[n].content # "part"
    /\ cache[n].content \in Program => ~Ended(cache[n].content) /\ job[cache[n].content][n] = "write"
    /\ cache[n].lock => Busy(n, {"extract", "write", "unlock"})

SharedTypes ==
    /\ cache \in [Item -> Folder] /\ modules = [n \in Item |-> NoModule] /\ flag = {}
    /\ program \in [Program -> ProgramState] /\ job \in [Program -> [Item -> ItemStage]]
Sharing ==
    /\ case \in Cases /\ Shared(case) /\ SharedTypes
    /\ \A p \in Program : SharedProgram(p)
    /\ \A n \in Package : SharedFolder(n)

\* What a step does to the folder f of a package: it is made, marked, filled, and the mark
\* is removed.
Fills(p, old, step, f, g) ==
    \/ old \notin AtFolder /\ step \notin AtFolder /\ g = f
    \/ old = "folder" /\ step = "lock" /\ g = [f EXCEPT !.there = TRUE]
    \/ old = "lock" /\ step = "extract" /\ g = [f EXCEPT !.lock = TRUE]
    \/ old = "extract" /\ step = "write" /\ g = [f EXCEPT !.there = TRUE, !.content = p]
    \/ old = "write" /\ step = "unlock" /\ g = (IF f.content = p THEN [f EXCEPT !.content = "whole"] ELSE f)
    \/ old = "unlock" /\ step = "done" /\ g = [f EXCEPT !.lock = FALSE]

\* What a step of p on m leaves of the programs and of the folders.
GoesTo(p, m, step) ==
    /\ step \in SharedStage /\ step # "todo" /\ (m \in Package => step # "relink") /\ (m \in Copy => step # "fetch")
    /\ job' = [job EXCEPT ![p][m] = step]
    /\ UNCHANGED <<case, modules, flag>>
    /\ program' \in [Program -> ProgramState]
    /\ \A q \in Program \ {p} : program'[q] = program[q]
    /\ program'[p].pc = program[p].pc /\ program'[p].round = program[p].round
    /\ \/ /\ program'[p].fetched = program[p].fetched /\ program'[p].again = program[p].again
          /\ m \in Package /\ step \in {"look", "locked?", "fetch"} =>
                 job[p][m] \in {"todo", "look", "locked?", "fetch"}
       \/ /\ job[p][m] = "fetch" /\ step = "folder" /\ program'[p].fetched = program[p].fetched \cup {m}
          /\ program'[p].again = (program[p].again \/ m \in program[p].fetched)
    /\ program[p].pc = "copies" => m \in Copy
    /\ program[p].pc = "packages" => m \in Package
LeavesFolder(p, m, step) ==
    /\ cache' \in [Item -> Folder]
    /\ \A n \in Item : cache[n].there => cache'[n].there
    /\ step \in Placed => cache'[m].there
    /\ \A n \in Package \ {m} : cache'[n] = cache[n]
    /\ m \in Package => Fills(p, job[p][m], step, cache[m], cache'[m])

\* Where p is
LEMMA SharedHere ==
  ASSUME CasesOK, Sharing, NEW p \in Program, program[p].pc \in {"packages", "copies"}, NEW m \in Item
  PROVE  /\ case.place[p] = "cache" /\ ~case.faults /\ ~InModules(p)
         /\ cache[m] \in Folder /\ job[p][m] \in SharedStage /\ ~Ended(p)
         /\ job[p][m] \in Placed => cache[m].there
         /\ m \in Package \/ m \in Copy
         /\ \A c \in Copy : c \notin Package /\ Original(c) \in Package /\ Original(c) \in Item
         /\ program[p].pc = "packages" => \A n \in Copy : job[p][n] = "todo"
         /\ program[p].pc = "copies" => \A n \in Package : job[p][n] = "done" /\ cache[n].there
         /\ job[p][m] = "relink" => m \in Copy
         /\ "whole" \notin Program /\ "part" \notin Program /\ "none" \notin Program
  <1>1. case.place[p] = "cache" /\ ~case.faults
    BY DEF Sharing, Shared
  <1>2. SharedProgram(p) /\ cache[m] \in Folder
    BY DEF Sharing, SharedTypes
  <1>3. \A n \in Package : n \in Item
    BY DEF Item
  <1>4. program[p].pc = "copies" => \A n \in Package : job[p][n] = "done" /\ cache[n].there
    BY <1>2, <1>3 DEF SharedProgram, Placed
  <1>5. \A c \in Copy : c \notin Package /\ Original(c) \in Package /\ Original(c) \in Item
    BY DEF CasesOK, ConstantsOK, Item
  <1>6. "whole" \notin Program /\ "part" \notin Program /\ "none" \notin Program
    BY DEF CasesOK, ConstantsOK
  <1> QED BY <1>1, <1>2, <1>4, <1>5, <1>6 DEF SharedProgram, InModules, Ended, Item

\* A step that leaves the cache, or the programs, as they are
LEMMA SharedQuiet ==
  ASSUME Sharing, NEW p \in Program, NEW m \in Item, NEW step \in SharedStage, UNCHANGED cache,
         job[p][m] \notin AtFolder, step \notin AtFolder, step \in Placed => cache[m].there
  PROVE  LeavesFolder(p, m, step)
  BY DEF LeavesFolder, Fills, Sharing, SharedTypes

LEMMA SharedGone ==
  ASSUME CasesOK, Sharing, NEW p \in Program, program[p].pc \in {"packages", "copies"}, NEW m \in Item,
         NEW step \in SharedStage, Goes(p, m, step), UNCHANGED <<case, links, flag, modules>>, step # "todo",
         job[p][m] # "done", job[p][m] = "todo" => Ready(p, m), UNCHANGED program,
         step # "relink" \/ m \in Copy, step # "fetch" \/ m \in Package, step \notin {"look", "locked?", "fetch"} \/ job[p][m] \in {"todo", "look", "locked?", "fetch"}
  PROVE  GoesTo(p, m, step)
  <1>1. program[p].pc = "copies" => m \in Copy
    BY SharedHere
  <1>2. program[p].pc = "packages" => m \in Package
    BY SharedHere DEF Ready
  <1>3. program \in [Program -> ProgramState]
    BY DEF Sharing, SharedTypes
  <1>4. (m \in Package => step # "relink") /\ (m \in Copy => step # "fetch")
    BY SharedHere
  <1> QED BY <1>1, <1>2, <1>3, <1>4 DEF GoesTo, Goes

\* A step that changes the folder of m alone
LEMMA SharedFilled ==
  ASSUME Sharing, NEW p \in Program, NEW m \in Item, NEW step, NEW g \in Folder,
         cache' = [cache EXCEPT ![m] = g], cache[m].there => g.there, step \in Placed => g.there,
         m \in Package => Fills(p, job[p][m], step, cache[m], g)
  PROVE  LeavesFolder(p, m, step)
  <1>1. cache \in [Item -> Folder]
    BY DEF Sharing, SharedTypes
  <1>2. /\ cache' \in [Item -> Folder] /\ cache'[m] = g
        /\ \A n \in Item : n # m => cache'[n] = cache[n]
    BY <1>1
  <1>3. \A n \in Package : n \in Item
    BY DEF Item
  <1> QED BY <1>2, <1>3 DEF LeavesFolder

LEMMA SharedTaken ==
  ASSUME CasesOK, Sharing, NEW p \in Program, program[p].pc \in {"packages", "copies"},
         NEW m \in Item, ItemStep(p, m)
  PROVE  \E step \in SharedStage : GoesTo(p, m, step) /\ LeavesFolder(p, m, step)
  <1> DEFINE old == cache[m]
  <1>1. /\ ~case.faults /\ ~InModules(p) /\ old \in Folder /\ job[p][m] \in SharedStage
        /\ job[p][m] \in Placed => old.there
        /\ m \in Package \/ m \in Copy
        /\ \A c \in Copy : c \notin Package /\ Original(c) \in Package /\ Original(c) \in Item
        /\ program[p].pc = "packages" => \A n \in Copy : job[p][n] = "todo"
        /\ program[p].pc = "copies" => \A n \in Package : job[p][n] = "done" /\ cache[n].there
        /\ job[p][m] = "relink" => m \in Copy
    BY SharedHere
  <1>2. cache \in [Item -> Folder] /\ program[p] \in ProgramState /\ program \in [Program -> ProgramState]
    BY DEF Sharing, SharedTypes
  <1>3. /\ \A b \in BOOLEAN : [old EXCEPT !.there = b] \in Folder /\ [old EXCEPT !.lock = b] \in Folder
        /\ [old EXCEPT !.content = "whole"] \in Folder
        /\ [old EXCEPT !.there = TRUE, !.content = p] \in Folder
    BY <1>1 DEF Folder, Content
  <1>4. /\ \A b : [old EXCEPT !.lock = b].there = old.there
        /\ [old EXCEPT !.there = TRUE].there
        /\ \A c : [old EXCEPT !.content = c].there = old.there
        /\ [old EXCEPT !.there = TRUE, !.content = p].there
    BY <1>1 DEF Folder
  <1> HIDE DEF old
  <1>10. CASE Begin(p, m)
    <2>1. /\ Goes(p, m, "look") /\ UNCHANGED <<case, links, flag, modules, program, cache>>
          /\ job[p][m] = "todo" /\ Ready(p, m)
      BY <1>1, <1>10 DEF Begin, At, SameProgram, Skips
    <2>2. "look" \in SharedStage /\ "look" \notin AtFolder /\ "look" \notin Placed /\ job[p][m] \notin AtFolder
      BY <2>1 DEF SharedStage, ItemStage, AtFolder, Placed
    <2> QED BY <2>1, <2>2, SharedGone, SharedQuiet
  <1>11. CASE Look(p, m)
    <2>1. PICK step \in {"locked?", "folder", "error", "fetch"} :
             /\ Goes(p, m, step) /\ UNCHANGED <<case, links, flag, modules, cache>> /\ job[p][m] = "look"
             /\ step = "locked?" => old.there
             /\ step = "fetch" => m \notin Copy
      BY <1>11 DEF Look, At, Missing, old
    <2>2. step \in SharedStage /\ step \notin AtFolder /\ job[p][m] \notin AtFolder /\ (step \in Placed => old.there)
      BY <2>1 DEF SharedStage, ItemStage, AtFolder, Placed
    <2>3. LeavesFolder(p, m, step)
      BY <2>1, <2>2, SharedQuiet DEF old
    <2>4. /\ program' \in [Program -> ProgramState] /\ \A q \in Program \ {p} : program'[q] = program[q]
          /\ program'[p].pc = program[p].pc /\ program'[p].round = program[p].round
          /\ program'[p].fetched = program[p].fetched /\ program'[p].again = program[p].again
      <3>1. [program[p] EXCEPT !.reloaded = @ \cup {m}] \in ProgramState
        BY <1>2 DEF ProgramState
      <3>2. program' \in {program, [program EXCEPT ![p] = [program[p] EXCEPT !.reloaded = @ \cup {m}]]}
        BY <1>11 DEF Look
      <3>3. CASE program' = program
        BY <1>2, <3>3
      <3>4. CASE program' = [program EXCEPT ![p] = [program[p] EXCEPT !.reloaded = @ \cup {m}]]
        <4>1. program'[p] = [program[p] EXCEPT !.reloaded = @ \cup {m}]
          BY <1>2, <3>4
        <4>2. \A q \in Program \ {p} : program'[q] = program[q]
          BY <1>2, <3>4
        <4>3. program' \in [Program -> ProgramState]
          BY <1>2, <3>1, <3>4
        <4>4. /\ program'[p].pc = program[p].pc /\ program'[p].round = program[p].round
              /\ program'[p].fetched = program[p].fetched /\ program'[p].again = program[p].again
          BY <1>2, <4>1 DEF ProgramState
        <4> QED BY <4>2, <4>3, <4>4
      <3> QED BY <3>2, <3>3, <3>4
    <2>5. (program[p].pc = "copies" => m \in Copy) /\ (program[p].pc = "packages" => m \in Package)
      BY <1>1, <2>1
    <2>6. GoesTo(p, m, step)
      <3>1. step # "todo" /\ step # "relink" /\ (step \in {"look", "locked?", "fetch"} => job[p][m] \in {"todo", "look", "locked?", "fetch"})
        BY <2>1
      <3>2. job' = [job EXCEPT ![p][m] = step]
        BY <2>1 DEF Goes
      <3> QED BY <2>1, <2>2, <2>4, <2>5, <3>1, <3>2 DEF GoesTo
    <2> QED BY <2>2, <2>3, <2>6
  <1>12. CASE SeeLock(p, m)
    <2>1. PICK step \in {"done", "folder", "error", "fetch"} :
             /\ Goes(p, m, step) /\ UNCHANGED <<case, links, flag, modules, cache, program>> /\ job[p][m] = "locked?"
             /\ step = "fetch" => m \notin Copy
      BY <1>1, <1>12 DEF SeeLock, At, Missing, Then, SameProgram
    <2>2. step \in SharedStage /\ step \notin AtFolder /\ job[p][m] \notin AtFolder /\ old.there
      BY <1>1, <2>1 DEF SharedStage, ItemStage, AtFolder, Placed
    <2>3. step # "fetch" \/ m \in Package
      BY <1>1, <2>1
    <2> QED BY <2>1, <2>2, <2>3, SharedGone, SharedQuiet DEF old
  <1>13. CASE Fetch(p, m)
    <2>1. /\ Goes(p, m, "folder") /\ UNCHANGED <<case, links, flag, modules, cache>> /\ job[p][m] = "fetch"
          /\ program' = [program EXCEPT ![p].fetched = @ \cup {m}, ![p].again = @ \/ m \in program[p].fetched]
      BY <1>1, <1>13 DEF Fetch, At
    <2>2. "folder" \in SharedStage /\ "folder" \notin AtFolder /\ job[p][m] \notin AtFolder /\ "folder" \notin Placed
      BY <2>1 DEF SharedStage, ItemStage, AtFolder, Placed
    <2>3. LeavesFolder(p, m, "folder")
      BY <2>1, <2>2, SharedQuiet
    <2>4. /\ program' \in [Program -> ProgramState] /\ \A q \in Program \ {p} : program'[q] = program[q]
          /\ program'[p].pc = program[p].pc /\ program'[p].round = program[p].round
          /\ program'[p].fetched = program[p].fetched \cup {m}
          /\ program'[p].again = (program[p].again \/ m \in program[p].fetched)
      <3> DEFINE now == [program[p] EXCEPT !.fetched = @ \cup {m}, !.again = @ \/ m \in program[p].fetched]
      <3>1. now \in ProgramState
        BY <1>2 DEF ProgramState
      <3>2. program' = [program EXCEPT ![p] = now]
        BY <1>2, <2>1 DEF ProgramState
      <3>3. program'[p] = now /\ \A q \in Program \ {p} : program'[q] = program[q]
        BY <1>2, <3>2
      <3>4. program' \in [Program -> ProgramState]
        BY <1>2, <3>1, <3>2
      <3>5. /\ now.pc = program[p].pc /\ now.round = program[p].round
            /\ now.fetched = program[p].fetched \cup {m}
            /\ now.again = (program[p].again \/ m \in program[p].fetched)
        BY <1>2 DEF ProgramState
      <3> QED BY <3>3, <3>4, <3>5
    <2>5. (program[p].pc = "copies" => m \in Copy) /\ (program[p].pc = "packages" => m \in Package)
      BY <1>1, <2>1
    <2>6. GoesTo(p, m, "folder")
      <3>1. job' = [job EXCEPT ![p][m] = "folder"]
        BY <2>1 DEF Goes
      <3> QED BY <2>1, <2>2, <2>4, <2>5, <3>1 DEF GoesTo
    <2> QED BY <2>2, <2>3, <2>6
  <1>14. CASE MakeFolder(p, m)
    <2>1. /\ Goes(p, m, "lock") /\ UNCHANGED <<case, links, flag, modules, program>> /\ job[p][m] = "folder"
          /\ cache' = [cache EXCEPT ![m] = [old EXCEPT !.there = TRUE]]
      BY <1>14 DEF MakeFolder, At, SameProgram, old
    <2>2. "lock" \in SharedStage
      BY DEF SharedStage, ItemStage
    <2>3. Fills(p, job[p][m], "lock", cache[m], [old EXCEPT !.there = TRUE])
      BY <2>1 DEF Fills, old
    <2>4. [old EXCEPT !.there = TRUE] \in Folder
      BY <1>3
    <2>5. LeavesFolder(p, m, "lock")
      BY <1>4, <2>1, <2>3, <2>4, SharedFilled
    <2>6. GoesTo(p, m, "lock")
      BY <2>1, <2>2, SharedGone
    <2> QED BY <2>2, <2>5, <2>6
  <1>15. CASE LockFile(p, m)
    <2>0. job[p][m] = "lock" /\ old.there
      BY <1>1, <1>15 DEF LockFile, At, Placed
    <2>1. /\ Goes(p, m, "extract") /\ UNCHANGED <<case, links, flag, modules, program>>
          /\ cache' = [cache EXCEPT ![m] = [old EXCEPT !.lock = TRUE]]
      BY <1>15, <2>0 DEF LockFile, SameProgram, old
    <2>2. "extract" \in SharedStage
      BY DEF SharedStage, ItemStage
    <2>3. Fills(p, job[p][m], "extract", cache[m], [old EXCEPT !.lock = TRUE])
      BY <2>0 DEF Fills, old
    <2>4. [old EXCEPT !.lock = TRUE] \in Folder
      BY <1>3
    <2>5. LeavesFolder(p, m, "extract")
      BY <1>4, <2>0, <2>1, <2>3, <2>4, SharedFilled
    <2>6. GoesTo(p, m, "extract")
      BY <2>0, <2>1, <2>2, SharedGone
    <2> QED BY <2>2, <2>5, <2>6
  <1>16. CASE Unlock(p, m)
    <2>1. /\ Goes(p, m, "done") /\ UNCHANGED <<case, links, flag, modules, program>> /\ job[p][m] = "unlock"
          /\ cache' = [cache EXCEPT ![m] = [old EXCEPT !.lock = FALSE]]
      BY <1>1, <1>16 DEF Unlock, At, SameProgram, Then, old
    <2>2. "done" \in SharedStage /\ old.there
      BY <1>1, <2>1 DEF SharedStage, ItemStage, Placed
    <2>3. Fills(p, job[p][m], "done", cache[m], [old EXCEPT !.lock = FALSE])
      BY <2>1 DEF Fills, old
    <2>4. [old EXCEPT !.lock = FALSE] \in Folder
      BY <1>3
    <2>5. LeavesFolder(p, m, "done")
      BY <1>4, <2>1, <2>2, <2>3, <2>4, SharedFilled
    <2>6. GoesTo(p, m, "done")
      BY <2>1, <2>2, SharedGone
    <2> QED BY <2>2, <2>5, <2>6
  <1>17. CASE Extract(p, m) /\ m \in Package
    <2>1. /\ Goes(p, m, "write") /\ UNCHANGED <<case, links, flag, modules, program>> /\ job[p][m] = "extract"
          /\ cache' = [cache EXCEPT ![m] = [old EXCEPT !.there = TRUE, !.content = p]]
      BY <1>1, <1>2, <1>17 DEF Extract, At, SameProgram, old
    <2>2. "write" \in SharedStage
      BY DEF SharedStage, ItemStage
    <2>3. Fills(p, job[p][m], "write", cache[m], [old EXCEPT !.there = TRUE, !.content = p])
      BY <2>1 DEF Fills, old
    <2>4. [old EXCEPT !.there = TRUE, !.content = p] \in Folder
      BY <1>3
    <2>5. LeavesFolder(p, m, "write")
      BY <1>4, <2>1, <2>3, <2>4, SharedFilled
    <2>6. GoesTo(p, m, "write")
      BY <2>1, <2>2, SharedGone
    <2> QED BY <2>2, <2>5, <2>6
  <1>18. CASE Extract(p, m) /\ m \in Copy
    <2>1. job[p][m] = "extract" /\ cache[Original(m)].there /\ old.there
      BY <1>1, <1>18 DEF Extract, At, Placed
    <2>2. PICK step \in {"unlock", "relink"} :
             /\ Goes(p, m, step) /\ UNCHANGED <<case, links, flag, modules, program>>
             /\ cache' = Linked([cache EXCEPT ![m].there = TRUE], m)
      BY <1>1, <1>18, <2>1 DEF Extract, SameProgram
    <2>3. step \in SharedStage
      BY DEF SharedStage, ItemStage
    <2>4. PICK c \in Content : cache' = [cache EXCEPT ![m] = [old EXCEPT !.content = c]]
      <3>0. [old EXCEPT !.there = TRUE] = old
        BY <1>1, <2>1 DEF Folder
      <3>1. [cache EXCEPT ![m].there = TRUE] = cache
        <4>1. [cache EXCEPT ![m].there = TRUE] = [cache EXCEPT ![m] = [old EXCEPT !.there = TRUE]]
          BY DEF old
        <4>2. [cache EXCEPT ![m] = old] = cache
          BY <1>2 DEF old
        <4> QED BY <3>0, <4>1, <4>2
      <3>2. cache' = [cache EXCEPT ![m] = [old EXCEPT !.content =
                         IF old.content = "none" THEN cache[Original(m)].content ELSE "none"]]
        <4>1. cache' = Linked(cache, m)
          BY <2>2, <3>1
        <4> QED BY <1>2, <4>1 DEF Linked, old
      <3>3. cache[Original(m)].content \in Content /\ "none" \in Content
        BY <1>1, <1>2, <1>18 DEF Folder, Content
      <3> QED BY <3>2, <3>3 DEF old
    <2>5. [old EXCEPT !.content = c] \in Folder
      BY <1>1 DEF Folder
    <2>6. m \notin Package
      BY <1>1, <1>18
    <2>7. LeavesFolder(p, m, step)
      BY <1>4, <2>1, <2>4, <2>5, <2>6, SharedFilled
    <2>8. GoesTo(p, m, step)
      BY <1>18, <2>1, <2>2, <2>3, SharedGone
    <2> QED BY <2>3, <2>7, <2>8
  <1>19. CASE Write(p, m)
    <2>1. /\ Goes(p, m, "unlock") /\ UNCHANGED <<case, links, flag, modules, program>> /\ job[p][m] = "write"
          /\ cache' = Filled(cache, p, m, "whole")
      BY <1>1, <1>19 DEF Write, At, SameProgram
    <2>2. "unlock" \in SharedStage /\ old.there
      BY <1>1, <2>1 DEF SharedStage, ItemStage, Placed
    <2>3. \A n \in Item : cache'[n] = IF n \in Family(m) /\ cache[n].content = p
                                     THEN [cache[n] EXCEPT !.content = "whole"] ELSE cache[n]
      BY <2>1 DEF Filled
    <2>4. \A n \in Item : [cache[n] EXCEPT !.content = "whole"] \in Folder /\ [cache[n] EXCEPT !.content = "whole"].there = cache[n].there
      BY <1>2 DEF Folder, Content
    <2>5. cache' \in [Item -> Folder]
      <3>1. \A n \in Item : cache'[n] \in Folder
        BY <1>2, <2>3, <2>4
      <3> QED BY <2>1, <3>1 DEF Filled
    <2>6. \A n \in Item : cache[n].there => cache'[n].there
      BY <2>3, <2>4
    <2>7. \A n \in Package \ {m} : cache'[n] = cache[n]
      BY <1>1, <2>3 DEF Family, Item
    <2>8. m \in Family(m)
      BY DEF Family
    <2>9. Fills(p, job[p][m], "unlock", cache[m], cache'[m])
      BY <2>1, <2>3, <2>8 DEF Fills
    <2>10. cache'[m].there
      BY <2>2, <2>6 DEF old
    <2>11. LeavesFolder(p, m, "unlock")
      BY <2>5, <2>6, <2>7, <2>9, <2>10 DEF LeavesFolder
    <2>12. GoesTo(p, m, "unlock")
      BY <2>1, <2>2, SharedGone
    <2> QED BY <2>2, <2>11, <2>12
  <1>20. CASE Relink(p, m)
    <2>1. /\ Goes(p, m, "unlock") /\ UNCHANGED <<case, links, flag, modules, program>> /\ job[p][m] = "relink"
          /\ cache' = LinkedAgain(cache, m)
      BY <1>1, <1>20 DEF Relink, At, SameProgram
    <2>2. "unlock" \in SharedStage /\ old.there /\ m \notin Package /\ m \in Copy
      <3>1. m \in Copy
        BY <1>1, <2>1
      <3> QED BY <1>1, <2>1, <3>1 DEF SharedStage, ItemStage, Placed
    <2>3. PICK c \in Content : cache' = [cache EXCEPT ![m] = [old EXCEPT !.content = c]]
      <3>1. CASE old.content = "none"
        <4>1. cache' = [cache EXCEPT ![m].content = cache[Original(m)].content]
          BY <1>2, <2>1, <3>1 DEF LinkedAgain, Linked, old
        <4>2. cache[Original(m)].content \in Content
          BY <1>1, <1>2, <2>2 DEF Folder
        <4> QED BY <4>1, <4>2 DEF old
      <3>2. CASE old.content # "none"
        <4>1. cache' = cache
          BY <2>1, <3>2 DEF LinkedAgain, old
        <4>2. old.content \in Content /\ [old EXCEPT !.content = old.content] = old
          BY <1>1 DEF Folder
        <4>3. cache = [cache EXCEPT ![m] = old]
          BY <1>2 DEF old
        <4> QED BY <4>1, <4>2, <4>3
      <3> QED BY <3>1, <3>2
    <2>4. [old EXCEPT !.content = c] \in Folder
      BY <1>1 DEF Folder
    <2>5. LeavesFolder(p, m, "unlock")
      BY <1>4, <2>2, <2>3, <2>4, SharedFilled
    <2>6. GoesTo(p, m, "unlock")
      BY <2>1, <2>2, SharedGone
    <2> QED BY <2>2, <2>5, <2>6
  <1>21. ~Clean(p, m) /\ ~CopyFile(p, m) /\ ~CopyRest(p, m) /\ ~LinkCopy(p, m) /\ ~Initialized(p, m)
    BY <1>1 DEF Clean, CopyFile, CopyRest, LinkCopy, Initialized, At, SharedStage
  <1> QED BY <1>1, <1>10, <1>11, <1>12, <1>13, <1>14, <1>15, <1>16, <1>17, <1>18, <1>19, <1>20, <1>21
          DEF ItemStep

LEMMA SharedJobs ==
  ASSUME Sharing, NEW p \in Program, NEW m \in Item, NEW step, GoesTo(p, m, step)
  PROVE  /\ job' \in [Program -> [Item -> ItemStage]] /\ job'[p][m] = step
         /\ \A q \in Program, n \in Item : q # p \/ n # m => job'[q][n] = job[q][n]
         /\ \A q \in Program : program'[q].pc = program[q].pc /\ program'[q].round = program[q].round
         /\ \A q \in Program : Ended(q)' <=> Ended(q)
  <1>1. job \in [Program -> [Item -> ItemStage]] /\ step \in ItemStage /\ job' = [job EXCEPT ![p][m] = step]
    BY DEF Sharing, SharedTypes, GoesTo, SharedStage
  <1>2. \A q \in Program : program'[q].pc = program[q].pc /\ program'[q].round = program[q].round
    BY DEF GoesTo
  <1> QED BY <1>1, <1>2 DEF Ended

LEMMA SharedPrograms ==
  ASSUME CasesOK, Sharing, NEW p \in Program, program[p].pc \in {"packages", "copies"},
         NEW m \in Item, NEW step, GoesTo(p, m, step), LeavesFolder(p, m, step), NEW q \in Program
  PROVE  SharedProgram(q)'
  <1>1. /\ job' \in [Program -> [Item -> ItemStage]] /\ job'[p][m] = step
        /\ \A r \in Program, n \in Item : r # p \/ n # m => job'[r][n] = job[r][n]
        /\ program'[q].pc = program[q].pc /\ program'[q].round = program[q].round
    BY SharedJobs
  <1>2. SharedProgram(q) /\ \A n \in Package : n \in Item
    BY DEF Sharing, Item
  <1>3. \A n \in Copy : n \in Item /\ n \notin Package
    BY DEF Item, CasesOK, ConstantsOK
  <1>4. /\ step \in SharedStage /\ (m \in Package => step # "relink") /\ (m \in Copy => step # "fetch")
        /\ m \in Package \/ m \in Copy
        /\ step \in Placed => cache'[m].there
        /\ \A n \in Item : cache[n].there => cache'[n].there
        /\ program[p].pc = "copies" => m \in Copy
        /\ program[p].pc = "packages" => m \in Package
    BY DEF GoesTo, LeavesFolder, Item
  <1>5. CASE q # p
    <2>1. program'[q] = program[q] /\ \A n \in Item : job'[q][n] = job[q][n]
      BY <1>1, <1>5 DEF GoesTo
    <2> QED BY <1>2, <1>3, <1>4, <2>1 DEF SharedProgram
  <1>6. CASE q = p
    <2>1. \A n \in Item : job'[q][n] \in SharedStage /\ (job'[q][n] \in Placed => cache'[n].there)
      BY <1>1, <1>2, <1>4, <1>6 DEF SharedProgram
    <2>2. program'[q].pc = "packages" => \A n \in Copy : job'[q][n] = "todo"
      BY <1>1, <1>2, <1>3, <1>4, <1>6 DEF SharedProgram
    <2>3. program'[q].pc \in {"copies", "links"} => \A n \in Package : job'[q][n] = "done"
      BY <1>1, <1>2, <1>3, <1>4, <1>6 DEF SharedProgram
    <2>4. (\A n \in Package : job'[q][n] # "relink") /\ (\A n \in Copy : job'[q][n] # "fetch")
      BY <1>3, <1>1, <1>2, <1>4, <1>6 DEF SharedProgram
    <2>5. CASE program'[p].fetched = program[p].fetched /\ program'[p].again = program[p].again
              /\ (m \in Package /\ step \in {"look", "locked?", "fetch"} =>
                     job[p][m] \in {"todo", "look", "locked?", "fetch"})
      <3>1. \A n \in Package : job'[q][n] \in {"todo", "look", "locked?", "fetch"} => n \notin program'[q].fetched
        <4>1. step # "todo"
          BY DEF GoesTo
        <4> QED BY <1>1, <1>2, <1>6, <2>5, <4>1 DEF SharedProgram
      <3> QED BY <1>1, <1>2, <1>6, <2>1, <2>2, <2>3, <2>4, <2>5, <3>1 DEF SharedProgram
    <2>6. CASE /\ job[p][m] = "fetch" /\ step = "folder" /\ program'[p].fetched = program[p].fetched \cup {m}
               /\ program'[p].again = (program[p].again \/ m \in program[p].fetched)
      <3>1. m \in Package
        BY <1>2, <1>3, <1>4, <1>6, <2>6 DEF SharedProgram
      <3>2. ~program'[q].again
        BY <1>2, <1>6, <2>6, <3>1 DEF SharedProgram
      <3>3. \A n \in Package : job'[q][n] \in {"todo", "look", "locked?", "fetch"} => n \notin program'[q].fetched
        BY <1>1, <1>2, <1>6, <2>6 DEF SharedProgram
      <3> QED BY <1>1, <1>2, <1>6, <2>1, <2>2, <2>3, <2>4, <3>2, <3>3 DEF SharedProgram
    <2> QED BY <2>5, <2>6 DEF GoesTo
  <1> QED BY <1>5, <1>6

LEMMA SharedFolders ==
  ASSUME CasesOK, Sharing, NEW p \in Program, program[p].pc \in {"packages", "copies"},
         NEW m \in Item, NEW step, GoesTo(p, m, step), LeavesFolder(p, m, step), NEW n \in Package
  PROVE  SharedFolder(n)'
  <1>1. /\ job'[p][m] = step
        /\ \A q \in Program, k \in Item : q # p \/ k # m => job'[q][k] = job[q][k]
        /\ \A q \in Program : Ended(q)' <=> Ended(q)
        /\ \A q \in Program : program'[q].pc = program[q].pc
    BY SharedJobs
  <1>2. SharedFolder(n) /\ n \in Item /\ ~Ended(p) /\ cache[n] \in Folder
    BY DEF Sharing, SharedTypes, Item, Ended
  <1>3. CASE n # m
    <2>1. cache'[n] = cache[n]
      BY <1>3 DEF LeavesFolder
    <2>2. \A q \in Program : job'[q][n] = job[q][n]
      BY <1>1, <1>2, <1>3
    <2>3. \A S : Busy(n, S) => Busy(n, S)'
      BY <1>1, <2>2 DEF Busy
    <2> QED BY <1>1, <1>2, <2>1, <2>2, <2>3 DEF SharedFolder
  <1>4. CASE n = m
    <2> DEFINE f == cache[m]
               g == cache'[m]
    <2>1. Fills(p, job[p][m], step, f, g)
      BY <1>4 DEF LeavesFolder
    <2>2. \A S : Busy(m, S) => Busy(m, S)' \/ job[p][m] \in S
      BY <1>1, <1>2, <1>4 DEF Busy
    <2>3. \A S : step \in S => Busy(m, S)'
      BY <1>1, <1>2, <1>4 DEF Busy
    <2>4. \A q \in Program : q # p => job'[q][m] = job[q][m]
      BY <1>1
    <2>5. "whole" \notin Program /\ "part" \notin Program /\ "none" \notin Program
      BY DEF CasesOK, ConstantsOK
    <2>6. /\ f.there /\ f.content = "none" => Busy(m, {"lock", "extract"})
          /\ f.content # "part"
          /\ f.content \in Program => ~Ended(f.content) /\ job[f.content][m] = "write"
          /\ f.lock => Busy(m, {"extract", "write", "unlock"})
      BY <1>2, <1>4 DEF SharedFolder
    <2>7. f \in Folder
      BY <1>2, <1>4
    <2> HIDE DEF f, g
    <2>8. /\ g.there /\ g.content = "none" => Busy(m, {"lock", "extract"})'
          /\ g.content # "part"
          /\ g.content \in Program => ~Ended(g.content) /\ job'[g.content][m] = "write"
          /\ g.lock => Busy(m, {"extract", "write", "unlock"})'
      <3>1. CASE job[p][m] \notin AtFolder /\ step \notin AtFolder /\ g = f
        <4>1. job[p][m] # "write" /\ job[p][m] \notin {"lock", "extract"} /\ job[p][m] \notin {"extract", "write", "unlock"}
          BY <3>1 DEF AtFolder
        <4> QED BY <2>2, <2>4, <2>6, <3>1, <4>1
      <3>2. CASE job[p][m] = "folder" /\ step = "lock" /\ g = [f EXCEPT !.there = TRUE]
        <4>1. g.lock = f.lock /\ g.content = f.content
          BY <2>7, <3>2 DEF Folder
        <4>2. job[p][m] # "write" /\ job[p][m] \notin {"extract", "write", "unlock"} /\ step \in {"lock", "extract"}
          BY <3>2
        <4> QED BY <2>2, <2>3, <2>4, <2>6, <4>1, <4>2
      <3>3. CASE job[p][m] = "lock" /\ step = "extract" /\ g = [f EXCEPT !.lock = TRUE]
        <4>1. g.there = f.there /\ g.content = f.content
          BY <2>7, <3>3 DEF Folder
        <4>2. job[p][m] # "write" /\ step \in {"lock", "extract"} /\ step \in {"extract", "write", "unlock"}
          BY <3>3
        <4> QED BY <2>3, <2>4, <2>6, <4>1, <4>2
      <3>4. CASE job[p][m] = "extract" /\ step = "write" /\ g = [f EXCEPT !.there = TRUE, !.content = p]
        <4>1. g.lock = f.lock /\ g.content = p
          BY <2>7, <3>4 DEF Folder
        <4>2. job'[p][m] = "write" /\ step \in {"extract", "write", "unlock"}
          BY <1>1, <3>4
        <4> QED BY <1>2, <2>3, <2>5, <4>1, <4>2
      <3>5. CASE /\ job[p][m] = "write" /\ step = "unlock"
                 /\ g = (IF f.content = p THEN [f EXCEPT !.content = "whole"] ELSE f)
        <4>1. g.there = f.there /\ g.lock = f.lock
          BY <2>7, <3>5 DEF Folder
        <4>2. g.content = IF f.content = p THEN "whole" ELSE f.content
          BY <2>7, <3>5 DEF Folder
        <4>3. job[p][m] \notin {"lock", "extract"} /\ step \in {"extract", "write", "unlock"}
          BY <3>5
        <4>4. Busy(m, {"extract", "write", "unlock"})'
          BY <2>3, <4>3
        <4>5. g.there /\ g.content = "none" => Busy(m, {"lock", "extract"})'
          <5>1. g.content = "none" => f.content = "none"
            BY <4>2
          <5> QED BY <2>2, <2>6, <4>1, <4>3, <5>1
        <4>6. g.content # "part" /\ (g.content \in Program => g.content # p /\ g.content = f.content)
          BY <2>5, <2>6, <4>2
        <4> QED BY <2>4, <2>6, <4>4, <4>5, <4>6
      <3>6. CASE job[p][m] = "unlock" /\ step = "done" /\ g = [f EXCEPT !.lock = FALSE]
        <4>1. g.there = f.there /\ g.content = f.content /\ ~g.lock
          BY <2>7, <3>6 DEF Folder
        <4>2. job[p][m] # "write" /\ job[p][m] \notin {"lock", "extract"}
          BY <3>6
        <4> QED BY <2>2, <2>4, <2>6, <4>1, <4>2
      <3> QED BY <2>1, <3>1, <3>2, <3>3, <3>4, <3>5, <3>6 DEF Fills
    <2>9. g.content \in Program => program'[g.content].pc \notin {"done", "failed", "killed"}
      BY <1>1, <2>8 DEF Ended
    <2> QED BY <1>4, <2>8, <2>9 DEF SharedFolder, Ended, g
  <1> QED BY <1>3, <1>4

\* A step on a package or copy
LEMMA SharedItem ==
  ASSUME CasesOK, Sharing, NEW p \in Program, program[p].pc \in {"packages", "copies"},
         NEW m \in Item, ItemStep(p, m)
  PROVE  Sharing'
  <1>1. PICK step \in SharedStage : GoesTo(p, m, step) /\ LeavesFolder(p, m, step)
    BY SharedTaken
  <1>2. \A q \in Program : SharedProgram(q)'
    BY <1>1, SharedPrograms
  <1>3. \A n \in Package : SharedFolder(n)'
    BY <1>1, SharedFolders
  <1>4. SharedTypes'
    BY <1>1, SharedJobs DEF GoesTo, LeavesFolder, Sharing, SharedTypes
  <1>5. case' = case
    BY <1>1 DEF GoesTo
  <1>6. (case \in Cases /\ Shared(case))'
    BY <1>5 DEF Sharing, Shared
  <1> QED BY <1>2, <1>3, <1>4, <1>6 DEF Sharing

\* A program goes on, or ends when it is at no folder of a package.
LEMMA SharedMoved ==
  ASSUME CasesOK, Sharing, NEW p \in Program, NEW goal \in Stage \ {"start", "waiting"}, MoveOn(p, goal),
         UNCHANGED <<case, modules, job>>, flag' = {}, cache' \in [Item -> Folder],
         \A n \in Item : cache'[n].there = cache[n].there, \A n \in Package : cache'[n] = cache[n],
         goal = "packages" => \A n \in Copy : job[p][n] = "todo",
         goal \in {"copies", "links"} => \A n \in Package : job[p][n] = "done",
         goal \in {"done", "failed", "killed"} => \A n \in Package : job[p][n] \notin AtFolder
  PROVE  Sharing'
  <1>1. program \in [Program -> ProgramState] /\ program' = [program EXCEPT ![p].pc = goal]
    BY DEF Sharing, SharedTypes, MoveOn
  <1>2. /\ \A q \in Program \ {p} : program'[q] = program[q]
        /\ program'[p].pc = goal /\ program'[p].round = program[p].round
        /\ program'[p].fetched = program[p].fetched /\ program'[p].again = program[p].again
        /\ program' \in [Program -> ProgramState]
    <2> DEFINE now == [program[p] EXCEPT !.pc = goal]
    <2>1. /\ now \in ProgramState /\ now.pc = goal /\ now.round = program[p].round
          /\ now.fetched = program[p].fetched /\ now.again = program[p].again
      BY <1>1 DEF ProgramState
    <2>2. program' = [program EXCEPT ![p] = now]
      BY <1>1
    <2> HIDE DEF now
    <2>3. program'[p] = now
      BY <1>1, <2>2
    <2>4. program' \in [Program -> ProgramState] /\ \A q \in Program \ {p} : program'[q] = program[q]
      BY <1>1, <2>1, <2>2
    <2> QED BY <2>1, <2>3, <2>4
  <1>3. \A n \in Package : n \in Item
    BY DEF Item
  <1>4. ASSUME NEW q \in Program PROVE SharedProgram(q)'
    <2>1. SharedProgram(q)
      BY DEF Sharing
    <2>2. CASE q # p
      <3>1. program'[q] = program[q]
        BY <1>2, <2>2
      <3> QED BY <2>1, <3>1 DEF SharedProgram
    <2>3. CASE q = p
      BY <1>2, <2>1, <2>3 DEF SharedProgram
    <2> QED BY <2>2, <2>3
  <1>5. \A n \in Package : \A q \in Program :
            ~Ended(q) /\ job[q][n] \in AtFolder => program'[q].pc \notin {"done", "failed", "killed"}
    BY <1>2 DEF Ended
  <1>6. ASSUME NEW n \in Package PROVE SharedFolder(n)'
    <2>1. SharedFolder(n) /\ cache'[n] = cache[n]
      BY DEF Sharing
    <2>2. Busy(n, {"lock", "extract"}) => Busy(n, {"lock", "extract"})'
      BY <1>5 DEF Busy, Ended, AtFolder
    <2>3. Busy(n, {"extract", "write", "unlock"}) => Busy(n, {"extract", "write", "unlock"})'
      BY <1>5 DEF Busy, Ended, AtFolder
    <2>4. cache[n].content \in Program =>
              program'[cache[n].content].pc \notin {"done", "failed", "killed"} /\ job'[cache[n].content][n] = "write"
      BY <1>5, <2>1 DEF SharedFolder, AtFolder
    <2> QED BY <2>1, <2>2, <2>3, <2>4 DEF SharedFolder, Ended
  <1>7. SharedTypes'
    BY <1>2 DEF Sharing, SharedTypes
  <1>8. (case \in Cases /\ Shared(case))'
    BY DEF Sharing, Shared
  <1> QED BY <1>4, <1>6, <1>7, <1>8 DEF Sharing

\* What a killed program was writing is of no package: it was killed elsewhere.
LEMMA SharedKilled ==
  ASSUME CasesOK, Sharing, NEW p \in Program, Killed(p)
  PROVE  Sharing'
  <1>1. /\ MoveOn(p, "killed") /\ flag' = {} /\ UNCHANGED <<case, job>>
        /\ cache' = [n \in Item |-> [cache[n] EXCEPT !.content = Left(p, cache[n].content)]]
        /\ modules' = [n \in Item |-> [modules[n] EXCEPT !.content = Left(p, modules[n].content)]]
        /\ \A n \in Item : job[p][n] \in case.killed
    BY DEF Killed, Sharing, SharedTypes
  <1>2. \A n \in Package : job[p][n] \notin AtFolder
    BY <1>1 DEF Sharing, Shared, FilledAtOnce, AtFolder, Item
  <1>3. /\ cache \in [Item -> Folder] /\ modules = [n \in Item |-> NoModule]
    BY DEF Sharing, SharedTypes
  <1>4. "none" \notin Program /\ "part" \in Content
    BY DEF CasesOK, ConstantsOK, Content
  <1>5. \A n \in Item : cache'[n] \in Folder /\ cache'[n].there = cache[n].there
    <2> SUFFICES ASSUME NEW n \in Item PROVE cache'[n] \in Folder /\ cache'[n].there = cache[n].there
      OBVIOUS
    <2>1. cache'[n] = [cache[n] EXCEPT !.content = Left(p, cache[n].content)] /\ cache[n] \in Folder
      BY <1>1, <1>3
    <2>2. Left(p, cache[n].content) \in Content
      BY <1>4, <2>1 DEF Left, Folder
    <2> QED BY <2>1, <2>2 DEF Folder
  <1>6. cache' \in [Item -> Folder]
    BY <1>1, <1>5
  <1>7. \A n \in Package : cache'[n] = cache[n]
    <2> SUFFICES ASSUME NEW n \in Package PROVE cache'[n] = cache[n]
      OBVIOUS
    <2>1. n \in Item /\ SharedFolder(n) /\ cache[n] \in Folder
      BY <1>3 DEF Item, Sharing
    <2>2. cache[n].content # p
      BY <1>2, <2>1 DEF SharedFolder, AtFolder
    <2>3. cache'[n] = [cache[n] EXCEPT !.content = cache[n].content]
      BY <1>1, <2>1, <2>2 DEF Left
    <2> QED BY <2>1, <2>3 DEF Folder
  <1>8. modules' = modules
    <2>1. \A n \in Item : [modules[n] EXCEPT !.content = Left(p, modules[n].content)] = NoModule
      BY <1>3, <1>4 DEF NoModule, Left
    <2> QED BY <1>1, <1>3, <2>1
  <1>9. "killed" \in Stage \ {"start", "waiting"}
    BY DEF Stage
  <1> QED BY <1>1, <1>2, <1>5, <1>6, <1>7, <1>8, <1>9, SharedMoved

LEMMA SharedInit ==
  ASSUME CasesOK, Init, Shared(case)
  PROVE  Sharing
  <1>1. /\ case \in Cases /\ flag = {} /\ modules = [n \in Item |-> NoModule]
        /\ \A p \in Program :
              /\ program[p] = [pc |-> "start", round |-> 1, reloaded |-> {}, fetched |-> {}, again |-> FALSE]
              /\ \A n \in Item : job[p][n] = "todo"
        /\ \A n \in Item : cache[n] \in {CachedFolder, NoFolder}
    BY DEF Init
  <1>2. CachedFolder \in Folder /\ NoFolder \in Folder
    BY DEF CachedFolder, NoFolder, Folder, Content
  <1>3. SharedTypes
    <2>1. cache \in [Item -> Folder]
      BY <1>2 DEF Init
    <2>2. [pc |-> "start", round |-> 1, reloaded |-> {}, fetched |-> {}, again |-> FALSE] \in ProgramState
      BY DEF ProgramState, Stage
    <2>3. program \in [Program -> ProgramState]
      BY <2>2 DEF Init
    <2>4. job \in [Program -> [Item -> ItemStage]]
      BY DEF Init, ItemStage
    <2> QED BY <1>1, <2>1, <2>3, <2>4 DEF SharedTypes
  <1>4. \A p \in Program : SharedProgram(p)
    BY <1>1 DEF SharedProgram, SharedStage, ItemStage, Placed, Item
  <1>5. "whole" \notin Program /\ "part" \notin Program /\ "none" \notin Program
    BY DEF CasesOK, ConstantsOK
  <1>6. \A n \in Package : SharedFolder(n)
    <2>1. \A n \in Package : n \in Item
      BY DEF Item
    <2> QED BY <1>1, <1>5, <2>1 DEF SharedFolder, CachedFolder, NoFolder
  <1> QED BY <1>1, <1>3, <1>4, <1>6 DEF Sharing

LEMMA SharedNext ==
  ASSUME CasesOK, Sharing, [Next]_vars
  PROVE  Sharing'
  <1>0. /\ case.rounds = 1 /\ flag = {} /\ cache \in [Item -> Folder]
        /\ \A p \in Program : ~InModules(p) /\ SharedProgram(p)
        /\ \A n \in Package : n \in Item
    BY DEF Sharing, Shared, SharedTypes, InModules, Item
  <1>1. CASE UNCHANGED vars
    BY <1>1 DEF vars, Sharing, Shared, SharedTypes, SharedProgram, SharedFolder, Busy, Ended
  <1>2. ASSUME NEW p \in Program, Step(p) PROVE Sharing'
    <2>1. CASE Call(p)
      <3>1. /\ MoveOn(p, "packages") /\ UNCHANGED <<case, modules, job, cache, flag>> /\ program[p].pc = "start"
        BY <1>0, <2>1 DEF Call
      <3>2. \A n \in Copy : job[p][n] = "todo"
        BY <1>0, <3>1 DEF SharedProgram, Item
      <3>3. "packages" \in Stage \ {"start", "waiting"}
        BY DEF Stage
      <3> QED BY <1>0, <3>1, <3>2, <3>3, SharedMoved
    <2>2. ~Flag(p)
      BY <1>0 DEF Flag, SharedProgram
    <2>3. CASE AllPackages(p) \/ AllCopies(p)
      <3>1. PICK goal \in {"copies", "links", "failed"} :
               /\ MoveOn(p, goal) /\ UNCHANGED <<case, modules, job, cache>> /\ flag' = {}
               /\ goal # "failed" => \A n \in Package : job[p][n] = "done"
               /\ \A n \in Package : job[p][n] \in {"done", "error"}
        <4>1. CASE AllPackages(p)
          <5>1. \A n \in Package : job[p][n] \in {"done", "error"}
            BY <4>1 DEF AllPackages, Waited, Results
          <5>2. "error" \notin Results(p, Package) => \A n \in Package : job[p][n] = "done"
            BY <5>1 DEF Results
          <5> QED BY <1>0, <4>1, <5>1, <5>2 DEF AllPackages
        <4>2. CASE AllCopies(p)
          <5>1. \A n \in Package : job[p][n] = "done"
            BY <1>0, <4>2 DEF AllCopies, SharedProgram
          <5> QED BY <1>0, <4>2, <5>1 DEF AllCopies
        <4> QED BY <2>3, <4>1, <4>2
      <3>2. goal \in Stage \ {"start", "waiting"} /\ goal # "packages"
        BY DEF Stage
      <3>3. \A n \in Package : job[p][n] \notin AtFolder
        BY <3>1 DEF AtFolder
      <3> QED BY <1>0, <3>1, <3>2, <3>3, SharedMoved
    <2>4. CASE Links(p)
      <3>1. program[p].pc = "links" /\ program[p].round = 1
        BY <1>0, <2>4 DEF Links, SharedProgram
      <3>2. MoveOn(p, "done") /\ UNCHANGED <<case, modules, job, cache>> /\ flag' = {}
        BY <1>0, <2>4, <3>1 DEF Links
      <3>3. \A n \in Package : job[p][n] \notin AtFolder
        BY <1>0, <3>1 DEF SharedProgram, AtFolder
      <3>4. "done" \in Stage \ {"start", "waiting"}
        BY DEF Stage
      <3> QED BY <1>0, <3>2, <3>3, <3>4, SharedMoved
    <2>5. CASE program[p].pc \in {"packages", "copies"} /\ \E n \in Item : ItemStep(p, n)
      BY <2>5, SharedItem
    <2> QED BY <1>2, <2>1, <2>2, <2>3, <2>4, <2>5 DEF Step
  <1>3. ASSUME NEW p \in Program, Killed(p) PROVE Sharing'
    BY <1>3, SharedKilled
  <1> QED BY <1>1, <1>2, <1>3 DEF Next

\* A folder is whole, or some program is at it, which does not end before.
WholeOrAttended ==
    \A n \in Package : cache[n].there =>
        (cache[n].content = "whole" /\ ~cache[n].lock) \/ Attended(n)
LEMMA SharedWhole ==
  ASSUME CasesOK, Sharing
  PROVE  WholeOrAttended
  <1> SUFFICES ASSUME NEW n \in Package, cache[n].there
               PROVE  (cache[n].content = "whole" /\ ~cache[n].lock) \/ Attended(n)
    BY DEF WholeOrAttended
  <1>1. SharedFolder(n) /\ cache[n].content \in {"none", "part", "whole"} \cup Program /\ Shared(case)
    BY DEF Sharing, SharedTypes, Folder, Content, Item
  <1>2. cache[n].content \in Program => Busy(n, {"write"})
    BY <1>1 DEF SharedFolder, Busy
  <1>3. Busy(n, {"write"}) \/ Busy(n, {"lock", "extract"}) \/ Busy(n, {"extract", "write", "unlock"}) =>
            Busy(n, {"lock", "extract", "write", "unlock"})
    BY DEF Busy
  <1> QED BY <1>1, <1>2, <1>3 DEF SharedFolder, Attended

LEMMA SharedSound ==
  ASSUME CasesOK, Sharing
  PROVE  TypeOK /\ CacheWhole /\ ModulesWhole /\ OncePerRun
  <1>1. cache \in [Item -> Folder] /\ flag = {} /\ modules = [n \in Item |-> NoModule] /\ Shared(case)
    BY DEF Sharing, SharedTypes
  <1>2. NoModule \in [init : BOOLEAN, content : Content] /\ ~NoModule.init
    BY DEF NoModule, Content
  <1>3. TypeOK
    <2>1. Cardinality(flag) <= 1
      BY <1>1, FS_EmptySet
    <2> QED BY <1>1, <1>2, <2>1 DEF TypeOK, Folder
  <1>4. \A n \in Copy : Attended(n)
    BY <1>1 DEF Attended
  <1>5. CacheWhole
    BY <1>4, SharedWhole DEF WholeOrAttended, CacheWhole, Item
  <1>6. ModulesWhole
    BY <1>1, <1>2 DEF ModulesWhole
  <1>7. OncePerRun
    BY DEF OncePerRun, Sharing, SharedProgram
  <1> QED BY <1>3, <1>5, <1>6, <1>7

LEMMA SharedDone ==
  ASSUME CasesOK, Sharing, [Next]_vars
  PROVE  [DoneStep]_vars
  <1> SUFFICES ASSUME Next, NEW p \in Program, program'[p].pc = "done", program[p].pc # "done"
               PROVE  Whole(p)'
    BY DEF DoneStep
  <1>1. Links(p)
    BY OnlyLinks DEF Sharing, SharedTypes
  <1>2. Sharing'
    BY SharedNext
  <1>3. ~InModules(p)' /\ \A n \in Copy : Attended(n)'
    BY <1>2 DEF Sharing, Shared, InModules, Attended
  <1>4. SharedProgram(p) /\ program[p].pc = "links" /\ cache' = cache
    BY <1>1 DEF Links, Sharing
  <1>5. \A n \in Package : cache'[n].there
    BY <1>4 DEF SharedProgram, Placed, Item
  <1>6. WholeOrAttended'
    BY <1>2, SharedWhole, PTL
  <1> QED BY <1>3, <1>5, <1>6 DEF WholeOrAttended, Whole, Item

-----------------------------------------------------------------------------
(* The theorems                                                            *)

\* The invariant of a case, whichever it is
CaseInv == (Serial(case) /\ Inv) \/ Sharing

LEMMA CaseInit ==
  ASSUME CasesOK, Init
  PROVE  CaseInv
  <1>1. Serial(case) \/ Shared(case)
    BY DEF CasesOK, Stands, Init
  <1> QED BY <1>1, InitInv, SharedInit DEF CaseInv

LEMMA CaseNext ==
  ASSUME CasesOK, CaseInv, [Next]_vars
  PROVE  CaseInv'
  <1>1. CASE Inv
    <2>1. Inv'
      BY <1>1, NextInv
    <2> QED BY <2>1 DEF CaseInv, Inv, Typed
  <1>2. CASE Sharing
    BY <1>2, SharedNext DEF CaseInv
  <1> QED BY <1>1, <1>2 DEF CaseInv

LEMMA CaseSound ==
  ASSUME CasesOK, CaseInv
  PROVE  TypeOK /\ CacheWhole /\ ModulesWhole /\ OncePerRun
  <1>1. CASE Inv
    <2>1. TypeOK /\ UnlockedWhole /\ ModulesWhole /\ OncePerRun
      BY <1>1, InvSound
    <2> QED BY <2>1 DEF UnlockedWhole, CacheWhole
  <1> QED BY <1>1, SharedSound DEF CaseInv

LEMMA CaseDone ==
  ASSUME CasesOK, CaseInv, [Next]_vars
  PROVE  [DoneStep]_vars
  BY DoneSound, SharedDone DEF CaseInv

\* cache_packages and with_folder_sync_lock, for any programs and packages, in the cases of
\* Stands: a folder without the lock file is whole, or, where programs fill the cache at once,
\* one of them is at it (of copies, nothing is said there); one with .initialized is whole too,
\* but where it is written again; and what has been downloaded in a run is not downloaded again.
THEOREM FoldersWhole ==
  ASSUME CasesOK
  PROVE  Spec => [](TypeOK /\ CacheWhole /\ ModulesWhole /\ OncePerRun)
  <1>1. CasesOK /\ Init => CaseInv
    BY CaseInit
  <1>2. CasesOK /\ CaseInv /\ [Next]_vars => CaseInv'
    BY CaseNext
  <1>3. CasesOK /\ CaseInv => TypeOK /\ CacheWhole /\ ModulesWhole /\ OncePerRun
    BY CaseSound
  <1> QED BY <1>1, <1>2, <1>3, PTL DEF Spec

\* When cache_packages returns without an error, in the cases of Stands, each package is whole
\* and in place, or another program is about to make it so.
THEOREM DoneIsWhole ==
  ASSUME CasesOK
  PROVE  Spec => DoneWhole
  <1>1. CasesOK /\ Init => CaseInv
    BY CaseInit
  <1>2. CasesOK /\ CaseInv /\ [Next]_vars => CaseInv'
    BY CaseNext
  <1>3. CasesOK /\ CaseInv /\ [Next]_vars => [DoneStep]_vars
    BY CaseDone
  <1> QED BY <1>1, <1>2, <1>3, PTL DEF Spec, DoneWhole

=============================================================================
