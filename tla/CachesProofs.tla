--------------------------- MODULE CachesProofs ---------------------------
(***************************************************************************)
(* What TLAPS proves of the caches (Caches): the properties of its five    *)
(* parts, each from an invariant of that part.                             *)
(*                                                                         *)
(*   CacheDb           the types, and Safe, which holds as long as one     *)
(*                     version uses the files at a time: Next is           *)
(*                     inductive for TypeOK /\ (~Overlap => Safe). Most    *)
(*                     steps are quiet: they neither write a row nor       *)
(*                     change what a handle that is connected or clearing  *)
(*                     tables relies on (QuietStep).                       *)
(*   EmitCache         Emit!Inv: what is stored, or about to be, names a   *)
(*                     source and a release that made this code of it.     *)
(*   FileFetcher       FetchInv relates a fetch to the cache that others   *)
(*                     write meanwhile: a fetch is on its way from its     *)
(*                     root along redirects (Leads), and every file in the *)
(*                     cache comes from a response that its server gave.   *)
(*                     That redirects lead somewhere is an induction over  *)
(*                     their number (LeadsStep), from the least number     *)
(*                     without the property (AllNumbers). ReloadInv is     *)
(*                     about a loader that alone reloads: the two files of *)
(*                     an entry may be of two responses after a worker has *)
(*                     stopped between them, but an entry with the ETag of *)
(*                     the current response has its content                *)
(*                     (EntryCurrent), and what the loader holds was       *)
(*                     served since it asked (Reloading).                  *)
(*   CacheSemantics    the type invariant and the arithmetic of cut-off    *)
(*                     subtraction (Since)                                 *)
(*   IncrementalCache  SkippedWasRecorded is not inductive: what a program *)
(*                     reads when it starts was written by another one's   *)
(*                     task, which had it from a channel. RecordedInv      *)
(*                     follows the text on that way: every row and every   *)
(*                     message is of something recorded under the          *)
(*                     configuration it counts for. OwedInv: what is owed  *)
(*                     is in the channel before the message that ends the  *)
(*                     task, and a task that ended owes nothing.           *)
(***************************************************************************)
EXTENDS Caches, FiniteSetTheorems, WellFoundedInduction, TLAPS

-----------------------------------------------------------------------------
(* CacheDb                                                                 *)

\* A new file is a file.
LEMMA BlankType == Blank \in Contents
  BY DEF Blank, Contents

\* A file with other rows is a file.
LEMMA RowsUpdate ==
  ASSUME NEW c \in Contents, NEW r \in [Key -> Row \cup {None}]
  PROVE  [c EXCEPT !.rows = r] \in Contents
  BY DEF Contents

\* A file that is given a version is a file.
LEMMA VersionUpdate ==
  ASSUME NEW c \in Contents, NEW v \in Version
  PROVE  [c EXCEPT !.version = v] \in Contents
  BY DEF Contents

\* Replacing one file's contents gives contents of all files.
LEMMA DiskUpdate ==
  ASSUME NEW n \in Inode, NEW c \in Contents, disk \in [Inode -> Contents]
  PROVE  [disk EXCEPT ![n] = c] \in [Inode -> Contents]
  OBVIOUS

\* Connection::open on a path without a file, and open_in_memory, give the handle a new file.
LEMMA CreatesType ==
  ASSUME NEW h \in Handle, NEW n \in Inode, Creates(h, n), TypeOK
  PROVE  /\ disk' \in [Inode -> Contents]
         /\ at' = [at EXCEPT ![h] = n]
  BY BlankType, DiskUpdate DEF Creates, TypeOK

\* The state a server starts in has the types, whatever file it finds.
LEMMA InitType == Init => TypeOK
  <1> SUFFICES ASSUME Init PROVE TypeOK
    OBVIOUS
  <1>1. file \in Inode \cup {None}
    BY ConstantsAssumption DEF Init
  <1>2. ASSUME NEW v \in Version, NEW s \in Earlier PROVE Filled(v, s) \in Contents
    <2>1. [k \in Key |-> [src |-> s, by |-> v]] \in [Key -> Row \cup {None}]
      BY ConstantsAssumption DEF Row
    <2> QED BY <2>1 DEF Filled, Contents, Blank
  <1>3. [Blank EXCEPT !.good = FALSE] \in Contents
    BY DEF Blank, Contents
  <1>4. disk \in [Inode -> Contents]
    <2>1. CASE file = None
      BY <2>1, BlankType DEF Init
    <2>2. CASE file # None
      <3>1. PICK f \in {[Blank EXCEPT !.good = FALSE]}
                          \cup {Filled(v, s) : v \in Version, s \in Earlier} :
              disk = [n \in Inode |-> IF n = file THEN f ELSE Blank]
        BY <2>2 DEF Init
      <3>2. f \in Contents
        <4>1. CASE f = [Blank EXCEPT !.good = FALSE]
          BY <4>1, <1>3
        <4>2. ASSUME NEW v \in Version, NEW s \in Earlier, f = Filled(v, s)
              PROVE  f \in Contents
          BY <4>2, <1>2
        <4> QED BY <3>1, <4>1, <4>2
      <3> QED BY <3>1, <3>2, BlankType
    <2> QED BY <2>1, <2>2
  <1> QED
    BY <1>1, <1>4, ConstantsAssumption DEF Init, TypeOK, Attached, Placed, Live,
                                           Stages, Connections

\* Every step keeps the types, and the relation of stages, open files and analyses.
LEMMA NextType == TypeOK /\ [Next]_vars => TypeOK'
  <1> SUFFICES ASSUME TypeOK, [Next]_vars PROVE TypeOK'
    OBVIOUS
  <1> USE ConstantsAssumption
  <1>1. ASSUME NEW h \in Handle, FromPath(h) PROVE TypeOK'
    BY <1>1 DEF FromPath, TypeOK, Attached, Placed, Live, Connections, dbVars, jobVars
  <1>2. ASSUME NEW h \in Handle, Ends(h) PROVE TypeOK'
    <2>1. disk' \in [Inode -> Contents]
      BY <1>2, BlankType DEF Ends, FreeUnused, TypeOK
    <2> QED
      BY <1>2, <2>1 DEF Ends, TypeOK, Attached, Placed, Live, Connections, Stages
  <1>3. ASSUME NEW h \in Handle, NEW who \in Job \cup {Eager}, Begins(h, who) PROVE TypeOK'
    BY <1>3 DEF Begins, TypeOK, Attached, Placed, Live, Connections, Stages, Opening,
                dbVars, jobVars
  <1>4. ASSUME NEW h \in Handle, Open(h) PROVE TypeOK'
    <2>1. /\ disk' \in [Inode -> Contents]
          /\ file' \in Inode
          /\ at' = [at EXCEPT ![h] = file']
      <3>1. CASE file = None
        BY <1>4, <3>1, CreatesType DEF Open
      <3>2. CASE file # None
        BY <1>4, <3>2 DEF Open, TypeOK
      <3> QED BY <3>1, <3>2
    <2> QED
      BY <1>4, <2>1 DEF Open, ToStage, TypeOK, Attached, Placed, Live, Connections,
                        Stages, Opening, inOpening, jobVars
  <1>5. ASSUME NEW h \in Handle, SameVersion(h) PROVE TypeOK'
    BY <1>5 DEF SameVersion, ToStage, TypeOK, Attached, Placed, Live, Connections,
                Stages, Opening, inOpening, jobVars
  <1>6. ASSUME NEW h \in Handle, OtherVersion(h) PROVE TypeOK'
    BY <1>6 DEF OtherVersion, ToStage, TypeOK, Attached, Placed, Live, Connections,
                Stages, Opening, inOpening, jobVars
  <1>7. ASSUME NEW h \in Handle, Clear(h) PROVE TypeOK'
    <2>1. at[h] \in Inode
      BY <1>7 DEF Clear, TypeOK, Attached
    <2> DEFINE rows == [k \in Key |-> IF k \in Tables[cleared[h] + 1] THEN None
                                      ELSE disk[at[h]].rows[k]]
    <2>2. rows \in [Key -> Row \cup {None}] /\ disk[at[h]] \in Contents
      BY <2>1 DEF TypeOK, Contents
    <2>3. disk' = [disk EXCEPT ![at[h]] = [disk[at[h]] EXCEPT !.rows = rows]]
      BY <1>7, <2>1 DEF Clear, TypeOK
    <2>4. disk' \in [Inode -> Contents]
      BY <2>1, <2>2, <2>3, RowsUpdate, DiskUpdate DEF TypeOK
    <2> QED
      BY <1>7, <2>4 DEF Clear, TypeOK, Attached, Placed, Live, Connections, Stages,
                        Opening, inOpening, jobVars
  <1>8. ASSUME NEW h \in Handle, Mark(h) PROVE TypeOK'
    <2>1. at[h] \in Inode /\ VersionOf[h] \in Version
      BY <1>8 DEF Mark, ToStage, TypeOK, Attached
    <2>2. disk' \in [Inode -> Contents]
      <3>1. [disk[at[h]] EXCEPT !.version = VersionOf[h]] \in Contents
        BY <2>1, VersionUpdate DEF TypeOK
      <3>2. disk' = [disk EXCEPT ![at[h]] = [disk[at[h]] EXCEPT !.version = VersionOf[h]]]
        BY <1>8, <2>1 DEF Mark, TypeOK
      <3> QED BY <2>1, <3>1, <3>2, DiskUpdate DEF TypeOK
    <2> QED
      BY <1>8, <2>2 DEF Mark, ToStage, TypeOK, Attached, Placed, Live, Connections,
                        Stages, Opening, inOpening, jobVars
  <1>9. ASSUME NEW h \in Handle, Preheat(h) PROVE TypeOK'
    BY <1>9 DEF Preheat, ToStage, Opened, TypeOK, Attached, Placed, Live, Connections,
                Stages, Opening, inOpening, jobVars, dbVars
  <1>10. ASSUME NEW h \in Handle, AttemptFails(h) PROVE TypeOK'
    <2>1. disk' \in [Inode -> Contents]
      BY <1>10, BlankType DEF AttemptFails, FreeUnused, TypeOK
    <2> QED
      BY <1>10, <2>1 DEF AttemptFails, AnError, Closes, AfterFailure, TypeOK, Attached,
                         Placed, Live, Connections, Stages, Opening, inOpening, jobVars
  <1>11. ASSUME NEW h \in Handle, Remove(h) PROVE TypeOK'
    <2>1. disk' \in [Inode -> Contents]
      BY <1>11, BlankType DEF Remove, FreeUnused, TypeOK
    <2> QED
      BY <1>11, <2>1 DEF Remove, ToStage, TypeOK, Attached, Placed, Live, Connections,
                         Stages, Opening, inOpening, jobVars
  <1>12. ASSUME NEW h \in Handle, RemoveFails(h) PROVE TypeOK'
    BY <1>12 DEF RemoveFails, AnError, ToStage, TypeOK, Attached, Placed, Live,
                 Connections, Stages, Opening, inOpening, jobVars
  <1>13. ASSUME NEW h \in Handle, FallsBackToMemory(h) PROVE TypeOK'
    <2>1. PICK n \in Inode : Creates(h, n)
      BY <1>13 DEF FallsBackToMemory
    <2>2. disk' \in [Inode -> Contents] /\ at' = [at EXCEPT ![h] = n]
      BY <2>1, CreatesType
    <2> QED
      BY <1>13, <2>2 DEF FallsBackToMemory, Decided, ToStage, Failures, TypeOK,
                         Attached, Placed, Live, Connections, Stages, Opening,
                         inOpening, jobVars
  <1>14. ASSUME NEW h \in Handle, FallsBack(h) PROVE TypeOK'
    BY <1>14 DEF FallsBack, Decided, Opened, ToStage, TypeOK, Attached, Placed, Live,
                 Connections, Stages, Opening, inOpening, jobVars, Failures
  <1>15. ASSUME NEW j \in Job, NEW h \in Handle, NEW k \in Key, NEW s \in Source,
                Analyze(j, h, k, s) PROVE TypeOK'
    BY <1>15 DEF Analyze, TypeOK, Attached, Placed, Live, dbVars, optVars
  <1>16. ASSUME NEW j \in Job, Hit(j) PROVE TypeOK'
    <2>1. Stored(j) \in Row
      <3>1. on[j] \in Handle /\ key[j] \in Key /\ at[on[j]] \in Inode
        BY <1>16 DEF Hit, Found, TypeOK, Placed, Attached
      <3>2. disk[at[on[j]]].rows[key[j]] \in Row \cup {None}
        BY <3>1 DEF TypeOK, Contents
      <3> QED BY <1>16, <3>2 DEF Hit, Found, Matches, Stored
    <2> QED
    BY <1>16, <2>1 DEF Hit, WithConnection, TypeOK, Attached, Placed, Live, dbVars,
                       optVars, jobVars
  <1>17. ASSUME NEW j \in Job, Miss(j) PROVE TypeOK'
    BY <1>17 DEF Miss, WithConnection, Found, Analysis, Row, AnError, TypeOK, Attached,
                 Placed, Live, dbVars, optVars, jobVars
  <1>18. ASSUME NEW j \in Job, Set(j) PROVE TypeOK'
    <2>1. disk' \in [Inode -> Contents]
      <3>1. CASE UNCHANGED disk
        BY <3>1 DEF TypeOK
      <3>2. CASE /\ conn[on[j]] = "connected"
                 /\ disk' = [disk EXCEPT ![at[on[j]]].rows[key[j]] = result[j]]
        <4>1. at[on[j]] \in Inode /\ key[j] \in Key /\ result[j] \in Row
          BY <1>18, <3>2 DEF Set, TypeOK, Attached, Placed
        <4> DEFINE c == disk[at[on[j]]]
                   r == [c.rows EXCEPT ![key[j]] = result[j]]
        <4>2. c \in Contents /\ r \in [Key -> Row \cup {None}]
          BY <4>1 DEF TypeOK, Contents
        <4>3. disk' = [disk EXCEPT ![at[on[j]]] = [c EXCEPT !.rows = r]]
          BY <3>2, <4>1 DEF TypeOK
        <4>4. [c EXCEPT !.rows = r] \in Contents
          BY <4>2, RowsUpdate
        <4> QED BY <4>1, <4>3, <4>4, DiskUpdate DEF TypeOK
      <3> QED BY <1>18, <3>1, <3>2 DEF Set
    <2> QED
      BY <1>18, <2>1 DEF Set, WithConnection, AnError, TypeOK, Attached, Placed, Live,
                         optVars, jobVars
  <1>19. CASE UNCHANGED vars
    BY <1>19 DEF TypeOK, Attached, Placed, Live, vars, dbVars, optVars, jobVars
  <1>20. ASSUME NEW h \in Handle, InitThread(h) PROVE TypeOK'
    BY <1>3, <1>20 DEF InitThread
  <1>21. ASSUME NEW j \in Job, JobBegins(j) PROVE TypeOK'
    <2>1. on[j] \in Handle
      BY <1>21 DEF JobBegins, TypeOK, Placed
    <2> QED BY <1>3, <1>21, <2>1 DEF JobBegins
  <1> QED
    BY <1>1, <1>2, <1>4, <1>5, <1>6, <1>7, <1>8, <1>9, <1>10, <1>11, <1>12, <1>13,
       <1>14, <1>15, <1>16, <1>17, <1>18, <1>19, <1>20, <1>21
    DEF Next, HandleStep, OpenStep, JobStep, Finished, NoHandle

-----------------------------------------------------------------------------
\* A file left by earlier servers has rows of the version that it names.
LEMMA InitInv == Init => Inv
  <1> SUFFICES ASSUME Init PROVE Inv
    OBVIOUS
  <1>1. TypeOK
    BY InitType
  <1>2. OneVersion /\ (\A h \in Handle : Trusts(h) /\ Clears(h)) /\ ResultsRight
    BY DEF Init, OneVersion, Live, Trusts, Clears, ResultsRight
  <1>3. RowsOfVersion
    <2> SUFFICES ASSUME NEW n \in Inode, NEW k \in Key, disk[n].rows[k] # None
                 PROVE  disk[n].rows[k].by = disk[n].version
      BY DEF RowsOfVersion
    <2>1. disk[n] # Blank /\ disk[n] # [Blank EXCEPT !.good = FALSE]
      BY DEF Blank
    <2>2. file # None
      BY <2>1 DEF Init
    <2>3. PICK f \in {[Blank EXCEPT !.good = FALSE]}
                        \cup {Filled(v, s) : v \in Version, s \in Earlier} :
            disk = [m \in Inode |-> IF m = file THEN f ELSE Blank]
      BY <2>2 DEF Init
    <2>4. disk[n] = f
      BY <2>1, <2>3
    <2>5. PICK v \in Version, s \in Earlier : f = Filled(v, s)
      BY <2>1, <2>4
    <2>6. disk[n].version = v /\ disk[n].rows = [q \in Key |-> [src |-> s, by |-> v]]
      BY <2>4, <2>5 DEF Filled, Blank
    <2> QED BY <2>6
  <1> QED BY <1>1, <1>2, <1>3 DEF Inv, Safe

\* A step of h that writes nothing, and at most empties files that no other
\* handle has, leaves every file with rows of its version, and the other
\* handles with what they rely on.
LEMMA QuietStep ==
  ASSUME TypeOK, TypeOK', Safe, NEW h \in Handle,
         \A n \in Inode : \/ disk'[n] = disk[n]
                          \/ disk'[n] = Blank /\ \A g \in Handle \ {h} : at[g] # n,
         \A g \in Handle \ {h} : /\ stage'[g] = stage[g] /\ conn'[g] = conn[g]
                                 /\ at'[g] = at[g] /\ cleared'[g] = cleared[g]
  PROVE  /\ RowsOfVersion'
         /\ \A g \in Handle \ {h} : Trusts(g)' /\ Clears(g)'
  <1>1. RowsOfVersion'
    BY DEF RowsOfVersion, Safe, Blank
  <1>2. ASSUME NEW g \in Handle \ {h} PROVE Trusts(g)' /\ Clears(g)'
    <2>1. Trusts(g) /\ Clears(g)
      BY DEF Safe
    <2>2. CASE at[g] = None
      <3>1. ~(stage[g] = "preheat" \/ conn[g] = "connected") /\ stage[g] # "clear"
        BY <2>2 DEF TypeOK, Attached
      <3> QED BY <1>2, <2>1, <3>1 DEF Trusts, Clears
    <2>3. CASE at[g] # None
      <3>1. at[g] \in Inode /\ disk'[at[g]] = disk[at[g]]
        BY <1>2, <2>3 DEF TypeOK
      <3> QED BY <1>2, <2>1, <3>1 DEF Trusts, Clears
    <2> QED BY <2>2, <2>3
  <1> QED BY <1>1, <1>2

\* Files that are freed are no handle's.
LEMMA FreeIsQuiet ==
  ASSUME TypeOK, TypeOK', NEW h \in Handle, FreeUnused,
         \A g \in Handle \ {h} : at'[g] = at[g]
  PROVE  \A n \in Inode : \/ disk'[n] = disk[n]
                          \/ disk'[n] = Blank /\ \A g \in Handle \ {h} : at[g] # n
  BY DEF FreeUnused, Free, TypeOK

\* A file that is made is no other handle's.
LEMMA CreateIsQuiet ==
  ASSUME TypeOK, NEW h \in Handle, NEW m \in Inode, Creates(h, m)
  PROVE  \A n \in Inode : \/ disk'[n] = disk[n]
                          \/ disk'[n] = Blank /\ \A g \in Handle \ {h} : at[g] # n
  BY DEF Creates, Free, TypeOK

\* No step but FromPath adds a handle.
LEMMA KeepsOneVersion ==
  ASSUME Safe, \A g \in Handle : Live(g)' => Live(g)
  PROVE  OneVersion'
  BY DEF Safe, OneVersion

\* Steps of a handle's initialization do not touch the analyses.
LEMMA KeepsResults ==
  ASSUME Safe, UNCHANGED <<pc, jobVars, result>>
  PROVE  ResultsRight'
  BY DEF Safe, ResultsRight, Analysis, jobVars

\* Every step keeps the invariant.
LEMMA NextInv == Inv /\ [Next]_vars => Inv'
  <1> SUFFICES ASSUME TypeOK, TypeOK', Safe, ~Overlap, [Next]_vars PROVE Safe'
    BY NextType DEF Inv
  <1> USE ConstantsAssumption
  <1>1. ASSUME NEW h \in Handle, FromPath(h) PROVE Safe'
    <2>1. OneVersion'
      BY <1>1 DEF FromPath, OneVersion, Safe, Live, TypeOK
    <2>2. RowsOfVersion' /\ \A g \in Handle \ {h} : Trusts(g)' /\ Clears(g)'
      BY <1>1, QuietStep DEF FromPath, TypeOK, dbVars
    <2>3. Trusts(h)' /\ Clears(h)'
      BY <1>1 DEF FromPath, dbVars, Safe, Trusts, Clears, TypeOK
    <2>4. ResultsRight'
      BY <1>1, KeepsResults DEF FromPath
    <2> QED BY <2>1, <2>2, <2>3, <2>4 DEF Safe
  <1>2. ASSUME NEW h \in Handle, Ends(h) PROVE Safe'
    <2>1. OneVersion'
      BY <1>2, KeepsOneVersion DEF Ends, Live, TypeOK
    <2>2. RowsOfVersion' /\ \A g \in Handle \ {h} : Trusts(g)' /\ Clears(g)'
      BY <1>2, QuietStep, FreeIsQuiet DEF Ends, TypeOK
    <2>3. Trusts(h)' /\ Clears(h)'
      BY <1>2 DEF Ends, Trusts, Clears, TypeOK
    <2>4. ResultsRight'
      BY <1>2 DEF Ends, Safe, ResultsRight, Analysis, TypeOK
    <2> QED BY <2>1, <2>2, <2>3, <2>4 DEF Safe
  <1>3. ASSUME NEW h \in Handle, NEW who \in Job \cup {Eager}, Begins(h, who) PROVE Safe'
    <2>1. OneVersion'
      BY <1>3, KeepsOneVersion DEF Begins, Live
    <2>2. RowsOfVersion' /\ \A g \in Handle \ {h} : Trusts(g)' /\ Clears(g)'
      BY <1>3, QuietStep DEF Begins, TypeOK, dbVars
    <2>3. Trusts(h)' /\ Clears(h)'
      BY <1>3 DEF Begins, dbVars, Safe, Trusts, Clears, TypeOK, Attached
    <2>4. ResultsRight'
      BY <1>3, KeepsResults DEF Begins
    <2> QED BY <2>1, <2>2, <2>3, <2>4 DEF Safe
  <1>4. ASSUME NEW h \in Handle, Open(h) PROVE Safe'
    <2>1. OneVersion'
      BY <1>4, KeepsOneVersion DEF Open, Live
    <2>2. \A n \in Inode : \/ disk'[n] = disk[n]
                           \/ disk'[n] = Blank /\ \A g \in Handle \ {h} : at[g] # n
      BY <1>4, CreateIsQuiet DEF Open
    <2>3. \A g \in Handle \ {h} : at'[g] = at[g]
      BY <1>4 DEF Open, Creates, TypeOK
    <2>4. RowsOfVersion' /\ \A g \in Handle \ {h} : Trusts(g)' /\ Clears(g)'
      BY <1>4, <2>2, <2>3, QuietStep DEF Open, ToStage, TypeOK
    <2>5. Trusts(h)' /\ Clears(h)'
      BY <1>4 DEF Open, ToStage, Safe, Trusts, Clears, TypeOK, Attached
    <2>6. ResultsRight'
      BY <1>4, KeepsResults DEF Open, inOpening
    <2> QED BY <2>1, <2>4, <2>5, <2>6 DEF Safe
  <1>5. ASSUME NEW h \in Handle, SameVersion(h) \/ OtherVersion(h) PROVE Safe'
    <2>1. OneVersion'
      BY <1>5, KeepsOneVersion DEF SameVersion, OtherVersion, Live
    <2>2. RowsOfVersion' /\ \A g \in Handle \ {h} : Trusts(g)' /\ Clears(g)'
      BY <1>5, QuietStep DEF SameVersion, OtherVersion, ToStage, TypeOK
    <2>3. Trusts(h)' /\ Clears(h)'
      BY <1>5 DEF SameVersion, OtherVersion, ToStage, Safe, Trusts, Clears, TypeOK, Attached
    <2>4. ResultsRight'
      BY <1>5, KeepsResults DEF SameVersion, OtherVersion, inOpening
    <2> QED BY <2>1, <2>2, <2>3, <2>4 DEF Safe
  <1>6. ASSUME NEW h \in Handle, Clear(h) PROVE Safe'
    <2> DEFINE n == at[h]
               i == cleared[h] + 1
    <2>1. /\ n \in Inode /\ stage[h] = "clear" /\ i \in 1..Len(Tables)
          /\ cleared' = [cleared EXCEPT ![h] = i]
      BY <1>6 DEF Clear, TypeOK, Attached
    <2>2. /\ \A m \in Inode : disk'[m].version = disk[m].version
          /\ \A m \in Inode \ {n} : disk'[m].rows = disk[m].rows
          /\ \A k \in Key : disk'[n].rows[k] =
                              IF k \in Tables[i] THEN None ELSE disk[n].rows[k]
      BY <1>6, <2>1 DEF Clear, TypeOK, Contents
    <2>3. OneVersion'
      BY <1>6, KeepsOneVersion DEF Clear, Live
    <2>4. RowsOfVersion'
      BY <2>2 DEF Safe, RowsOfVersion
    <2>5. ASSUME NEW g \in Handle PROVE Trusts(g)' /\ Clears(g)'
      <3>1. Trusts(g)'
        <4> SUFFICES ASSUME (stage[g] = "preheat" \/ conn[g] = "connected")'
                     PROVE  disk'[at'[g]].version = VersionOf[g]
          BY DEF Trusts
        <4>1. at[g] \in Inode /\ disk[at[g]].version = VersionOf[g] /\ at'[g] = at[g]
          BY <1>6 DEF Clear, Safe, Trusts, TypeOK, Attached
        <4> QED BY <2>2, <4>1
      <3>2. Clears(g)'
        <4>1. CASE stage[g] # "clear"
          BY <1>6, <2>1, <4>1 DEF Clear, Safe, Clears, TypeOK
        <4>2. CASE stage[g] = "clear"
          <5>1. at[g] \in Inode /\ cleared[g] \in 0..Len(Tables)
            BY <4>2 DEF TypeOK, Attached
          <5>2. ASSUME NEW l \in 1..cleared'[g], NEW k \in Tables[l], disk'[at[g]].rows[k] # None
                PROVE  disk'[at[g]].rows[k].by = VersionOf[g]
            <6>1. k \in Key
              BY <5>1, <2>1
            <6>2. disk'[at[g]].rows[k] = disk[at[g]].rows[k] /\ ~(at[g] = n /\ k \in Tables[i])
              BY <2>2, <5>1, <5>2, <6>1
            <6>3. l \in 1..cleared[g]
              <7>1. CASE g = h
                BY <2>1, <5>1, <6>2, <7>1 DEF TypeOK
              <7>2. CASE g # h
                BY <2>1, <7>2 DEF TypeOK
              <7> QED BY <7>1, <7>2
            <6> QED BY <4>2, <5>2, <6>2, <6>3 DEF Safe, Clears
          <5> QED BY <1>6, <4>2, <5>2 DEF Clears, Clear
        <4> QED BY <4>1, <4>2
      <3> QED BY <3>1, <3>2
    <2>6. ResultsRight'
      BY <1>6, KeepsResults DEF Clear, inOpening
    <2> QED BY <2>3, <2>4, <2>5, <2>6 DEF Safe
  <1>7. ASSUME NEW h \in Handle, Mark(h) PROVE Safe'
    <2> DEFINE n == at[h]
    <2>1. n \in Inode /\ stage[h] = "clear" /\ cleared[h] = Len(Tables) /\ Live(h)
      BY <1>7 DEF Mark, ToStage, AllCleared, TypeOK, Attached, Live
    <2>2. /\ \A m \in Inode : disk'[m].rows = disk[m].rows
          /\ \A m \in Inode \ {n} : disk'[m].version = disk[m].version
          /\ disk'[n].version = VersionOf[h]
      BY <1>7, <2>1 DEF Mark, TypeOK, Contents
    <2>3. OneVersion'
      BY <1>7, KeepsOneVersion DEF Mark, Live
    <2>4. \A k \in Key : disk[n].rows[k] # None => disk[n].rows[k].by = VersionOf[h]
      <3> SUFFICES ASSUME NEW k \in Key, disk[n].rows[k] # None
                   PROVE  disk[n].rows[k].by = VersionOf[h]
        OBVIOUS
      <3>1. PICK i \in 1..Len(Tables) : k \in Tables[i]
        OBVIOUS
      <3> QED BY <2>1, <3>1 DEF Safe, Clears
    <2>5. RowsOfVersion'
      BY <2>2, <2>4 DEF Safe, RowsOfVersion
    <2>6. ASSUME NEW g \in Handle PROVE Trusts(g)' /\ Clears(g)'
      <3>1. Trusts(g)'
        <4> SUFFICES ASSUME (stage[g] = "preheat" \/ conn[g] = "connected")'
                     PROVE  disk'[at'[g]].version = VersionOf[g]
          BY DEF Trusts
        <4>1. CASE g = h
          BY <1>7, <2>2, <4>1 DEF Mark
        <4>2. CASE g # h
          <5>1. at[g] \in Inode /\ disk[at[g]].version = VersionOf[g] /\ at'[g] = at[g] /\ Live(g)
            <6>1. (stage[g] = "preheat" \/ conn[g] = "connected") /\ at'[g] = at[g]
              BY <1>7, <4>2 DEF Mark, ToStage, TypeOK
            <6>2. at[g] \in Inode /\ Live(g)
              BY <6>1 DEF TypeOK, Attached, Live
            <6> QED BY <6>1, <6>2 DEF Safe, Trusts
          <5>2. VersionOf[g] = VersionOf[h]
            BY <2>1, <5>1 DEF Safe, OneVersion
          <5> QED BY <2>2, <5>1, <5>2
        <4> QED BY <4>1, <4>2
      <3>2. Clears(g)'
        <4>1. CASE stage'[g] # "clear"
          BY <1>7, <4>1 DEF Mark, ToStage, Safe, Clears, TypeOK
        <4>2. CASE stage'[g] = "clear"
          <5>1. g # h /\ stage[g] = "clear" /\ at[g] \in Inode
            BY <1>7, <4>2 DEF Mark, ToStage, TypeOK, Attached
          <5> QED BY <1>7, <2>2, <4>2, <5>1 DEF Mark, Safe, Clears, TypeOK
        <4> QED BY <4>1, <4>2
      <3> QED BY <3>1, <3>2
    <2>7. ResultsRight'
      BY <1>7, KeepsResults DEF Mark, inOpening
    <2> QED BY <2>3, <2>5, <2>6, <2>7 DEF Safe
  <1>8. ASSUME NEW h \in Handle, Preheat(h) PROVE Safe'
    <2>1. OneVersion'
      BY <1>8, KeepsOneVersion DEF Preheat, Opened, Live, TypeOK, Attached, ToStage
    <2>2. RowsOfVersion' /\ \A g \in Handle \ {h} : Trusts(g)' /\ Clears(g)'
      BY <1>8, QuietStep DEF Preheat, ToStage, Opened, TypeOK, dbVars
    <2>3. Trusts(h)' /\ Clears(h)'
      BY <1>8 DEF Preheat, ToStage, dbVars, Safe, Trusts, Clears, TypeOK
    <2>4. ResultsRight'
      BY <1>8, KeepsResults DEF Preheat, inOpening
    <2> QED BY <2>1, <2>2, <2>3, <2>4 DEF Safe
  <1>9. ASSUME NEW h \in Handle, AttemptFails(h) PROVE Safe'
    <2>1. OneVersion'
      BY <1>9, KeepsOneVersion DEF AttemptFails, Live
    <2>2. RowsOfVersion' /\ \A g \in Handle \ {h} : Trusts(g)' /\ Clears(g)'
      BY <1>9, QuietStep, FreeIsQuiet DEF AttemptFails, Closes, TypeOK
    <2>3. stage'[h] \in {"open", "remove", "fallback"} /\ conn'[h] # "connected"
      <3>1. tries[h] = 1 \/ tries[h] = 2 \/ tries[h] = 3
        BY <1>9 DEF AttemptFails
      <3>2. AfterFailure(h) \in {"open", "remove", "fallback"}
        BY <3>1 DEF AfterFailure
      <3>3. stage[h] # "none"
        BY <1>9 DEF AttemptFails, Opening
      <3> QED BY <1>9, <3>2, <3>3 DEF AttemptFails, TypeOK, Attached
    <2>4. Trusts(h)' /\ Clears(h)'
      BY <1>9, <2>3 DEF AttemptFails, Trusts, Clears, TypeOK
    <2>5. ResultsRight'
      BY <1>9, KeepsResults DEF AttemptFails, inOpening
    <2> QED BY <2>1, <2>2, <2>4, <2>5 DEF Safe
  <1>10. ASSUME NEW h \in Handle, Remove(h) PROVE Safe'
    <2>1. OneVersion'
      BY <1>10, KeepsOneVersion DEF Remove, Live
    <2>2. RowsOfVersion' /\ \A g \in Handle \ {h} : Trusts(g)' /\ Clears(g)'
      BY <1>10, QuietStep, FreeIsQuiet DEF Remove, ToStage, TypeOK
    <2>3. Trusts(h)' /\ Clears(h)'
      BY <1>10 DEF Remove, ToStage, Safe, Trusts, Clears, TypeOK, Attached
    <2>4. ResultsRight'
      BY <1>10, KeepsResults DEF Remove, inOpening
    <2> QED BY <2>1, <2>2, <2>3, <2>4 DEF Safe
  <1>11. ASSUME NEW h \in Handle, RemoveFails(h) PROVE Safe'
    <2>1. OneVersion'
      BY <1>11, KeepsOneVersion DEF RemoveFails, Live
    <2>2. RowsOfVersion' /\ \A g \in Handle \ {h} : Trusts(g)' /\ Clears(g)'
      BY <1>11, QuietStep DEF RemoveFails, ToStage, TypeOK
    <2>3. Trusts(h)' /\ Clears(h)'
      BY <1>11 DEF RemoveFails, ToStage, Safe, Trusts, Clears, TypeOK, Attached
    <2>4. ResultsRight'
      BY <1>11, KeepsResults DEF RemoveFails, inOpening
    <2> QED BY <2>1, <2>2, <2>3, <2>4 DEF Safe
  <1>12. ASSUME NEW h \in Handle, FallsBackToMemory(h) PROVE Safe'
    <2>1. PICK n \in Inode : Creates(h, n)
      BY <1>12 DEF FallsBackToMemory
    <2>2. OneVersion'
      BY <1>12, KeepsOneVersion DEF FallsBackToMemory, Live
    <2>3. \A g \in Handle \ {h} : at'[g] = at[g]
      BY <2>1 DEF Creates, TypeOK
    <2>4. RowsOfVersion' /\ \A g \in Handle \ {h} : Trusts(g)' /\ Clears(g)'
      BY <1>12, <2>1, <2>3, QuietStep, CreateIsQuiet DEF FallsBackToMemory, ToStage, TypeOK
    <2>5. Trusts(h)' /\ Clears(h)'
      BY <1>12 DEF FallsBackToMemory, ToStage, Safe, Trusts, Clears, TypeOK, Attached
    <2>6. ResultsRight'
      BY <1>12, KeepsResults DEF FallsBackToMemory, inOpening
    <2> QED BY <2>2, <2>4, <2>5, <2>6 DEF Safe
  <1>13. ASSUME NEW h \in Handle, FallsBack(h) PROVE Safe'
    <2>1. OneVersion'
      BY <1>13, KeepsOneVersion DEF FallsBack, ToStage, Opened, Live, TypeOK, Attached
    <2>2. RowsOfVersion' /\ \A g \in Handle \ {h} : Trusts(g)' /\ Clears(g)'
      BY <1>13, QuietStep DEF FallsBack, ToStage, Opened, TypeOK
    <2>3. conn'[h] \in Failures /\ stage'[h] = "none"
      BY <1>13 DEF FallsBack, ToStage, Opened, Decided, TypeOK
    <2>4. Trusts(h)' /\ Clears(h)'
      BY <1>13, <2>3 DEF FallsBack, ToStage, Safe, Trusts, Clears, TypeOK, Failures
    <2>5. ResultsRight'
      BY <1>13, KeepsResults DEF FallsBack, inOpening
    <2> QED BY <2>1, <2>2, <2>4, <2>5 DEF Safe
  <1>14. ASSUME NEW j \in Job, NEW h \in Handle, NEW k \in Key, NEW s \in Source,
                Analyze(j, h, k, s) PROVE Safe'
    <2>1. ResultsRight'
      BY <1>14 DEF Analyze, Safe, ResultsRight, Analysis, TypeOK
    <2> QED
      BY <1>14, <2>1 DEF Analyze, Safe, OneVersion, Live, Trusts, Clears, RowsOfVersion,
                         dbVars, optVars
  <1>15. ASSUME NEW j \in Job, Hit(j) PROVE Safe'
    <2>1. /\ on[j] \in Handle /\ key[j] \in Key /\ at[on[j]] \in Inode
          /\ conn[on[j]] = "connected" /\ Matches(j)
      BY <1>15 DEF Hit, Found, TypeOK, Placed, Attached
    <2>2. Stored(j).by = VersionOf[on[j]]
      BY <2>1 DEF Matches, Stored, Safe, RowsOfVersion, Trusts
    <2>3. Stored(j) \in Row
      BY <2>1 DEF Matches, Stored, TypeOK, Contents
    <2>4. Stored(j) = Analysis(j)
      BY <2>1, <2>2, <2>3 DEF Matches, Analysis, Row
    <2>5. ResultsRight'
      BY <1>15, <2>4 DEF Hit, WithConnection, Safe, ResultsRight, Analysis, TypeOK, jobVars
    <2> QED
      BY <1>15, <2>5 DEF Hit, WithConnection, Safe, OneVersion, Live, Trusts, Clears,
                         RowsOfVersion, dbVars, optVars
  <1>16. ASSUME NEW j \in Job, Miss(j) PROVE Safe'
    <2>1. ResultsRight'
      BY <1>16 DEF Miss, WithConnection, Safe, ResultsRight, Analysis, TypeOK, jobVars
    <2> QED
      BY <1>16, <2>1 DEF Miss, WithConnection, Safe, OneVersion, Live, Trusts, Clears,
                         RowsOfVersion, dbVars, optVars
  <1>17. ASSUME NEW j \in Job, Set(j) PROVE Safe'
    <2>1. ResultsRight'
      BY <1>17 DEF Set, WithConnection, Safe, ResultsRight, Analysis, TypeOK, jobVars
    <2>2. OneVersion'
      BY <1>17, KeepsOneVersion DEF Set, WithConnection, optVars, Live
    <2>3. CASE UNCHANGED disk
      BY <1>17, <2>1, <2>2, <2>3 DEF Set, WithConnection, Safe, Trusts, Clears,
                                    RowsOfVersion, optVars
    <2>4. CASE /\ conn[on[j]] = "connected"
               /\ disk' = [disk EXCEPT ![at[on[j]]].rows[key[j]] = result[j]]
      <3> DEFINE h == on[j]
                 n == at[h]
      <3>1. /\ h \in Handle /\ key[j] \in Key /\ n \in Inode /\ Live(h)
            /\ result[j] = Analysis(j) /\ disk[n].version = VersionOf[h]
        BY <1>17, <2>4 DEF Set, TypeOK, Placed, Attached, Live, Safe, ResultsRight, Trusts
      <3>2. /\ \A m \in Inode : disk'[m].version = disk[m].version
            /\ \A m \in Inode \ {n} : disk'[m].rows = disk[m].rows
            /\ \A k \in Key \ {key[j]} : disk'[n].rows[k] = disk[n].rows[k]
            /\ disk'[n].rows[key[j]].by = VersionOf[h]
        BY <2>4, <3>1 DEF TypeOK, Contents, Analysis
      <3>3. RowsOfVersion'
        <4> SUFFICES ASSUME NEW m \in Inode, NEW k \in Key, disk'[m].rows[k] # None
                     PROVE  disk'[m].rows[k].by = disk'[m].version
          BY DEF RowsOfVersion
        <4>1. CASE m = n /\ k = key[j]
          BY <3>1, <3>2, <4>1
        <4>2. CASE ~(m = n /\ k = key[j])
          <5>1. disk'[m].rows[k] = disk[m].rows[k]
            BY <3>2, <4>2
          <5> QED BY <3>2, <5>1 DEF Safe, RowsOfVersion
        <4> QED BY <4>1, <4>2
      <3>4. ASSUME NEW g \in Handle PROVE Trusts(g)' /\ Clears(g)'
        <4>1. Trusts(g)'
          <5> SUFFICES ASSUME stage[g] = "preheat" \/ conn[g] = "connected"
                       PROVE  disk'[at[g]].version = VersionOf[g]
            BY <1>17 DEF Trusts, Set, WithConnection, optVars
          <5>1. at[g] \in Inode
            BY DEF TypeOK, Attached
          <5> QED BY <3>2, <5>1 DEF Safe, Trusts
        <4>2. CASE stage[g] # "clear"
          BY <1>17, <4>1, <4>2 DEF Set, WithConnection, optVars, Safe, Clears
        <4>3. CASE stage[g] = "clear"
          <5>1. at[g] \in Inode /\ Live(g) /\ cleared[g] \in 0..Len(Tables)
            BY <4>3 DEF TypeOK, Attached, Live
          <5>2. VersionOf[g] = VersionOf[h]
            BY <3>1, <5>1 DEF Safe, OneVersion
          <5>3. ASSUME NEW i \in 1..cleared[g], NEW k \in Tables[i], disk'[at[g]].rows[k] # None
                PROVE  disk'[at[g]].rows[k].by = VersionOf[g]
            <6>1. k \in Key
              BY <5>1
            <6>2. CASE at[g] = n /\ k = key[j]
              BY <3>2, <5>2, <6>2
            <6>3. CASE ~(at[g] = n /\ k = key[j])
              <7>1. disk'[at[g]].rows[k] = disk[at[g]].rows[k]
                BY <3>2, <5>1, <6>1, <6>3
              <7> QED BY <4>3, <5>3, <7>1 DEF Safe, Clears
            <6> QED BY <6>2, <6>3
          <5> QED BY <1>17, <4>1, <4>3, <5>3 DEF Set, WithConnection, optVars, Clears
        <4> QED BY <4>2, <4>3
      <3> QED BY <2>1, <2>2, <3>3, <3>4 DEF Safe
    <2> QED BY <1>17, <2>3, <2>4 DEF Set
  <1>18. CASE UNCHANGED vars
    BY <1>18 DEF vars, dbVars, optVars, jobVars, Safe, OneVersion, Live, Trusts, Clears,
                 RowsOfVersion, ResultsRight, Analysis
  <1>19. ASSUME NEW j \in Job, JobBegins(j) PROVE Safe'
    <2>1. on[j] \in Handle
      BY <1>19 DEF JobBegins, TypeOK, Placed
    <2> QED BY <1>3, <1>19, <2>1 DEF JobBegins
  <1>20. ASSUME NEW h \in Handle, InitThread(h) PROVE Safe'
    BY <1>3, <1>20 DEF InitThread
  <1> QED
    BY <1>1, <1>2, <1>4, <1>5, <1>6, <1>7, <1>8, <1>9, <1>10, <1>11, <1>12, <1>13, <1>14,
       <1>15, <1>16, <1>17, <1>18, <1>19, <1>20
    DEF Next, HandleStep, OpenStep, JobStep, Finished, NoHandle

\* The invariant that the theorems below are read from.
THEOREM Invariance == Spec => []Inv
  <1>1. Init => Inv
    BY InitInv
  <1>2. Inv /\ [Next]_vars => Inv'
    BY NextInv
  <1> QED BY <1>1, <1>2, PTL DEF Spec

\* The variables keep their types, a file is open exactly while a handle needs
\* it, and an analysis has a handle as long as it runs.
THEOREM TypeCorrect == Spec => []TypeOK
  <1>1. Inv => TypeOK
    BY DEF Inv
  <1> QED BY <1>1, Invariance, PTL

\* A file holds the rows of one version, whatever was interrupted.
THEOREM OneVersionPerFile == Spec => []FileOfOneVersion
  <1>1. Inv => FileOfOneVersion
    BY DEF Inv, Safe, FileOfOneVersion
  <1> QED BY <1>1, Invariance, PTL

\* An analysis returns what its own version makes of its own text.
THEOREM AnalysesAreCorrect == Spec => []AnalysisCorrect
  <1>1. Inv => AnalysisCorrect
    BY DEF Inv, Safe, AnalysisCorrect
  <1> QED BY <1>1, Invariance, PTL

-----------------------------------------------------------------------------
(* EmitCache                                                               *)

\* In the initial state nothing is stored and nobody is at work.
LEMMA EmitInitInv == Emit!ConstantsOK /\ Emit!Init => Emit!Inv
  BY DEF Emit!ConstantsOK, Emit!Init, Emit!Inv, Emit!TypeOK, Emit!Working, Emit!MetadataTruthful, Emit!EmitCorrect

\* What a loader is about to store has its type and is truthful.
LEMMA NewMetadataTruthful ==
  ASSUME Emit!ConstantsOK, NEW l \in Emitter, Emit!TypeOK, source[l] \in Source
  PROVE  /\ Emit!NewMetadata(l) \in Emit!EmitMetadata
         /\ Emit!Truthful(Emit!NewMetadata(l))
         /\ Transpile[EmitterVersion[l]][source[l]] \in Code
  <1> DEFINE v == EmitterVersion[l]
             c == Transpile[v][source[l]]
  <1>1. v \in Version /\ c \in Code
    BY DEF Emit!ConstantsOK
  <1>2. Emit!NewMetadata(l) = [source_hash |-> source[l], emit_hash |-> Emit!EmitHash(c, v)]
    BY DEF Emit!NewMetadata
  <1>3. Emit!NewMetadata(l) \in Emit!EmitMetadata
    BY <1>1, <1>2 DEF Emit!EmitMetadata
  <1>4. Emit!NewMetadata(l).emit_hash = Emit!EmitHash(Transpile[v][Emit!NewMetadata(l).source_hash], v)
    BY <1>2
  <1>5. Emit!Truthful(Emit!NewMetadata(l))
    BY <1>1, <1>4 DEF Emit!Truthful
  <1> QED BY <1>1, <1>3, <1>5

\* Code that agrees with truthful metadata of the loader's source is what the
\* loader's own release makes of that source: the hash names the release.
LEMMA VerifiedCode ==
  ASSUME NEW l \in Emitter, NEW c, NEW m,
         Emit!Truthful(m), m.source_hash = source[l],
         m.emit_hash = Emit!EmitHash(c, EmitterVersion[l])
  PROVE  c = Transpile[EmitterVersion[l]][source[l]]
  <1>1. PICK v \in Version : m.emit_hash = Emit!EmitHash(Transpile[v][source[l]], v)
    BY DEF Emit!Truthful
  <1>2. Emit!EmitHash(c, EmitterVersion[l]) = Emit!EmitHash(Transpile[v][source[l]], v)
    BY <1>1
  <1>3. c = Transpile[v][source[l]] /\ EmitterVersion[l] = v
    BY <1>2 DEF Emit!EmitHash
  <1> QED BY <1>3

\* Every step keeps the invariant.
LEMMA EmitNextInv == Emit!ConstantsOK /\ Emit!Inv /\ [Emit!Next]_Emit!vars => Emit!Inv'
  <1> SUFFICES ASSUME Emit!ConstantsOK, Emit!Inv, [Emit!Next]_Emit!vars PROVE Emit!Inv'
    OBVIOUS
  <1> USE DEF Emit!Inv
  <1>1. CASE UNCHANGED Emit!vars
    BY <1>1 DEF Emit!vars, Emit!files, Emit!TypeOK, Emit!Working, Emit!MetadataTruthful, Emit!EmitCorrect, Emit!Truthful
  <1>2. ASSUME NEW l \in Emitter, NEW s \in Source, Emit!Load(l, s) PROVE Emit!Inv'
    BY <1>2 DEF Emit!Load, Emit!files, Emit!TypeOK, Emit!Working, Emit!MetadataTruthful, Emit!EmitCorrect, Emit!Truthful
  <1>3. ASSUME NEW l \in Emitter, Emit!ReadMeta(l) PROVE Emit!Inv'
    <2>1. Emit!TypeOK'
      BY <1>3 DEF Emit!ReadMeta, Emit!files, Emit!TypeOK
    <2>2. Emit!Working'
      BY <1>3 DEF Emit!ReadMeta, Emit!files, Emit!TypeOK, Emit!Working
    <2>3. Emit!MetadataTruthful'
      BY <1>3 DEF Emit!ReadMeta, Emit!files, Emit!TypeOK, Emit!MetadataTruthful, Emit!Truthful, Emit!ForSource
    <2>4. Emit!EmitCorrect'
      BY <1>3 DEF Emit!ReadMeta, Emit!files, Emit!TypeOK, Emit!EmitCorrect
    <2> QED BY <2>1, <2>2, <2>3, <2>4
  <1>4. ASSUME NEW l \in Emitter, Emit!ReadEmit(l) PROVE Emit!Inv'
    <2>1. Emit!TypeOK'
      BY <1>4 DEF Emit!ReadEmit, Emit!files, Emit!TypeOK
    <2>2. Emit!Working'
      BY <1>4 DEF Emit!ReadEmit, Emit!files, Emit!TypeOK, Emit!Working
    <2>3. Emit!MetadataTruthful'
      BY <1>4 DEF Emit!ReadEmit, Emit!files, Emit!TypeOK, Emit!MetadataTruthful, Emit!Truthful
    <2>4. ASSUME emit # NoFile, seen[l].emit_hash = Emit!EmitHash(emit, EmitterVersion[l])
          PROVE  emit = Transpile[EmitterVersion[l]][source[l]]
      <3>1. Emit!Truthful(seen[l]) /\ seen[l].source_hash = source[l]
        BY <1>4 DEF Emit!ReadEmit, Emit!MetadataTruthful
      <3> QED BY <2>4, <3>1, VerifiedCode
    <2>5. Emit!EmitCorrect'
      BY <1>4, <2>4 DEF Emit!ReadEmit, Emit!files, Emit!TypeOK, Emit!EmitCorrect
    <2> QED BY <2>1, <2>2, <2>3, <2>5
  <1>5. ASSUME NEW l \in Emitter, Emit!WriteMeta(l) PROVE Emit!Inv'
    <2>1. /\ Emit!NewMetadata(l) \in Emit!EmitMetadata
          /\ Emit!Truthful(Emit!NewMetadata(l))
      BY <1>5, NewMetadataTruthful DEF Emit!WriteMeta, Emit!Working
    <2>2. Emit!TypeOK' /\ Emit!Working' /\ Emit!EmitCorrect'
      BY <1>5, <2>1 DEF Emit!WriteMeta, Emit!TypeOK, Emit!Working, Emit!EmitCorrect
    <2>3. Emit!MetadataTruthful'
      BY <1>5, <2>1 DEF Emit!WriteMeta, Emit!TypeOK, Emit!MetadataTruthful, Emit!Truthful
    <2> QED BY <2>2, <2>3
  <1>6. ASSUME NEW l \in Emitter, Emit!WriteEmit(l) \/ Emit!WriteFails(l) PROVE Emit!Inv'
    <2>1. emitPc[l] \in {"miss", "save"} /\ Emit!Transpiled(l) /\ source[l] \in Source
      BY <1>6 DEF Emit!WriteEmit, Emit!WriteFails, Emit!Working
    <2>2. Transpile[EmitterVersion[l]][source[l]] \in Code
      BY <2>1, NewMetadataTruthful
    <2>3. Emit!TypeOK'
      BY <1>6, <2>1, <2>2 DEF Emit!WriteEmit, Emit!WriteFails, Emit!Transpiled, Emit!TypeOK
    <2>4. Emit!Working' /\ Emit!EmitCorrect'
      BY <2>1, <2>2 DEF Emit!Transpiled, Emit!TypeOK, Emit!Working, Emit!EmitCorrect
    <2>5. Emit!MetadataTruthful'
      BY <2>1 DEF Emit!Transpiled, Emit!TypeOK, Emit!MetadataTruthful, Emit!Truthful
    <2> QED BY <2>3, <2>4, <2>5
  <1>7. ASSUME NEW l \in Emitter, Emit!Stop(l) PROVE Emit!Inv'
    BY <1>7 DEF Emit!Stop, Emit!files, Emit!TypeOK, Emit!Working, Emit!MetadataTruthful, Emit!EmitCorrect, Emit!Truthful
  <1> QED
    BY <1>1, <1>2, <1>3, <1>4, <1>5, <1>6, <1>7 DEF Emit!Next, Emit!LoaderStep

-----------------------------------------------------------------------------
(* CacheSemantics                                                          *)

\* The difference of two times is a natural number, never less than what it stands for.
LEMMA SinceBounds ==
  ASSUME NEW t \in Nat, NEW u \in Nat
  PROVE  Ages!Since(t, u) \in Nat /\ Ages!Since(t, u) >= t - u
  BY DEF Ages!Since

\* It grows with the first time and shrinks with the second.
LEMMA SinceMonotone ==
  ASSUME NEW t \in Nat, NEW u \in Nat, NEW t2 \in Nat, NEW u2 \in Nat, t <= t2, u2 <= u
  PROVE  Ages!Since(t, u) <= Ages!Since(t2, u2)
  BY DEF Ages!Since

\* Adding keeps the order.
LEMMA SumGrows ==
  ASSUME NEW h \in Nat, NEW a \in Nat, NEW b \in Nat, a <= b
  PROVE  h + a <= h + b /\ h + b \in Nat
  OBVIOUS

\* The response is one of the responses, at every step.
LEMMA AgesInitType == Ages!Init => Ages!TypeOK
  BY DEF Ages!Init, Ages!TypeOK

\* The response stays what it is.
LEMMA AgesNextType == Ages!TypeOK /\ [Ages!Next]_Ages!vars => Ages!TypeOK'
  BY DEF Ages!TypeOK, Ages!Next, Ages!Tick, Ages!vars

\* What the headers of a response may be.
LEMMA Headers ==
  ASSUME Ages!ConstantsOK, Ages!TypeOK
  PROVE  /\ response \in Ages!Response /\ now \in Nat
         /\ response.noCache \in BOOLEAN /\ response.varyAny \in BOOLEAN
         /\ response.maxAge \in Ages!Seconds /\ response.minFresh \in Ages!Seconds
         /\ response.maxStale \in Ages!Seconds /\ response.age \in Ages!Seconds
         /\ response.expires \in Ages!Seconds \cup {Ages!Invalid}
         /\ response.lastModified \in Ages!Seconds /\ response.date \in Ages!Seconds
         /\ response.cached \in Nat
  <1>1. response \in Ages!Response /\ now \in Nat
    BY DEF Ages!ConstantsOK, Ages!TypeOK
  <1> QED BY <1>1 DEF Ages!Response

\* The age of a response and the time it may be used are natural numbers, and it is no
\* younger than the time it has been in the cache.
LEMMA AgeType ==
  ASSUME Ages!ConstantsOK, Ages!TypeOK
  PROVE  Ages!Age \in Nat /\ Ages!Age >= now - response.cached
  <1>1. Ages!HeaderAge \in Nat
    BY Headers DEF Ages!HeaderAge, Ages!Seconds, Ages!Absent
  <1>2. Ages!Resident \in Nat /\ Ages!Resident >= now - response.cached
    BY Headers, SinceBounds DEF Ages!Resident
  <1> QED BY <1>1, <1>2, Headers DEF Ages!Age

\* So is how long it may be used.
LEMMA MaxAgeType ==
  ASSUME Ages!ConstantsOK, Ages!TypeOK
  PROVE  Ages!MaxAge \in Nat /\ Ages!ServerDate \in Nat
  <1>1. Ages!ServerDate \in Nat
    BY Headers DEF Ages!ServerDate, Ages!Seconds, Ages!Absent
  <1>2. response.maxAge # Ages!Absent => response.maxAge \in Nat
    BY Headers DEF Ages!Seconds
  <1>3. response.expires \notin {Ages!Absent, Ages!Invalid} => Ages!Since(response.expires, Ages!ServerDate) \in Nat
    BY <1>1, Headers, SinceBounds DEF Ages!Seconds
  <1>4. ASSUME response.lastModified # Ages!Absent
        PROVE  Ages!Since(Ages!ServerDate, response.lastModified) \div 10 \in Nat
    <2>1. response.lastModified \in Nat
      BY <1>4, Headers DEF Ages!Seconds
    <2>2. Ages!Since(Ages!ServerDate, response.lastModified) \in Nat
      BY <1>1, <2>1, SinceBounds
    <2> QED BY <2>2
  <1> QED BY <1>1, <1>2, <1>3, <1>4 DEF Ages!MaxAge

-----------------------------------------------------------------------------

\* While the clock does not go back the response grows no younger, and what its headers
\* allow does not change.
LEMMA OnlyOlder ==
  ASSUME Ages!ConstantsOK, Ages!TypeOK, Ages!TypeOK', response' = response, now' >= now
  PROVE  Ages!Age <= Ages!Age' /\ Ages!Age' \in Nat /\ Ages!MaxAge' = Ages!MaxAge /\ Ages!TimeToLive' <= Ages!TimeToLive
  <1>1. now \in Nat /\ now' \in Nat /\ response.cached \in Nat
    BY Headers DEF Ages!TypeOK, Ages!ConstantsOK
  <1>2. Ages!Resident' = Ages!Since(now', response.cached)
    BY DEF Ages!Resident
  <1>3. Ages!Resident <= Ages!Resident'
    BY <1>1, <1>2, SinceMonotone DEF Ages!Resident
  <1>4. Ages!Resident \in Nat /\ Ages!Resident' \in Nat
    BY <1>1, <1>2, SinceBounds DEF Ages!Resident
  <1>5. Ages!HeaderAge' = Ages!HeaderAge /\ Ages!HeaderAge \in Nat
    BY Headers DEF Ages!HeaderAge, Ages!Seconds, Ages!Absent
  <1>6. Ages!Age <= Ages!Age' /\ Ages!Age' \in Nat
    <2>1. Ages!Age = Ages!HeaderAge + Ages!Resident
      BY DEF Ages!Age
    <2>2. Ages!Age' = Ages!HeaderAge + Ages!Resident'
      BY <1>5 DEF Ages!Age
    <2>3. Ages!HeaderAge + Ages!Resident <= Ages!HeaderAge + Ages!Resident' /\ Ages!HeaderAge + Ages!Resident' \in Nat
      BY <1>3, <1>4, <1>5, SumGrows
    <2> QED BY <2>1, <2>2, <2>3
  <1>7. Ages!MaxAge' = Ages!MaxAge
    BY DEF Ages!MaxAge, Ages!ServerDate
  <1>8. Ages!TimeToLive' = Ages!Since(Ages!MaxAge, Ages!Age')
    BY <1>7 DEF Ages!TimeToLive
  <1>9. Ages!TimeToLive' <= Ages!TimeToLive
    BY <1>6, <1>8, AgeType, MaxAgeType, SinceMonotone DEF Ages!TimeToLive
  <1> QED BY <1>6, <1>7, <1>9

\* FreshnessFades of CacheSemantics: should_use, once false, stays false while the clock
\* does not go back.
LEMMA FreshnessFadesStep ==
  ASSUME Ages!ConstantsOK, Ages!TypeOK, Ages!TypeOK', [Ages!Next]_Ages!vars
  PROVE  Ages!FreshnessStep
  <1> SUFFICES ASSUME now' >= now, Ages!Answer = "fetch", Ages!Answer' = "use"
               PROVE  FALSE
    BY DEF Ages!FreshnessStep
  <1>1. response' = response
    BY DEF Ages!Next, Ages!Tick, Ages!vars
  <1>2. Ages!Age <= Ages!Age' /\ Ages!Age' \in Nat /\ Ages!MaxAge' = Ages!MaxAge /\ Ages!TimeToLive' <= Ages!TimeToLive
    BY <1>1, OnlyOlder
  <1>3. Ages!Age \in Nat /\ Ages!MaxAge \in Nat
    BY AgeType, MaxAgeType
  <1>4. ~Ages!ShouldUse
    BY DEF Ages!Answer
  <1>5. Ages!ShouldUse'
    BY DEF Ages!Answer
  <1>6. ~response.noCache
    BY <1>1, <1>5 DEF Ages!ShouldUse
  <1>7. response.maxAge # Ages!Absent => Ages!Age <= response.maxAge
    <2>1. SUFFICES ASSUME response.maxAge # Ages!Absent PROVE Ages!Age <= response.maxAge
      OBVIOUS
    <2>2. response.maxAge \in Nat
      BY <2>1, Headers DEF Ages!Seconds
    <2>3. Ages!Age' <= response.maxAge
      BY <1>1, <1>5, <2>1 DEF Ages!ShouldUse
    <2> QED BY <1>2, <1>3, <2>2, <2>3
  <1>8. response.minFresh # Ages!Absent => Ages!TimeToLive >= response.minFresh
    <2>1. SUFFICES ASSUME response.minFresh # Ages!Absent PROVE Ages!TimeToLive >= response.minFresh
      OBVIOUS
    <2>2. response.minFresh \in Nat
      BY <2>1, Headers DEF Ages!Seconds
    <2>3. Ages!TimeToLive' >= response.minFresh
      BY <1>1, <1>5, <2>1 DEF Ages!ShouldUse
    <2>4. Ages!TimeToLive \in Nat /\ Ages!TimeToLive' \in Nat
      BY <1>2, <1>3, SinceBounds DEF Ages!TimeToLive
    <2> QED BY <1>2, <2>2, <2>3, <2>4
  <1>9. Ages!IsStale => Ages!AllowsStale
    <2>1. SUFFICES ASSUME Ages!IsStale PROVE Ages!AllowsStale
      OBVIOUS
    <2>2. Ages!IsStale'
      BY <1>2, <1>3, <2>1 DEF Ages!IsStale
    <2>3. Ages!AllowsStale'
      BY <1>5, <2>2 DEF Ages!ShouldUse
    <2>4. response.maxStale # Ages!Absent /\ response.maxStale > Ages!Age' - Ages!MaxAge
      BY <1>1, <1>2, <2>3 DEF Ages!AllowsStale
    <2>5. response.maxStale \in Nat
      BY <2>4, Headers DEF Ages!Seconds
    <2> QED BY <1>2, <1>3, <2>4, <2>5 DEF Ages!AllowsStale
  <1> QED BY <1>4, <1>6, <1>7, <1>8, <1>9 DEF Ages!ShouldUse

-----------------------------------------------------------------------------

\* A response that is used is within each of the limits its server gave.
LEMMA UsedInTimeHolds == ASSUME Ages!ConstantsOK, Ages!TypeOK PROVE Ages!UsedInTime
  <1> SUFFICES ASSUME Ages!Answer = "use" PROVE Ages!UsedInTime
    BY DEF Ages!UsedInTime
  <1>1. Ages!ShouldUse
    BY DEF Ages!Answer
  <1>2. Ages!Age \in Nat /\ Ages!Age >= now - response.cached /\ Ages!MaxAge \in Nat /\ Ages!ServerDate \in Nat
    BY AgeType, MaxAgeType
  <1>3. now \in Nat /\ response.cached \in Nat
    BY Headers
  <1>4. ~response.noCache
    BY <1>1 DEF Ages!ShouldUse
  <1>5. ASSUME response.maxAge # Ages!Absent PROVE now - response.cached <= response.maxAge
    <2>1. response.maxAge \in Nat
      BY <1>5, Headers DEF Ages!Seconds
    <2>2. Ages!Age <= response.maxAge
      BY <1>1, <1>5 DEF Ages!ShouldUse
    <2> QED BY <1>2, <1>3, <2>1, <2>2
  <1>6. ASSUME response.expires \notin {Ages!Absent, Ages!Invalid}, response.maxAge = Ages!Absent,
               response.maxStale = Ages!Absent
        PROVE  /\ response.expires > Ages!ServerDate
               /\ now - response.cached < response.expires - Ages!ServerDate
    <2>1. Ages!MaxAge > Ages!Age
      BY <1>1, <1>2, <1>6 DEF Ages!ShouldUse, Ages!IsStale, Ages!AllowsStale
    <2>2. ~response.varyAny
      BY <1>2, <1>4, <2>1 DEF Ages!MaxAge
    <2>3. Ages!MaxAge = Ages!Since(response.expires, Ages!ServerDate)
      BY <1>4, <1>6, <2>2 DEF Ages!MaxAge
    <2>4. response.expires \in Nat
      BY <1>6, Headers DEF Ages!Seconds
    <2> QED BY <1>2, <1>3, <2>1, <2>3, <2>4 DEF Ages!Since
  <1>7. ASSUME response.maxStale # Ages!Absent PROVE Ages!Age - Ages!MaxAge < response.maxStale
    <2>1. response.maxStale \in Nat
      BY <1>7, Headers DEF Ages!Seconds
    <2>2. CASE Ages!IsStale
      BY <1>1, <1>2, <2>1, <2>2 DEF Ages!ShouldUse, Ages!AllowsStale
    <2>3. CASE ~Ages!IsStale
      BY <1>2, <2>1, <2>3 DEF Ages!IsStale
    <2> QED BY <2>2, <2>3
  <1> QED BY <1>4, <1>5, <1>6, <1>7 DEF Ages!UsedInTime

-----------------------------------------------------------------------------
(* FileFetcher                                                             *)

\* A set of numbers that has 0 and with a number the next one has them all.
LEMMA AllNumbers ==
  ASSUME NEW K, 0 \in K, \A k \in Nat : k \in K => k + 1 \in K
  PROVE  Nat \subseteq K
  <1> SUFFICES ASSUME NEW m \in Nat, m \notin K PROVE FALSE
    OBVIOUS
  <1> DEFINE Below(k) == 0..(k - 1)
             T == {Below(k) : k \in Nat \ K}
  <1>1. IsWellFoundedOn(StrictSubsetOrdering(Nat), FiniteSubsetsOf(Nat))
    BY FS_StrictSubsetOrderingWellFounded
  <1>2. T \subseteq FiniteSubsetsOf(Nat) /\ T # {}
    <2>1. \A k \in Nat : IsFiniteSet(Below(k)) /\ Below(k) \subseteq Nat
      BY FS_Interval
    <2> QED BY <2>1 DEF FiniteSubsetsOf
  <1>3. \E x \in T : \A y \in T : <<y, x>> \notin StrictSubsetOrdering(Nat)
    <2> HIDE DEF T
    <2> QED BY <1>1, <1>2, WFMin
  <1>4. PICK k \in Nat \ K : \A y \in T : <<y, Below(k)>> \notin StrictSubsetOrdering(Nat)
    BY <1>3
  <1>5. k # 0 /\ k - 1 \in Nat /\ k - 1 \notin K
    <2>1. k # 0
      OBVIOUS
    <2>2. k - 1 \in Nat /\ (k - 1) + 1 = k
      BY <2>1
    <2> QED BY <2>1, <2>2
  <1>6. Below(k - 1) \in T
    BY <1>5
  <1>7. <<Below(k - 1), Below(k)>> \in StrictSubsetOrdering(Nat)
    <2>1. Below(k - 1) \subseteq Below(k) /\ Below(k) \subseteq Nat
      BY <1>5
    <2>2. k - 1 \in Below(k) /\ k - 1 \notin Below(k - 1)
      BY <1>5
    <2> QED BY <2>1, <2>2 DEF StrictSubsetOrdering
  <1> QED BY <1>4, <1>6, <1>7

\* Where the first response of a URL leads.
To(u) == Served[u][1].location

\* The server of u had b as code, or the empty body of a redirect.
Had(u, b) == \E i \in 1..current[u] : Served[u][i].body = b /\ Served[u][i].status # "failure"

\* What is on disk was served.
DiskServed ==
    \A u \in Url :
        /\ content[u] # NoFile => Had(u, content[u])
        /\ metadata[u] # NoFile =>
               \E i \in 1..current[u] : /\ Served[u][i].status # "failure"
                                        /\ metadata[u] = Fetch!HeadersOf(Served[u][i])

\* With n redirects left, u is on the way from root and leads where it does, or there are too many.
Reaches(n, u, root) ==
    IF n >= 0 THEN Fetch!Leads[n][u] = Fetch!Target(root) /\ u = Fetch!Leads[MaxRedirects - n][root]
              ELSE To(Fetch!Target(root)) # None

\* A 304 finds both files of the entry.
HasEntry(u) == content[u] # NoFile /\ metadata[u] # NoFile

Following(l) ==
    LET t == task[l] IN
    /\ t.root \in Url /\ t.specifier \in Url /\ Reaches(t.limit, t.specifier, t.root)
    /\ t.pc # "remote" => t.limit >= 0
    /\ t.pc \in {"open", "read"} =>
           /\ t.link \in Url
           /\ t.purpose = "use" => Reaches(t.links, t.link, t.root) /\ setting[l] # "ReloadAll"
           /\ t.purpose = "validated" =>
                  /\ t.link = t.specifier /\ t.links >= 0
                  /\ HasEntry(t.link) /\ To(t.link) = None
    /\ t.pc = "read" => t.links >= 0 /\ Had(t.link, t.opened)
    /\ t.pc = "asking" /\ t.etag # None => HasEntry(t.specifier)
    /\ t.pc \in {"store", "save"} =>
           \E i \in 1..current[t.specifier] :
               /\ t.response = Served[t.specifier][i] /\ t.response.status # "failure"

\* A file that was returned
Correct(r) == r.root \in Url /\ r.url \in Url /\ r.url = Fetch!Target(r.root) /\ Had(r.url, r.body)

Remembered(l) ==
    /\ fetched[l].outcome = "file" => Correct(fetched[l])
    /\ fetched[l].outcome = "location" => fetched[l].root \in Url
    /\ \A u \in Root : memory[l][u] # Fetch!NoResult =>
           memory[l][u].outcome = "file" /\ memory[l][u].root = u /\ Correct(memory[l][u])

FetchInv ==
    /\ Fetch!TypeOK /\ DiskServed /\ Fetch!FailuresJustified
    /\ \A l \in Loader : (task[l].pc # "idle" => Following(l)) /\ Remembered(l)

\* Stored headers m are not those of a response of u after the i-th.
NoNewer(m, u, i) ==
    m # NoFile =>
        \A j \in DOMAIN Served[u] :
            j > i /\ Served[u][j].etag # None => m.etag # Served[u][j].etag

\* Of an entry with the ETag of the current response the content is current, too.
EntryCurrent(u) ==
    content[u] # NoFile /\ metadata[u] # NoFile =>
        LET r == Served[u][current[u]] IN
        r.etag # None /\ metadata[u].etag = r.etag => content[u] = r.body

SinceAsked(l, u, b) == \E i \in asked[l][u]..current[u] : Served[u][i].body = b

Reloading(l) ==
    LET t == task[l] IN
    /\ t.pc \in {"open", "read"} => t.purpose = "validated"
    /\ t.pc = "open" => SinceAsked(l, t.link, content[t.link])
    /\ t.pc = "read" => SinceAsked(l, t.link, t.opened)
    /\ t.pc = "asking" /\ t.etag # None => t.etag = metadata[t.specifier].etag
    /\ t.pc \in {"store", "save"} =>
           \E i \in asked[l][t.specifier]..current[t.specifier] :
               t.response = Served[t.specifier][i] /\ NoNewer(metadata[t.specifier], t.specifier, i)
    /\ t.pc = "save" => content[t.specifier] = t.response.body

ReloadInv ==
    /\ \A l \in Loader :
           /\ \A u \in Url : asked[l][u] <= current[u] /\ asked[l][u] >= 1
           /\ task[l].pc # "idle" => fetched[l] = Fetch!NoResult
           /\ setting[l] = "Only" => task[l].pc \in {"idle", "remote", "open", "read"} 
    /\ \A l \in Loader :
           setting[l] = "ReloadAll" /\ Fetch!Alone(l) => Reloading(l) /\ \A u \in Url : EntryCurrent(u)

\* Where responses may redirect to.
LEMMA Locations ==
  ASSUME Fetch!ConstantsOK, NEW u \in Url
  PROVE  /\ To(u) \in Url \cup {None} /\ None \notin Url /\ MaxRedirects \in Nat
         /\ Served[u] \in Seq(Fetch!Response) /\ Len(Served[u]) \in Nat /\ 1 \in DOMAIN Served[u]
         /\ DOMAIN Served[u] = 1..Len(Served[u])
         /\ \A i \in DOMAIN Served[u] : Served[u][i] \in Fetch!Response
  <1>1. Served[u] \in Seq(Fetch!Response) /\ Served[u] # <<>>
    BY DEF Fetch!ConstantsOK
  <1>2. 1 \in DOMAIN Served[u] /\ \A i \in DOMAIN Served[u] : Served[u][i] \in Fetch!Response
    BY <1>1
  <1>3. Served[u][1].location \in Url \cup {None}
    BY <1>2 DEF Fetch!Response
  <1> QED BY <1>1, <1>2, <1>3 DEF To, Fetch!ConstantsOK

\* Leads is what its definition says, for any number of redirects.
LEMMA LeadsStep ==
  ASSUME Fetch!ConstantsOK
  PROVE  \A n \in 0..MaxRedirects, u \in Url :
             Fetch!Leads[n][u] = IF n = 0 \/ To(u) = None THEN u ELSE Fetch!Leads[n - 1][To(u)]
  <1> DEFINE RowOf(g, n) == [u \in Url |-> IF n = 0 \/ To(u) = None THEN u ELSE g[n - 1][To(u)]]
             K == {k \in Nat : \E g : g = [n \in 0..k |-> RowOf(g, n)]}
  <1>1. 0 \in K
    <2> DEFINE g == [n \in 0..0 |-> [u \in Url |-> u]]
    <2>1. g = [n \in 0..0 |-> RowOf(g, n)]
      OBVIOUS
    <2> QED BY <2>1
  <1>2. ASSUME NEW k \in Nat, k \in K PROVE k + 1 \in K
    <2>1. PICK g : g = [n \in 0..k |-> RowOf(g, n)]
      BY <1>2
    <2> DEFINE h == [n \in 0..(k + 1) |-> RowOf(g, n)]
    <2>2. ASSUME NEW n \in 0..k PROVE h[n] = g[n]
      <3>1. n \in 0..(k + 1)
        OBVIOUS
      <3>2. h[n] = RowOf(g, n)
        <4> HIDE DEF RowOf
        <4> QED BY <3>1
      <3>3. g[n] = RowOf(g, n)
        <4> HIDE DEF RowOf
        <4> QED BY <2>1
      <3> QED BY <3>2, <3>3
    <2>3. ASSUME NEW n \in 0..(k + 1) PROVE RowOf(g, n) = RowOf(h, n)
      <3>1. ASSUME n # 0 PROVE n - 1 \in 0..k
        BY <3>1
      <3>2. n # 0 => g[n - 1] = h[n - 1]
        <4> HIDE DEF h
        <4> QED BY <2>2, <3>1
      <3> HIDE DEF h
      <3> QED BY <3>2
    <2>4. h = [n \in 0..(k + 1) |-> RowOf(h, n)]
      <3> HIDE DEF RowOf
      <3> QED BY <2>3
    <2> HIDE DEF h, RowOf
    <2> QED BY <2>4
  <1>3. MaxRedirects \in K
    <2>1. Nat \subseteq K
      <3> HIDE DEF K
      <3> QED BY <1>1, <1>2, AllNumbers
    <2> HIDE DEF K
    <2> QED BY <2>1 DEF Fetch!ConstantsOK
  <1>4. PICK g : g = [n \in 0..MaxRedirects |-> RowOf(g, n)]
    BY <1>3
  <1>5. Fetch!Leads = [n \in 0..MaxRedirects |-> RowOf(Fetch!Leads, n)]
    BY <1>4 DEF Fetch!Leads, To
  <1>6. ASSUME NEW n \in 0..MaxRedirects, NEW u \in Url
        PROVE  Fetch!Leads[n][u] = IF n = 0 \/ To(u) = None THEN u ELSE Fetch!Leads[n - 1][To(u)]
    <2>1. Fetch!Leads[n] = RowOf(Fetch!Leads, n)
      <3> HIDE DEF RowOf
      <3> QED BY <1>5
    <2> QED BY <2>1
  <1> QED BY <1>6

-----------------------------------------------------------------------------
(* Types                                                                   *)

\* A response that was served, with what is stored of it.
LEMMA ServedType ==
  ASSUME Fetch!ConstantsOK, NEW u \in Url, NEW i \in DOMAIN Served[u]
  PROVE  /\ Served[u][i] \in Fetch!Response /\ Fetch!HeadersOf(Served[u][i]) \in Fetch!Headers
         /\ Served[u][i].body \in Body \cup {Empty} /\ Served[u][i].location \in Url \cup {None}
         /\ Served[u][i].etag \in Etag \cup {None} /\ Served[u][i].status \in Fetch!Status
         /\ Served[u][i].bare \in BOOLEAN
         /\ (Served[u][i].status = "redirect" <=> Served[u][i].location # None)
         /\ Served[u][i].etag # None => Served[u][i].status = "code"
  <1>1. Served[u][i] \in Fetch!Response
    BY Locations
  <1> QED BY <1>1 DEF Fetch!ConstantsOK, Fetch!Response, Fetch!HeadersOf, Fetch!Headers

\* A task stays one when a field changes.
LEMMA TaskChange ==
  ASSUME NEW t \in Fetch!Task
  PROVE  /\ \A v \in Fetch!Pc : [t EXCEPT !.pc = v] \in Fetch!Task
         /\ \A v \in Url \cup {None} : [t EXCEPT !.root = v] \in Fetch!Task
         /\ \A v \in Url \cup {None} : [t EXCEPT !.specifier = v] \in Fetch!Task
         /\ \A v \in -1..MaxRedirects : [t EXCEPT !.limit = v] \in Fetch!Task
         /\ \A v \in Url \cup {None} : [t EXCEPT !.link = v] \in Fetch!Task
         /\ \A v \in -1..MaxRedirects : [t EXCEPT !.links = v] \in Fetch!Task
         /\ \A v \in {"use", "validated"} : [t EXCEPT !.purpose = v] \in Fetch!Task
         /\ \A v \in Body \cup {Empty, None} : [t EXCEPT !.opened = v] \in Fetch!Task
         /\ \A v \in Etag \cup {None} : [t EXCEPT !.etag = v] \in Fetch!Task
         /\ \A v \in Fetch!Response \cup {None} : [t EXCEPT !.response = v] \in Fetch!Task
  BY DEF Fetch!Task

\* Nobody at work is a task, too.
LEMMA IdleType == ASSUME Fetch!ConstantsOK PROVE Fetch!Idle \in Fetch!Task /\ Fetch!Idle.pc = "idle"
  BY DEF Fetch!ConstantsOK, Fetch!Idle, Fetch!Task, Fetch!Pc

\* The types hold at first.
LEMMA FetchInitType == ASSUME Fetch!ConstantsOK, Fetch!Init PROVE Fetch!TypeOK
  <1>1. current \in [Url -> Nat] /\ \A u \in Url : current[u] \in DOMAIN Served[u]
    BY Locations DEF Fetch!Init
  <1>2. Fetch!Idle \in Fetch!Task
    BY IdleType
  <1>3. Fetch!NoResult \in Fetch!Result
    BY DEF Fetch!NoResult, Fetch!Result, Fetch!Outcome
  <1> QED BY <1>1, <1>2, <1>3 DEF Fetch!Init, Fetch!TypeOK

\* A task that goes on.
LEMMA GoesType ==
  ASSUME Fetch!ConstantsOK, Fetch!TypeOK, NEW l \in Loader, NEW t \in Fetch!Task, Fetch!Goes(l, t)
  PROVE  /\ task' \in [Loader -> Fetch!Task] /\ task'[l] = t /\ \A k \in Loader : k # l => task'[k] = task[k]
         /\ asked' = asked /\ memory' = memory /\ fetched' = fetched
  BY DEF Fetch!Goes, Fetch!TypeOK

LEMMA FailsType ==
  ASSUME Fetch!ConstantsOK, Fetch!TypeOK, NEW l \in Loader, NEW why \in Fetch!Outcome, Fetch!Fails(l, why)
  PROVE  /\ task' \in [Loader -> Fetch!Task] /\ task'[l] = Fetch!Idle /\ \A k \in Loader : k # l => task'[k] = task[k]
         /\ fetched' \in [Loader -> Fetch!Result] /\ \A k \in Loader : k # l => fetched'[k] = fetched[k]
         /\ fetched'[l].outcome = why /\ fetched'[l].root = task[l].root
         /\ asked' = asked /\ memory' = memory
  <1>1. Fetch!Idle \in Fetch!Task
    BY IdleType
  <1>2. task[l].root \in Url \cup {None}
    BY DEF Fetch!TypeOK, Fetch!Task
  <1> DEFINE r == [Fetch!NoResult EXCEPT !.outcome = why, !.root = task[l].root]
  <1>3. r \in Fetch!Result /\ r.outcome = why /\ r.root = task[l].root
    BY <1>2 DEF Fetch!NoResult, Fetch!Result
  <1>4. fetched' = [fetched EXCEPT ![l] = r]
    BY DEF Fetch!Fails
  <1> HIDE DEF r
  <1> QED BY <1>1, <1>3, <1>4 DEF Fetch!Fails, Fetch!TypeOK

\* A task that returns.
LEMMA ReturnsType ==
  ASSUME Fetch!ConstantsOK, Fetch!TypeOK, NEW l \in Loader, NEW u \in Url, NEW b \in Body \cup {Empty},
         task[l].root \in Url, Fetch!Returns(l, u, b)
  PROVE  /\ task' \in [Loader -> Fetch!Task] /\ task'[l] = Fetch!Idle /\ \A k \in Loader : k # l => task'[k] = task[k]
         /\ fetched' \in [Loader -> Fetch!Result] /\ \A k \in Loader : k # l => fetched'[k] = fetched[k]
         /\ fetched'[l] = [outcome |-> "file", root |-> task[l].root, url |-> u, body |-> b]
         /\ memory' \in [Loader -> [Url -> Fetch!Result]] /\ \A k \in Loader : k # l => memory'[k] = memory[k]
         /\ \A v \in Url : memory'[l][v] = IF v = task[l].root THEN fetched'[l] ELSE memory[l][v]
         /\ asked' = asked
  <1>1. Fetch!Idle \in Fetch!Task
    BY IdleType
  <1> DEFINE r == [outcome |-> "file", root |-> task[l].root, url |-> u, body |-> b]
  <1>2. r \in Fetch!Result /\ r.root = task[l].root
    BY DEF Fetch!Result, Fetch!Outcome
  <1>3. task' = [task EXCEPT ![l] = Fetch!Idle] /\ fetched' = [fetched EXCEPT ![l] = r] /\ asked' = asked
    BY DEF Fetch!Returns
  <1>4. memory' = [memory EXCEPT ![l][r.root] = r]
    BY DEF Fetch!Returns
  <1> HIDE DEF r
  <1>5. memory' \in [Loader -> [Url -> Fetch!Result]] /\ \A k \in Loader : k # l => memory'[k] = memory[k]
    BY <1>2, <1>4 DEF Fetch!TypeOK
  <1>6. \A v \in Url : memory'[l][v] = IF v = task[l].root THEN r ELSE memory[l][v]
    BY <1>2, <1>4 DEF Fetch!TypeOK
  <1>7. fetched' \in [Loader -> Fetch!Result] /\ fetched'[l] = r /\ \A k \in Loader : k # l => fetched'[k] = fetched[k]
    BY <1>2, <1>3 DEF Fetch!TypeOK
  <1>8. task' \in [Loader -> Fetch!Task] /\ task'[l] = Fetch!Idle /\ \A k \in Loader : k # l => task'[k] = task[k]
    BY <1>1, <1>3 DEF Fetch!TypeOK
  <1> QED BY <1>3, <1>5, <1>6, <1>7, <1>8 DEF r

-----------------------------------------------------------------------------
(* What a fetch returns, and why it fails                                  *)

\* Redirects lead to URLs.
LEMMA LeadsIn ==
  ASSUME Fetch!ConstantsOK, NEW n \in 0..MaxRedirects, NEW u \in Url
  PROVE  Fetch!Leads[n][u] \in Url
  <1> DEFINE K == {k \in Nat : k <= MaxRedirects => \A v \in Url : Fetch!Leads[k][v] \in Url}
  <1>0. MaxRedirects \in Nat /\ \A v \in Url : To(v) \in Url \cup {None}
    BY Locations DEF Fetch!ConstantsOK
  <1>1. 0 \in K
    <2>1. 0 \in 0..MaxRedirects
      BY <1>0
    <2>2. \A v \in Url : Fetch!Leads[0][v] = v
      BY <2>1, LeadsStep
    <2> QED BY <2>2
  <1>2. ASSUME NEW k \in Nat, k \in K PROVE k + 1 \in K
    <2> SUFFICES ASSUME k + 1 <= MaxRedirects, NEW v \in Url PROVE Fetch!Leads[k + 1][v] \in Url
      OBVIOUS
    <2>1. k + 1 \in 0..MaxRedirects /\ k + 1 # 0 /\ (k + 1) - 1 = k /\ k <= MaxRedirects
      BY <1>0
    <2>2. Fetch!Leads[k + 1][v] = IF To(v) = None THEN v ELSE Fetch!Leads[k][To(v)]
      BY <2>1, LeadsStep
    <2>3. To(v) # None => Fetch!Leads[k][To(v)] \in Url
      BY <1>0, <1>2, <2>1
    <2> QED BY <2>2, <2>3
  <1>3. Nat \subseteq K
    <2> HIDE DEF K
    <2> QED BY <1>1, <1>2, AllNumbers
  <1>4. n \in Nat /\ n <= MaxRedirects
    BY <1>0
  <1> QED BY <1>3, <1>4

\* What v leads to in one redirect, if it is one.
OneOn(v) == IF To(v) = None THEN v ELSE To(v)

\* The last of several redirects may be followed last, too.
LEMMA LeadsOn ==
  ASSUME Fetch!ConstantsOK, NEW n \in Nat, n < MaxRedirects, NEW u \in Url
  PROVE  Fetch!Leads[n + 1][u] = OneOn(Fetch!Leads[n][u])
  <1> DEFINE K == {k \in Nat : k < MaxRedirects =>
                      \A v \in Url : Fetch!Leads[k + 1][v] = OneOn(Fetch!Leads[k][v])}
  <1>0. MaxRedirects \in Nat /\ \A v \in Url : To(v) \in Url \cup {None}
    BY Locations DEF Fetch!ConstantsOK
  <1>1. 0 \in K
    <2> SUFFICES ASSUME 0 < MaxRedirects, NEW v \in Url
                 PROVE  Fetch!Leads[0 + 1][v] = OneOn(Fetch!Leads[0][v])
      OBVIOUS
    <2>1. 0 \in 0..MaxRedirects /\ 1 \in 0..MaxRedirects
      BY <1>0
    <2>2. Fetch!Leads[0][v] = v /\ (To(v) # None => Fetch!Leads[0][To(v)] = To(v))
      BY <1>0, <2>1, LeadsStep
    <2>3. Fetch!Leads[1][v] = IF To(v) = None THEN v ELSE Fetch!Leads[0][To(v)]
      BY <2>1, LeadsStep
    <2> QED BY <2>2, <2>3 DEF OneOn
  <1>2. ASSUME NEW k \in Nat, k \in K PROVE k + 1 \in K
    <2> SUFFICES ASSUME k + 1 < MaxRedirects, NEW v \in Url
                 PROVE  Fetch!Leads[(k + 1) + 1][v] = OneOn(Fetch!Leads[k + 1][v])
      OBVIOUS
    <2>1. k + 1 \in 0..MaxRedirects /\ k + 2 \in 0..MaxRedirects /\ (k + 1) + 1 = k + 2
      BY <1>0
    <2>2. Fetch!Leads[k + 2][v] = IF To(v) = None THEN v ELSE Fetch!Leads[k + 1][To(v)]
      BY <2>1, LeadsStep
    <2>3. Fetch!Leads[k + 1][v] = IF To(v) = None THEN v ELSE Fetch!Leads[k][To(v)]
      BY <2>1, LeadsStep
    <2>4. To(v) # None => Fetch!Leads[k + 1][To(v)] = OneOn(Fetch!Leads[k][To(v)])
      BY <1>0, <1>2
    <2> QED BY <2>1, <2>2, <2>3, <2>4 DEF OneOn
  <1>3. Nat \subseteq K
    <2> HIDE DEF K
    <2> QED BY <1>1, <1>2, AllNumbers
  <1> QED BY <1>3

\* A redirect that is followed leads on, with one redirect less.
LEMMA Follow ==
  ASSUME Fetch!ConstantsOK, NEW n \in 0..MaxRedirects, NEW u \in Url, NEW root \in Url, Reaches(n, u, root)
  PROVE  /\ To(u) = None => u = Fetch!Target(root)
         /\ To(u) # None => To(u) \in Url /\ Reaches(n - 1, To(u), root)
  <1>1. n >= 0 /\ Fetch!Leads[n][u] = Fetch!Target(root) /\ MaxRedirects \in Nat
    BY DEF Reaches, Fetch!ConstantsOK
  <1>2. Fetch!Leads[n][u] = IF n = 0 \/ To(u) = None THEN u ELSE Fetch!Leads[n - 1][To(u)]
    BY LeadsStep
  <1>3. To(u) \in Url \cup {None}
    BY Locations
  <1>4. ASSUME To(u) # None PROVE Reaches(n - 1, To(u), root)
    <2>1. CASE n = 0
      BY <1>1, <1>2, <1>4, <2>1 DEF Reaches
    <2>2. CASE n # 0
      <3> DEFINE k == MaxRedirects - n
      <3>1. k \in Nat /\ k < MaxRedirects /\ k + 1 = MaxRedirects - (n - 1)
        BY <1>1, <2>2
      <3>2. u = Fetch!Leads[k][root]
        BY <1>1 DEF Reaches
      <3>3. Fetch!Leads[k + 1][root] = OneOn(Fetch!Leads[k][root])
        <4> HIDE DEF k
        <4> QED BY <3>1, LeadsOn
      <3>4. To(u) = Fetch!Leads[MaxRedirects - (n - 1)][root]
        BY <1>4, <3>1, <3>2, <3>3 DEF OneOn
      <3> QED BY <1>1, <1>2, <1>4, <2>2, <3>4 DEF Reaches
    <2> QED BY <2>1, <2>2
  <1> QED BY <1>1, <1>2, <1>3, <1>4 DEF Reaches

\* A response that is no failure redirects where the first one does.
LEMMA SameLocation ==
  ASSUME Fetch!ConstantsOK, Fetch!RedirectsStay, NEW u \in Url, NEW i \in DOMAIN Served[u], Served[u][i].status # "failure"
  PROVE  /\ Served[u][i].location = To(u)
         /\ Fetch!HeadersOf(Served[u][i]).location = To(u)
         /\ Fetch!HeadersOf(Served[u][i]).bare = Served[u][i].bare
         /\ (Served[u][i].status = "redirect" <=> To(u) # None)
         /\ Fetch!HeadersOf(Served[u][i]).etag # None => To(u) = None
  BY ServedType DEF Fetch!RedirectsStay, To, Fetch!HeadersOf, Fetch!Status

\* Responses up to the current one are there.
LEMMA Indices ==
  ASSUME Fetch!ConstantsOK, Fetch!TypeOK, NEW u \in Url
  PROVE  /\ current[u] \in Nat /\ current[u] >= 1 /\ current[u] \in DOMAIN Served[u]
         /\ \A i \in 1..current[u] : i \in DOMAIN Served[u]
  BY Locations DEF Fetch!TypeOK

\* The servers go forward, and no file is removed.
Later ==
    \A u \in Url : /\ current'[u] \in Nat /\ current[u] \in Nat /\ current[u] <= current'[u]
                   /\ HasEntry(u) => HasEntry(u)'

\* What was served was served.
LEMMA StillServed ==
  ASSUME Later, NEW u \in Url
  PROVE  \A i \in 1..current[u] : i \in 1..current'[u]
  BY DEF Later

\* What another loader does disturbs no fetch.
LEMMA OtherLoader ==
  ASSUME Later, setting' = setting, NEW k \in Loader, task'[k] = task[k], task[k].pc # "idle", Following(k)
  PROVE  Following(k)'
  <1> DEFINE t == task[k]
  <1>1. t.specifier \in Url /\ (t.pc \in {"open", "read"} => t.link \in Url)
    BY DEF Following
  <1>2. t.pc = "read" => Had(t.link, t.opened)'
    <2> SUFFICES ASSUME t.pc = "read" PROVE Had(t.link, t.opened)'
      OBVIOUS
    <2>1. PICK i \in 1..current[t.link] :
              Served[t.link][i].body = t.opened /\ Served[t.link][i].status # "failure"
      BY DEF Following, Had
    <2> QED BY <1>1, <2>1, StillServed DEF Had
  <1>3. t.pc \in {"store", "save"} =>
           \E i \in 1..current'[t.specifier] :
               /\ t.response = Served[t.specifier][i] /\ t.response.status # "failure"
    BY <1>1, StillServed DEF Following
  <1>4. /\ t.pc = "asking" /\ t.etag # None => HasEntry(t.specifier)'
        /\ t.pc \in {"open", "read"} /\ t.purpose = "validated" => HasEntry(t.link)'
    BY <1>1 DEF Following, Later, HasEntry
  <1> QED BY <1>1, <1>2, <1>3, <1>4 DEF Following, Reaches

\* A fetch stays right as servers change.
LEMMA StillCorrect ==
  ASSUME Later, NEW r, Correct(r)
  PROVE  Correct(r)'
  <1>1. r.url \in Url
    BY DEF Correct
  <1>2. PICK i \in 1..current[r.url] : Served[r.url][i].body = r.body /\ Served[r.url][i].status # "failure"
    BY DEF Correct, Had
  <1>3. i \in 1..current'[r.url]
    BY <1>1, StillServed
  <1>4. Had(r.url, r.body)'
    BY <1>2, <1>3 DEF Had
  <1> QED BY <1>4 DEF Correct

\* What another loader keeps in memory disturbs no fetch.
LEMMA OtherMemory ==
  ASSUME Later, NEW k \in Loader, memory'[k] = memory[k], fetched'[k] = fetched[k], Remembered(k)
  PROVE  Remembered(k)'
  <1>1. fetched[k].outcome = "file" => Correct(fetched[k])'
    <2>1. PICK r : r = fetched[k]
      OBVIOUS
    <2>2. r.outcome = "file" => Correct(r)
      BY <2>1 DEF Remembered
    <2>3. r.outcome = "file" => Correct(r)'
      BY <2>2, StillCorrect
    <2> QED BY <2>1, <2>3 DEF Correct, Had
  <1>2. ASSUME NEW u \in Root, memory[k][u] # Fetch!NoResult
        PROVE  (memory[k][u].outcome = "file" /\ memory[k][u].root = u /\ Correct(memory[k][u]))'
    <2>1. PICK r : r = memory[k][u]
      OBVIOUS
    <2>2. r.outcome = "file" /\ r.root = u /\ Correct(r)
      BY <1>2, <2>1 DEF Remembered
    <2>3. Correct(r)'
      BY <2>2, StillCorrect
    <2> QED BY <2>1, <2>2, <2>3 DEF Correct, Had
  <1> QED BY <1>1, <1>2 DEF Remembered

\* Why a fetch may fail
Justified(l) ==
    LET r == fetched[l] IN
    /\ r.outcome = "redirects" => To(Fetch!Target(r.root)) # None
    /\ r.outcome = "not cached" => setting[l] = "Only"
    /\ r.outcome = "location" => setting[l] # "ReloadAll" /\ Fetch!BareOnTheWay(r.root)
    /\ r.outcome # "panic"

\* A bare location that was served was served.
LEMMA StillBare ==
  ASSUME Fetch!ConstantsOK, Later, NEW u \in Url, Fetch!BareOnTheWay(u)
  PROVE  Fetch!BareOnTheWay(u)'
  <1>1. PICK n \in 0..MaxRedirects : \E i \in 1..current[Fetch!Leads[n][u]] : Served[Fetch!Leads[n][u]][i].bare
    BY DEF Fetch!BareOnTheWay
  <1>2. Fetch!Leads[n][u] \in Url
    BY LeadsIn
  <1> QED BY <1>1, <1>2, StillServed DEF Fetch!BareOnTheWay

\* A reason stays one.
LEMMA StillJustified ==
  ASSUME Fetch!ConstantsOK, Later, setting' = setting, NEW k \in Loader, fetched'[k] = fetched[k],
         Justified(k), fetched[k].outcome = "location" => fetched[k].root \in Url
  PROVE  Justified(k)'
  <1>1. fetched[k].outcome = "location" => Fetch!BareOnTheWay(fetched[k].root)'
    BY StillBare DEF Justified
  <1> QED BY <1>1 DEF Justified, To

\* One loader's step, of which only what it does to its own fetch is to be looked at.
LEMMA OneStep ==
  ASSUME Fetch!ConstantsOK, FetchInv, Fetch!TypeOK', Later, DiskServed', setting' = setting, NEW l \in Loader,
         \A k \in Loader : k # l => task'[k] = task[k] /\ memory'[k] = memory[k] /\ fetched'[k] = fetched[k],
         task'[l].pc # "idle" => Following(l)', Remembered(l)', Justified(l)'
  PROVE  FetchInv'
  <1>1. ASSUME NEW k \in Loader PROVE (task[k].pc # "idle" => Following(k))' /\ Remembered(k)' /\ Justified(k)'
    <2>1. CASE k = l
      BY <2>1
    <2>2. CASE k # l
      <3>1. task'[k] = task[k] /\ memory'[k] = memory[k] /\ fetched'[k] = fetched[k]
        BY <2>2
      <3>2. (task[k].pc # "idle" => Following(k)) /\ Remembered(k)
        BY DEF FetchInv
      <3>3. Justified(k)'
        <4>1. Justified(k) /\ (fetched[k].outcome = "location" => fetched[k].root \in Url)
          BY DEF FetchInv, Remembered, Fetch!FailuresJustified, Justified, To
        <4> QED BY <3>1, <4>1, StillJustified
      <3> QED BY <3>1, <3>2, <3>3, OtherLoader, OtherMemory
    <2> QED BY <2>1, <2>2
  <1>2. Fetch!FailuresJustified'
    BY <1>1 DEF Fetch!FailuresJustified, Justified, To
  <1> QED BY <1>1, <1>2 DEF FetchInv

\* The same where neither servers nor files change
LEMMA FetchQuietStep ==
  ASSUME Fetch!ConstantsOK, FetchInv, Fetch!TypeOK', UNCHANGED <<current, Fetch!disk, setting>>, NEW l \in Loader,
         \A k \in Loader : k # l => task'[k] = task[k] /\ memory'[k] = memory[k] /\ fetched'[k] = fetched[k],
         task'[l].pc # "idle" => Following(l)', Remembered(l)', Justified(l)'
  PROVE  FetchInv'
  <1>1. Fetch!TypeOK /\ DiskServed
    BY DEF FetchInv
  <1>2. Later
    <2>1. \A u \in Url : current[u] \in Nat
      BY <1>1 DEF Fetch!TypeOK
    <2> QED BY <2>1 DEF Later, HasEntry, Fetch!disk
  <1>3. DiskServed'
    BY <1>1 DEF DiskServed, Had, Fetch!disk
  <1> QED BY <1>2, <1>3, OneStep

\* A fetch that goes on.
LEMMA GoesOn ==
  ASSUME Fetch!ConstantsOK, FetchInv, UNCHANGED <<current, Fetch!disk, setting>>, NEW l \in Loader,
         NEW t \in Fetch!Task, Fetch!Goes(l, t), t.pc # "idle" => Following(l)'
  PROVE  FetchInv'
  <1>1. Fetch!TypeOK
    BY DEF FetchInv
  <1>2. /\ task' \in [Loader -> Fetch!Task] /\ task'[l] = t /\ \A k \in Loader : k # l => task'[k] = task[k]
        /\ asked' = asked /\ memory' = memory /\ fetched' = fetched
    BY <1>1, GoesType
  <1>3. Fetch!TypeOK'
    BY <1>1, <1>2 DEF Fetch!TypeOK, Fetch!disk
  <1>4. Remembered(l)'
    BY <1>2 DEF FetchInv, Remembered, Correct, Had
  <1>5. Justified(l)'
    BY <1>2 DEF FetchInv, Fetch!FailuresJustified, Justified, To, Fetch!BareOnTheWay
  <1> QED BY <1>2, <1>3, <1>4, <1>5, FetchQuietStep

\* A fetch that fails for a reason.
LEMMA FailsJustly ==
  ASSUME Fetch!ConstantsOK, FetchInv, UNCHANGED <<current, Fetch!disk, setting>>, NEW l \in Loader,
         NEW why \in {"io", "redirects", "location", "not cached"}, Fetch!Fails(l, why), task[l].pc # "idle",
         why = "redirects" => To(Fetch!Target(task[l].root)) # None,
         why = "not cached" => setting[l] = "Only",
         why = "location" => setting[l] # "ReloadAll" /\ Fetch!BareOnTheWay(task[l].root)
  PROVE  FetchInv'
  <1>1. Fetch!TypeOK /\ why \in Fetch!Outcome
    BY DEF FetchInv, Fetch!Outcome
  <1>2. /\ task' \in [Loader -> Fetch!Task] /\ task'[l] = Fetch!Idle /\ \A k \in Loader : k # l => task'[k] = task[k]
        /\ fetched' \in [Loader -> Fetch!Result] /\ \A k \in Loader : k # l => fetched'[k] = fetched[k]
        /\ fetched'[l].outcome = why /\ fetched'[l].root = task[l].root
        /\ asked' = asked /\ memory' = memory
    BY <1>1, FailsType
  <1>3. Fetch!TypeOK'
    BY <1>1, <1>2 DEF Fetch!TypeOK, Fetch!disk
  <1>4. Remembered(l)'
    <2>1. task[l].root \in Url /\ Remembered(l)
      BY DEF FetchInv, Following
    <2> QED BY <1>2, <2>1 DEF Remembered, Correct, Had
  <1>5. Justified(l)'
    <2>1. fetched'[l].outcome = "location" => setting'[l] # "ReloadAll" /\ Fetch!BareOnTheWay(fetched[l].root)'
      BY <1>2, Zenon DEF Fetch!BareOnTheWay
    <2>2. fetched'[l].outcome = "redirects" => To(Fetch!Target(fetched'[l].root)) # None
      BY <1>2
    <2> QED BY <1>2, <2>1, <2>2 DEF Justified, To
  <1>6. task'[l].pc = "idle"
    <2>1. Fetch!Idle.pc = "idle"
      BY DEF Fetch!Idle
    <2> QED BY <1>2, <2>1
  <1> QED BY <1>2, <1>3, <1>4, <1>5, <1>6, FetchQuietStep

\* A fetch that returns the right code.
LEMMA ReturnsRight ==
  ASSUME Fetch!ConstantsOK, FetchInv, Fetch!TypeOK, Later, DiskServed', current' = current, setting' = setting,
         content' \in [Url -> Body \cup {Empty, NoFile}], metadata' \in [Url -> Fetch!Headers \cup {NoFile}],
         NEW l \in Loader, NEW u \in Url, NEW b \in Body \cup {Empty}, Fetch!Returns(l, u, b),
         task[l].root \in Url, u = Fetch!Target(task[l].root), Had(u, b)
  PROVE  FetchInv'
  <1>1. /\ task' \in [Loader -> Fetch!Task] /\ task'[l] = Fetch!Idle /\ \A k \in Loader : k # l => task'[k] = task[k]
        /\ fetched' \in [Loader -> Fetch!Result] /\ \A k \in Loader : k # l => fetched'[k] = fetched[k]
        /\ fetched'[l] = [outcome |-> "file", root |-> task[l].root, url |-> u, body |-> b]
        /\ memory' \in [Loader -> [Url -> Fetch!Result]] /\ \A k \in Loader : k # l => memory'[k] = memory[k]
        /\ \A v \in Url : memory'[l][v] = IF v = task[l].root THEN fetched'[l] ELSE memory[l][v]
        /\ asked' = asked
    BY ReturnsType
  <1>2. Fetch!TypeOK'
    BY <1>1 DEF Fetch!TypeOK
  <1>3. Correct(fetched[l])'
    BY <1>1 DEF Correct, Had
  <1>4. Remembered(l)'
    <2>1. ASSUME NEW v \in Root, memory'[l][v] # Fetch!NoResult
          PROVE  (memory[l][v].outcome = "file" /\ memory[l][v].root = v /\ Correct(memory[l][v]))'
      <3>0. v \in Url
        BY DEF Fetch!ConstantsOK
      <3>1. CASE v = task[l].root
        <4>1. memory'[l][v] = fetched'[l]
          BY <1>1, <3>0, <3>1
        <4>2. fetched'[l].outcome = "file" /\ fetched'[l].root = v
          BY <1>1, <3>1
        <4> QED BY <1>3, <4>1, <4>2 DEF Correct, Had
      <3>2. CASE v # task[l].root
        <4>1. memory'[l][v] = memory[l][v]
          BY <1>1, <3>0, <3>2
        <4>2. memory[l][v].outcome = "file" /\ memory[l][v].root = v /\ Correct(memory[l][v])
          BY <2>1, <4>1 DEF FetchInv, Remembered
        <4> QED BY <4>1, <4>2 DEF Correct, Had
      <3> QED BY <3>1, <3>2
    <2> QED BY <1>1, <1>3, <2>1 DEF Remembered
  <1>5. Justified(l)'
    BY <1>1 DEF Justified
  <1>6. task'[l].pc = "idle"
    BY <1>1 DEF Fetch!Idle
  <1> QED BY <1>1, <1>2, <1>4, <1>5, <1>6, OneStep

\* The fetch of l in the invariant
LEMMA AtWork ==
  ASSUME Fetch!ConstantsOK, FetchInv, NEW l \in Loader, task[l].pc # "idle"
  PROVE  LET t == task[l] IN
         /\ Fetch!TypeOK /\ Following(l) /\ t \in Fetch!Task /\ setting \in Settings
         /\ t.root \in Url /\ t.specifier \in Url /\ t.limit \in -1..MaxRedirects
         /\ t.links \in -1..MaxRedirects /\ t.purpose \in {"use", "validated"}
         /\ t.pc # "remote" => t.limit \in 0..MaxRedirects
         /\ t.pc \in {"open", "read"} => t.link \in Url
         /\ MaxRedirects \in Nat
  <1>1. Fetch!TypeOK /\ Following(l) /\ task[l] \in Fetch!Task
    BY DEF FetchInv, Fetch!TypeOK
  <1>2. MaxRedirects \in Nat
    BY DEF Fetch!ConstantsOK
  <1> QED BY <1>1, <1>2 DEF Following, Fetch!Task, Fetch!TypeOK

\* A fetch begins.
LEMMA FetchCallInv == ASSUME Fetch!ConstantsOK, FetchInv, NEW l \in Loader, NEW u \in Root, Fetch!Fetch(l, u) PROVE FetchInv'
  <1>1. Fetch!TypeOK /\ u \in Url /\ MaxRedirects \in Nat
    BY DEF FetchInv, Fetch!ConstantsOK
  <1>2. /\ task[l].pc = "idle" /\ UNCHANGED <<current, Fetch!disk, setting, memory>>
        /\ asked' = [asked EXCEPT ![l] = Fetch!CodeNow]
    BY DEF Fetch!Fetch
  <1>3. asked' \in [Loader -> [Url -> Nat]]
    BY <1>1, <1>2 DEF Fetch!TypeOK, Fetch!CodeNow
  <1>4. CASE memory[l][u] # Fetch!NoResult
    <2>1. fetched' = [fetched EXCEPT ![l] = memory[l][u]] /\ task' = task
      BY <1>4 DEF Fetch!Fetch
    <2>2. /\ fetched' \in [Loader -> Fetch!Result] /\ fetched'[l] = memory[l][u]
          /\ \A k \in Loader : k # l => fetched'[k] = fetched[k]
      BY <1>1, <2>1 DEF Fetch!TypeOK
    <2>3. Fetch!TypeOK'
      BY <1>1, <1>2, <1>3, <2>1, <2>2 DEF Fetch!TypeOK, Fetch!disk
    <2>4. fetched'[l].outcome = "file" /\ Correct(fetched[l])'
      BY <1>2, <1>4, <2>2 DEF FetchInv, Remembered, Correct, Had
    <2>5. Remembered(l)'
      BY <1>2, <2>4 DEF FetchInv, Remembered, Correct, Had
    <2>6. Justified(l)'
      BY <2>4 DEF Justified
    <2> QED BY <1>2, <2>1, <2>2, <2>3, <2>5, <2>6, FetchQuietStep
  <1>5. CASE memory[l][u] = Fetch!NoResult
    <2> DEFINE t == [Fetch!Idle EXCEPT !.pc = "remote", !.root = u, !.specifier = u, !.limit = MaxRedirects]
    <2>1. t \in Fetch!Task
      <3>1. "remote" \in Fetch!Pc /\ MaxRedirects \in -1..MaxRedirects /\ u \in Url \cup {None}
        BY <1>1 DEF Fetch!Pc
      <3> QED BY <3>1, IdleType, TaskChange
    <2>2. t.pc = "remote" /\ t.root = u /\ t.specifier = u /\ t.limit = MaxRedirects
      BY DEF Fetch!Idle
    <2>3. fetched' = [fetched EXCEPT ![l] = Fetch!NoResult] /\ task' = [task EXCEPT ![l] = t]
      BY <1>5 DEF Fetch!Fetch
    <2> HIDE DEF t
    <2>4. Fetch!NoResult \in Fetch!Result /\ Fetch!NoResult.outcome = "none"
      BY DEF Fetch!NoResult, Fetch!Result, Fetch!Outcome
    <2>5. /\ task' \in [Loader -> Fetch!Task] /\ task'[l] = t /\ \A k \in Loader : k # l => task'[k] = task[k]
          /\ fetched' \in [Loader -> Fetch!Result] /\ fetched'[l] = Fetch!NoResult
          /\ \A k \in Loader : k # l => fetched'[k] = fetched[k]
      BY <1>1, <2>1, <2>3, <2>4 DEF Fetch!TypeOK
    <2>6. Fetch!TypeOK'
      BY <1>1, <1>2, <1>3, <2>5 DEF Fetch!TypeOK, Fetch!disk
    <2>7. Remembered(l)'
      BY <1>2, <2>4, <2>5 DEF FetchInv, Remembered, Correct, Had
    <2>8. Justified(l)'
      BY <2>4, <2>5 DEF Justified
    <2>9. Following(l)'
      <3>1. 0 \in 0..MaxRedirects /\ MaxRedirects >= 0 /\ MaxRedirects - MaxRedirects = 0
        BY <1>1
      <3>2. Fetch!Leads[0][u] = u
        BY <1>1, <3>1, LeadsStep
      <3> QED BY <1>1, <2>2, <2>5, <3>1, <3>2 DEF Following, Reaches, Fetch!Target
    <2> QED BY <1>2, <2>5, <2>6, <2>7, <2>8, <2>9, FetchQuietStep
  <1> QED BY <1>4, <1>5

\* fetch_remote is entered, again after each redirect.
LEMMA RemoteInv == ASSUME Fetch!ConstantsOK, FetchInv, NEW l \in Loader, Fetch!Remote(l) PROVE FetchInv'
  <1> DEFINE t == task[l]
  <1>1. t.pc = "remote" /\ UNCHANGED <<current, Fetch!disk, setting>>
    BY DEF Fetch!Remote
  <1>2. /\ Fetch!TypeOK /\ Following(l) /\ t \in Fetch!Task /\ t.root \in Url /\ t.specifier \in Url
        /\ t.limit \in -1..MaxRedirects /\ MaxRedirects \in Nat
    BY <1>1, AtWork
  <1>3. CASE t.limit < 0
    <2>1. Fetch!Fails(l, "redirects")
      BY <1>3 DEF Fetch!Remote
    <2>2. To(Fetch!Target(t.root)) # None
      BY <1>2, <1>3 DEF Following, Reaches
    <2> QED BY <1>1, <2>1, <2>2, FailsJustly
  <1>4. CASE t.limit >= 0 /\ setting[l] # "ReloadAll"
    <2> DEFINE n == [t EXCEPT !.pc = "open", !.link = t.specifier, !.links = t.limit, !.purpose = "use"]
    <2>1. Fetch!Goes(l, n)
      BY <1>2, <1>4 DEF Fetch!Remote
    <2>0. n \in Fetch!Task
      BY <1>2, TaskChange DEF Fetch!Pc
    <2>2. /\ n.pc = "open" /\ n.link = t.specifier /\ n.links = t.limit /\ n.purpose = "use"
          /\ n.root = t.root /\ n.specifier = t.specifier /\ n.limit = t.limit
      BY <1>2 DEF Fetch!Task
    <2> HIDE DEF n
    <2>3. task'[l] = n
      BY <1>2, <2>0, <2>1, GoesType
    <2>4. Following(l)'
      BY <1>1, <1>2, <1>4, <2>2, <2>3 DEF Following, Reaches
    <2> QED BY <1>1, <2>0, <2>1, <2>4, GoesOn
  <1>5. CASE t.limit >= 0 /\ setting[l] = "ReloadAll"
    <2> DEFINE n == [t EXCEPT !.pc = "download"]
    <2>1. Fetch!Goes(l, n)
      BY <1>2, <1>5 DEF Fetch!Remote
    <2>0. n \in Fetch!Task
      BY <1>2, TaskChange DEF Fetch!Pc
    <2>2. /\ n.pc = "download" /\ n.root = t.root /\ n.specifier = t.specifier /\ n.limit = t.limit
      BY <1>2 DEF Fetch!Task
    <2> HIDE DEF n
    <2>3. task'[l] = n
      BY <1>2, <2>0, <2>1, GoesType
    <2>4. Following(l)'
      BY <1>2, <1>5, <2>2, <2>3 DEF Following, Reaches
    <2> QED BY <1>1, <2>0, <2>1, <2>4, GoesOn
  <1> QED BY <1>2, <1>3, <1>4, <1>5

\* fetch_cached finds nothing: not after a 304.
LEMMA MissingInv ==
  ASSUME Fetch!ConstantsOK, FetchInv, UNCHANGED <<current, Fetch!disk, setting>>, NEW l \in Loader,
         task[l].pc \in {"open", "read"}, task[l].purpose = "use", Fetch!Missing(l)
  PROVE  FetchInv'
  <1> DEFINE t == task[l]
             n == [t EXCEPT !.pc = "download", !.link = None, !.links = 0]
  <1>1. /\ Fetch!TypeOK /\ Following(l) /\ t \in Fetch!Task /\ t.root \in Url /\ t.specifier \in Url
        /\ t.limit \in 0..MaxRedirects /\ MaxRedirects \in Nat /\ t.pc # "idle"
    BY AtWork
  <1>2. CASE setting[l] = "Only"
    <2>1. Fetch!Fails(l, "not cached")
      BY <1>2 DEF Fetch!Missing
    <2> QED BY <1>1, <1>2, <2>1, FailsJustly
  <1>3. CASE setting[l] # "Only"
    <2>1. Fetch!Goes(l, n)
      BY <1>3 DEF Fetch!Missing
    <2>0. n \in Fetch!Task
      <3>1. "download" \in Fetch!Pc /\ 0 \in -1..MaxRedirects
        BY <1>1 DEF Fetch!Pc
      <3> QED BY <1>1, <3>1, TaskChange
    <2>2. /\ n.pc = "download" /\ n.root = t.root /\ n.specifier = t.specifier /\ n.limit = t.limit
      BY <1>1 DEF Fetch!Task
    <2> HIDE DEF n
    <2>3. task'[l] = n
      BY <1>1, <2>0, <2>1, GoesType
    <2>4. Following(l)'
      BY <1>1, <2>2, <2>3 DEF Following, Reaches
    <2> QED BY <2>0, <2>1, <2>4, GoesOn
  <1> QED BY <1>2, <1>3

\* fetch_cached looks for the entry.
LEMMA OpenInv == ASSUME Fetch!ConstantsOK, FetchInv, NEW l \in Loader, Fetch!Open(l) PROVE FetchInv'
  <1> DEFINE t == task[l]
  <1>1. t.pc = "open" /\ UNCHANGED <<current, Fetch!disk, setting>>
    BY DEF Fetch!Open
  <1>2. /\ Fetch!TypeOK /\ Following(l) /\ t \in Fetch!Task /\ t.root \in Url /\ t.specifier \in Url /\ t.link \in Url
        /\ t.limit \in 0..MaxRedirects /\ MaxRedirects \in Nat /\ t.links \in -1..MaxRedirects
        /\ t.purpose \in {"use", "validated"}
    BY <1>1, AtWork
  <1>3. t.purpose = "validated" => t.links >= 0 /\ content[t.link] # NoFile
    BY <1>1, <1>2 DEF Following, HasEntry
  <1>4. CASE t.links < 0
    <2>1. Fetch!Fails(l, "redirects")
      BY <1>4 DEF Fetch!Open
    <2>2. To(Fetch!Target(t.root)) # None
      BY <1>1, <1>2, <1>3, <1>4 DEF Following, Reaches
    <2> QED BY <1>1, <2>1, <2>2, FailsJustly
  <1>5. CASE t.links >= 0 /\ content[t.link] = NoFile
    <2>1. Fetch!Missing(l)
      BY <1>2, <1>5 DEF Fetch!Open
    <2> QED BY <1>1, <1>2, <1>3, <1>5, <2>1, MissingInv
  <1>6. CASE t.links >= 0 /\ content[t.link] # NoFile
    <2> DEFINE n == [t EXCEPT !.pc = "read", !.opened = content[t.link]]
    <2>1. Fetch!Goes(l, n)
      BY <1>2, <1>6 DEF Fetch!Open
    <2>2. n \in Fetch!Task
      <3>1. "read" \in Fetch!Pc /\ content[t.link] \in Body \cup {Empty, None}
        BY <1>2, <1>6 DEF Fetch!Pc, Fetch!TypeOK
      <3> QED BY <1>2, <3>1, TaskChange
    <2>3. /\ n.pc = "read" /\ n.opened = content[t.link] /\ n.root = t.root /\ n.specifier = t.specifier
          /\ n.limit = t.limit /\ n.link = t.link /\ n.links = t.links /\ n.purpose = t.purpose
      BY <1>2 DEF Fetch!Task
    <2> HIDE DEF n
    <2>4. task'[l] = n
      BY <1>2, <2>1, <2>2, GoesType
    <2>5. Had(t.link, content[t.link])
      BY <1>2, <1>6 DEF FetchInv, DiskServed
    <2>6. Had(task[l].link, task[l].opened)'
      BY <1>1, <2>3, <2>4, <2>5 DEF Had, Fetch!disk
    <2>7. Following(l)'
      BY <1>1, <1>2, <1>6, <2>3, <2>4, <2>6 DEF Following, Reaches, HasEntry, Fetch!disk
    <2> QED BY <1>1, <2>1, <2>2, <2>7, GoesOn
  <1> QED BY <1>2, <1>4, <1>5, <1>6

\* fetch_cached reads it.
LEMMA ReadInv == ASSUME Fetch!ConstantsOK, Fetch!RedirectsStay, FetchInv, NEW l \in Loader, Fetch!Read(l) PROVE FetchInv'
  <1> DEFINE t == task[l]
             h == metadata[t.link]
  <1>1. t.pc = "read" /\ UNCHANGED <<current, Fetch!disk, setting>>
    BY DEF Fetch!Read
  <1>2. /\ Fetch!TypeOK /\ Following(l) /\ t \in Fetch!Task /\ t.root \in Url /\ t.specifier \in Url /\ t.link \in Url
        /\ t.limit \in 0..MaxRedirects /\ MaxRedirects \in Nat /\ t.links \in -1..MaxRedirects
        /\ t.purpose \in {"use", "validated"}
    BY <1>1, AtWork
  <1>3. /\ t.links \in 0..MaxRedirects /\ Had(t.link, t.opened)
        /\ t.purpose = "validated" => /\ metadata[t.link] # NoFile /\ t.link = t.specifier
                                      /\ To(t.link) = None
        /\ t.purpose = "use" => Reaches(t.links, t.link, t.root) /\ setting[l] # "ReloadAll"
    BY <1>1, <1>2 DEF Following, HasEntry
  <1>4. CASE h = NoFile
    <2>1. Fetch!Missing(l)
      BY <1>4 DEF Fetch!Read
    <2> QED BY <1>1, <1>2, <1>3, <1>4, <2>1, MissingInv
  <1>5. CASE h # NoFile
    <2>1. PICK i \in 1..current[t.link] :
              Served[t.link][i].status # "failure" /\ h = Fetch!HeadersOf(Served[t.link][i])
      BY <1>2, <1>5 DEF FetchInv, DiskServed
    <2>2. h.location = To(t.link) /\ h.bare = Served[t.link][i].bare
      BY <1>2, <2>1, Indices, SameLocation
    <2>3. CASE To(t.link) = None
      <3>1. Fetch!Returns(l, t.link, t.opened)
        BY <1>5, <2>2, <2>3 DEF Fetch!Read
      <3>2. t.link = Fetch!Target(t.root)
        <4>1. Reaches(t.limit, t.specifier, t.root)
          BY <1>2 DEF Following
        <4>2. CASE t.purpose = "use"
          BY <1>2, <1>3, <2>3, <4>2, Follow
        <4>3. CASE t.purpose = "validated"
          BY <1>2, <1>3, <2>3, <4>1, <4>3, Follow
        <4> QED BY <1>2, <4>2, <4>3
      <3>3. t.opened \in Body \cup {Empty}
        <4>1. PICK j \in 1..current[t.link] : Served[t.link][j].body = t.opened
          BY <1>3 DEF Had
        <4> QED BY <1>2, <4>1, Indices, ServedType
      <3>4. Later
        BY <1>1, <1>2, Indices DEF Later, HasEntry, Fetch!disk
      <3>5. DiskServed' /\ content' = content /\ metadata' = metadata /\ current' = current /\ setting' = setting
        BY <1>1 DEF FetchInv, DiskServed, Had, Fetch!disk
      <3>6. content \in [Url -> Body \cup {Empty, NoFile}] /\ metadata \in [Url -> Fetch!Headers \cup {NoFile}]
        BY <1>2 DEF Fetch!TypeOK
      <3> QED BY <1>2, <1>3, <3>1, <3>2, <3>3, <3>4, <3>5, <3>6, ReturnsRight
    <2>5. CASE To(t.link) # None /\ h.bare
      <3>1. Fetch!Fails(l, "location")
        BY <1>5, <2>2, <2>5 DEF Fetch!Read
      <3>2. t.purpose = "use" /\ setting[l] # "ReloadAll" /\ Reaches(t.links, t.link, t.root)
        BY <1>2, <1>3, <2>5
      <3>3. MaxRedirects - t.links \in 0..MaxRedirects /\ t.link = Fetch!Leads[MaxRedirects - t.links][t.root]
        BY <1>2, <1>3, <3>2 DEF Reaches
      <3>4. Fetch!BareOnTheWay(t.root)
        BY <2>1, <2>2, <2>5, <3>3 DEF Fetch!BareOnTheWay
      <3> QED BY <1>1, <3>1, <3>2, <3>4, FailsJustly
    <2>4. CASE To(t.link) # None /\ ~h.bare
      <3> DEFINE n == [t EXCEPT !.pc = "open", !.opened = None, !.link = h.location, !.links = Fetch!Fewer(t.links)]
      <3>1. Fetch!Goes(l, n)
        BY <1>5, <2>2, <2>4 DEF Fetch!Read
      <3>2. t.purpose = "use" /\ To(t.link) \in Url /\ Reaches(t.links - 1, To(t.link), t.root)
        BY <1>2, <1>3, <2>4, Follow
      <3>3. n \in Fetch!Task
        <4>1. "open" \in Fetch!Pc /\ t.links - 1 \in -1..MaxRedirects /\ h.location \in Url \cup {None}
          BY <1>2, <1>3, <2>2, <3>2 DEF Fetch!Pc
        <4> QED BY <1>2, <4>1, TaskChange DEF Fetch!Fewer
      <3>4. /\ n.pc = "open" /\ n.root = t.root /\ n.specifier = t.specifier
            /\ n.limit = t.limit /\ n.link = h.location /\ n.links = t.links - 1 /\ n.purpose = t.purpose
        BY <1>2 DEF Fetch!Task, Fetch!Fewer
      <3> HIDE DEF n
      <3>5. task'[l] = n
        BY <1>2, <3>1, <3>3, GoesType
      <3>6. Following(l)'
        BY <1>1, <1>2, <1>3, <2>2, <3>2, <3>4, <3>5 DEF Following, Reaches
      <3> QED BY <1>1, <3>1, <3>3, <3>6, GoesOn
    <2> QED BY <2>3, <2>4, <2>5
  <1> QED BY <1>4, <1>5

\* A request is sent.
LEMMA AskInv == ASSUME Fetch!ConstantsOK, FetchInv, NEW l \in Loader, Fetch!Ask(l) PROVE FetchInv'
  <1> DEFINE t == task[l]
             known == content[t.specifier] # NoFile /\ metadata[t.specifier] # NoFile
             tag == IF known THEN metadata[t.specifier].etag ELSE None
             n == [t EXCEPT !.pc = "asking", !.opened = None, !.etag = tag]
  <1>1. t.pc = "download" /\ UNCHANGED <<current, Fetch!disk, setting>> /\ Fetch!Goes(l, n)
    BY DEF Fetch!Ask
  <1>2. /\ Fetch!TypeOK /\ Following(l) /\ t \in Fetch!Task /\ t.root \in Url /\ t.specifier \in Url
        /\ t.limit \in 0..MaxRedirects /\ MaxRedirects \in Nat
    BY <1>1, AtWork
  <1>3. n \in Fetch!Task
    <2>1. "asking" \in Fetch!Pc /\ tag \in Etag \cup {None}
      BY <1>2 DEF Fetch!Pc, Fetch!TypeOK, Fetch!Headers
    <2> HIDE DEF tag
    <2> QED BY <1>2, <2>1, TaskChange
  <1>4. /\ n.pc = "asking" /\ n.root = t.root /\ n.specifier = t.specifier /\ n.limit = t.limit
        /\ n.etag = tag
    BY <1>2 DEF Fetch!Task
  <1>5. tag # None => HasEntry(t.specifier)
    BY DEF HasEntry
  <1> HIDE DEF n, tag
  <1>6. task'[l] = n
    BY <1>1, <1>2, <1>3, GoesType
  <1>7. Following(l)'
    BY <1>1, <1>2, <1>4, <1>5, <1>6 DEF Following, Reaches, HasEntry, Fetch!disk
  <1> QED BY <1>1, <1>3, <1>7, GoesOn

\* A response comes.
LEMMA AnsweredInv == ASSUME Fetch!ConstantsOK, Fetch!RedirectsStay, FetchInv, NEW l \in Loader, Fetch!Answered(l) PROVE FetchInv'
  <1> DEFINE t == task[l]
             i == current[t.specifier]
             r == Served[t.specifier][i]
  <1>1. t.pc = "asking" /\ UNCHANGED <<current, Fetch!disk, setting>>
    BY DEF Fetch!Answered
  <1>2. /\ Fetch!TypeOK /\ Following(l) /\ t \in Fetch!Task /\ t.root \in Url /\ t.specifier \in Url
        /\ t.limit \in 0..MaxRedirects /\ MaxRedirects \in Nat
    BY <1>1, AtWork
  <1>3. i \in DOMAIN Served[t.specifier] /\ i \in 1..i
    BY <1>2, Indices
  <1>4. r \in Fetch!Response
    BY <1>2, <1>3, ServedType
  <1>5. CASE r.status = "failure"
    <2>1. Fetch!Fails(l, "io")
      BY <1>5 DEF Fetch!Answered
    <2> QED BY <1>1, <2>1, FailsJustly
  <1>6. CASE r.status # "failure" /\ t.etag # None /\ r.etag = t.etag
    <2> DEFINE n == [t EXCEPT !.pc = "open", !.link = t.specifier, !.etag = None,
                              !.links = MaxRedirects, !.purpose = "validated"]
    <2>1. Fetch!Goes(l, n)
      BY <1>6 DEF Fetch!Answered
    <2>2. n \in Fetch!Task
      <3>1. "open" \in Fetch!Pc /\ MaxRedirects \in -1..MaxRedirects /\ t.specifier \in Url \cup {None}
        BY <1>2 DEF Fetch!Pc
      <3> QED BY <1>2, <3>1, TaskChange
    <2>3. /\ n.pc = "open" /\ n.root = t.root /\ n.specifier = t.specifier /\ n.limit = t.limit
          /\ n.link = t.specifier /\ n.links = MaxRedirects /\ n.purpose = "validated"
      BY <1>2 DEF Fetch!Task
    <2> HIDE DEF n
    <2>4. To(t.specifier) = None
      BY <1>2, <1>3, <1>6, ServedType, SameLocation
    <2>5. HasEntry(t.specifier)
      BY <1>1, <1>2, <1>6 DEF Following
    <2>6. task'[l] = n
      BY <1>2, <2>1, <2>2, GoesType
    <2>7. Following(l)'
      BY <1>1, <1>2, <2>3, <2>4, <2>5, <2>6 DEF Following, Reaches, HasEntry, Fetch!disk
    <2> QED BY <1>1, <2>1, <2>2, <2>7, GoesOn
  <1>7. CASE r.status # "failure" /\ ~(t.etag # None /\ r.etag = t.etag)
    <2> DEFINE n == [t EXCEPT !.pc = "store", !.etag = None, !.response = r]
    <2>1. Fetch!Goes(l, n)
      BY <1>7 DEF Fetch!Answered
    <2>2. n \in Fetch!Task
      <3>1. "store" \in Fetch!Pc /\ r \in Fetch!Response \cup {None}
        BY <1>4 DEF Fetch!Pc
      <3> HIDE DEF r
      <3> QED BY <1>2, <3>1, TaskChange
    <2>3. /\ n.pc = "store" /\ n.root = t.root /\ n.specifier = t.specifier /\ n.limit = t.limit
          /\ n.response = r
      BY <1>2 DEF Fetch!Task
    <2> HIDE DEF n
    <2>4. task'[l] = n
      BY <1>2, <2>1, <2>2, GoesType
    <2>5. Following(l)'
      BY <1>1, <1>2, <1>3, <1>7, <2>3, <2>4 DEF Following, Reaches
    <2> QED BY <1>1, <2>1, <2>2, <2>5, GoesOn
  <1> QED BY <1>5, <1>6, <1>7

\* The first file of an entry is written.
LEMMA StoreInv == ASSUME Fetch!ConstantsOK, FetchInv, NEW l \in Loader, Fetch!Store(l) PROVE FetchInv'
  <1> DEFINE t == task[l]
             n == [t EXCEPT !.pc = "save"]
  <1>1. /\ t.pc = "store" /\ Fetch!Goes(l, n) /\ UNCHANGED <<current, setting>> /\ metadata' = metadata
        /\ content' = [content EXCEPT ![t.specifier] = t.response.body]
    BY DEF Fetch!Store, Fetch!Order, Fetch!Writes
  <1>2. /\ Fetch!TypeOK /\ Following(l) /\ t \in Fetch!Task /\ t.root \in Url /\ t.specifier \in Url
        /\ t.limit \in 0..MaxRedirects /\ MaxRedirects \in Nat
    BY <1>1, AtWork
  <1>3. PICK i \in 1..current[t.specifier] :
            t.response = Served[t.specifier][i] /\ t.response.status # "failure"
    BY <1>1, <1>2 DEF Following
  <1>4. t.response.body \in Body \cup {Empty} /\ t.response.body # NoFile
    BY <1>2, <1>3, Indices, ServedType DEF Fetch!ConstantsOK
  <1>5. content' \in [Url -> Body \cup {Empty, NoFile}]
    BY <1>1, <1>4, <1>2 DEF Fetch!TypeOK
  <1>6. /\ n \in Fetch!Task /\ n.pc = "save" /\ n.root = t.root /\ n.specifier = t.specifier
        /\ n.limit = t.limit /\ n.response = t.response
    <2>1. n \in Fetch!Task
      BY <1>2, TaskChange DEF Fetch!Pc
    <2> QED BY <1>2, <2>1 DEF Fetch!Task
  <1> HIDE DEF n
  <1>7. /\ task' \in [Loader -> Fetch!Task] /\ task'[l] = n /\ \A k \in Loader : k # l => task'[k] = task[k]
        /\ asked' = asked /\ memory' = memory /\ fetched' = fetched
    BY <1>1, <1>2, <1>6, GoesType
  <1>8. Fetch!TypeOK'
    BY <1>1, <1>2, <1>5, <1>7 DEF Fetch!TypeOK
  <1>9. Later
    <2>1. ASSUME NEW u \in Url, HasEntry(u) PROVE HasEntry(u)'
      BY <1>1, <1>2, <1>4, <2>1 DEF HasEntry, Fetch!TypeOK
    <2> QED BY <1>1, <1>2, <2>1, Indices DEF Later
  <1>10. DiskServed'
    <2>1. ASSUME NEW u \in Url, content'[u] # NoFile PROVE Had(u, content[u])'
      <3>1. CASE u = t.specifier
        BY <1>1, <1>2, <1>3, <3>1 DEF Had, Fetch!TypeOK
      <3>2. CASE u # t.specifier
        BY <1>1, <1>2, <2>1, <3>2 DEF FetchInv, DiskServed, Had, Fetch!TypeOK
      <3> QED BY <3>1, <3>2
    <2> QED BY <1>1, <2>1 DEF FetchInv, DiskServed
  <1>11. Following(l)'
    BY <1>1, <1>2, <1>3, <1>6, <1>7 DEF Following, Reaches
  <1>12. Remembered(l)'
    BY <1>1, <1>7 DEF FetchInv, Remembered, Correct, Had
  <1>13. Justified(l)'
    BY <1>1, <1>7 DEF FetchInv, Fetch!FailuresJustified, Justified, To, Fetch!BareOnTheWay
  <1> QED BY <1>1, <1>7, <1>8, <1>9, <1>10, <1>11, <1>12, <1>13, OneStep

\* The second file is written.
LEMMA SaveInv == ASSUME Fetch!ConstantsOK, Fetch!RedirectsStay, FetchInv, NEW l \in Loader, Fetch!Save(l) PROVE FetchInv'
  <1> DEFINE t == task[l]
             r == t.response
  <1>1. /\ t.pc = "save" /\ UNCHANGED <<current, setting>> /\ content' = content
        /\ metadata' = [metadata EXCEPT ![t.specifier] = Fetch!HeadersOf(r)]
    BY DEF Fetch!Save, Fetch!Order, Fetch!Writes
  <1>2. /\ Fetch!TypeOK /\ Following(l) /\ t \in Fetch!Task /\ t.root \in Url /\ t.specifier \in Url
        /\ t.limit \in 0..MaxRedirects /\ MaxRedirects \in Nat
    BY <1>1, AtWork
  <1>3. PICK i \in 1..current[t.specifier] : r = Served[t.specifier][i] /\ r.status # "failure"
    BY <1>1, <1>2 DEF Following
  <1>4. /\ Fetch!HeadersOf(r) \in Fetch!Headers /\ Fetch!HeadersOf(r) # NoFile /\ r.body \in Body \cup {Empty}
        /\ r.location = To(t.specifier) /\ (r.status = "redirect" <=> To(t.specifier) # None)
    BY <1>2, <1>3, Indices, ServedType, SameLocation DEF Fetch!ConstantsOK
  <1>5. metadata' \in [Url -> Fetch!Headers \cup {NoFile}] /\ content' \in [Url -> Body \cup {Empty, NoFile}]
    BY <1>1, <1>2, <1>4 DEF Fetch!TypeOK
  <1>6. Later
    <2>1. ASSUME NEW u \in Url, HasEntry(u) PROVE HasEntry(u)'
      <3>1. CASE u = t.specifier
        BY <1>1, <1>2, <1>4, <2>1, <3>1 DEF HasEntry, Fetch!TypeOK
      <3>2. CASE u # t.specifier
        BY <1>1, <1>2, <2>1, <3>2 DEF HasEntry, Fetch!TypeOK
      <3> QED BY <3>1, <3>2
    <2> QED BY <1>1, <1>2, <2>1, Indices DEF Later
  <1>7. DiskServed'
    <2>1. ASSUME NEW u \in Url, metadata'[u] # NoFile
          PROVE  \E j \in 1..current'[u] : /\ Served[u][j].status # "failure"
                                           /\ metadata'[u] = Fetch!HeadersOf(Served[u][j])
      <3>1. CASE u = t.specifier
        BY <1>1, <1>2, <1>3, <3>1 DEF Fetch!TypeOK
      <3>2. CASE u # t.specifier
        BY <1>1, <1>2, <2>1, <3>2 DEF FetchInv, DiskServed, Fetch!TypeOK
      <3> QED BY <3>1, <3>2
    <2>2. ASSUME NEW u \in Url, content'[u] # NoFile PROVE Had(u, content[u])'
      BY <1>1, <2>2 DEF FetchInv, DiskServed, Had
    <2> QED BY <2>1, <2>2 DEF DiskServed
  <1>8. CASE r.status = "redirect"
    <2> DEFINE n == [t EXCEPT !.pc = "remote", !.specifier = r.location, !.limit = Fetch!Fewer(t.limit),
                              !.response = None]
    <2>1. Fetch!Goes(l, n)
      BY <1>8 DEF Fetch!Save
    <2>2. To(t.specifier) \in Url /\ Reaches(t.limit - 1, To(t.specifier), t.root)
      BY <1>2, <1>4, <1>8, Follow DEF Following
    <2>3. n \in Fetch!Task
      <3>1. "remote" \in Fetch!Pc /\ t.limit - 1 \in -1..MaxRedirects /\ r.location \in Url \cup {None}
        BY <1>2, <1>4, <2>2 DEF Fetch!Pc
      <3> QED BY <1>2, <3>1, TaskChange DEF Fetch!Fewer
    <2>4. n.pc = "remote" /\ n.root = t.root /\ n.specifier = r.location /\ n.limit = t.limit - 1
      BY <1>2 DEF Fetch!Task, Fetch!Fewer
    <2> HIDE DEF n
    <2>5. /\ task' \in [Loader -> Fetch!Task] /\ task'[l] = n /\ \A k \in Loader : k # l => task'[k] = task[k]
          /\ asked' = asked /\ memory' = memory /\ fetched' = fetched
      BY <1>2, <2>1, <2>3, GoesType
    <2>6. Fetch!TypeOK'
      BY <1>1, <1>2, <1>5, <2>5 DEF Fetch!TypeOK
    <2>7. Following(l)'
      BY <1>2, <1>4, <2>2, <2>4, <2>5 DEF Following, Reaches
    <2>8. Remembered(l)'
      BY <1>1, <2>5 DEF FetchInv, Remembered, Correct, Had
    <2>9. Justified(l)'
      BY <1>1, <2>5 DEF FetchInv, Fetch!FailuresJustified, Justified, To, Fetch!BareOnTheWay
    <2> QED BY <1>1, <1>6, <1>7, <2>5, <2>6, <2>7, <2>8, <2>9, OneStep
  <1>9. CASE r.status # "redirect"
    <2>1. Fetch!Returns(l, t.specifier, r.body)
      BY <1>9 DEF Fetch!Save
    <2>2. t.specifier = Fetch!Target(t.root)
      BY <1>2, <1>4, <1>9, Follow DEF Following
    <2>3. Had(t.specifier, r.body)
      BY <1>3 DEF Had
    <2> QED BY <1>1, <1>2, <1>4, <1>5, <1>6, <1>7, <2>1, <2>2, <2>3, ReturnsRight
  <1> QED BY <1>8, <1>9

\* A worker ends, wherever its fetch is.
LEMMA WorkerEndsInv == ASSUME Fetch!ConstantsOK, FetchInv, NEW l \in Loader, Fetch!WorkerEnds(l) PROVE FetchInv'
  <1>1. /\ task' = [task EXCEPT ![l] = Fetch!Idle] /\ asked' = [asked EXCEPT ![l] = [u \in Url |-> 1]]
        /\ memory' = [memory EXCEPT ![l] = [u \in Url |-> Fetch!NoResult]]
        /\ fetched' = [fetched EXCEPT ![l] = Fetch!NoResult] /\ UNCHANGED <<current, Fetch!disk, setting>>
    BY DEF Fetch!WorkerEnds
  <1>2. Fetch!TypeOK /\ Fetch!NoResult \in Fetch!Result /\ Fetch!NoResult.outcome = "none"
    BY DEF FetchInv, Fetch!NoResult, Fetch!Result, Fetch!Outcome
  <1>3. /\ task' \in [Loader -> Fetch!Task] /\ task'[l].pc = "idle"
        /\ \A k \in Loader : k # l => task'[k] = task[k]
    BY <1>1, <1>2, IdleType DEF Fetch!TypeOK
  <1>4. /\ memory' \in [Loader -> [Url -> Fetch!Result]] /\ \A u \in Url : memory'[l][u] = Fetch!NoResult
        /\ \A k \in Loader : k # l => memory'[k] = memory[k]
    BY <1>1, <1>2 DEF Fetch!TypeOK
  <1>5. /\ fetched' \in [Loader -> Fetch!Result] /\ fetched'[l] = Fetch!NoResult
        /\ \A k \in Loader : k # l => fetched'[k] = fetched[k]
    BY <1>1, <1>2 DEF Fetch!TypeOK
  <1>6. asked' \in [Loader -> [Url -> Nat]]
    BY <1>1, <1>2 DEF Fetch!TypeOK
  <1>7. Fetch!TypeOK'
    BY <1>1, <1>2, <1>3, <1>4, <1>5, <1>6 DEF Fetch!TypeOK, Fetch!disk
  <1>8. Remembered(l)' /\ Justified(l)'
    BY <1>2, <1>4, <1>5 DEF Remembered, Justified, Fetch!ConstantsOK
  <1> QED BY <1>1, <1>3, <1>4, <1>5, <1>7, <1>8, FetchQuietStep

\* A server has something new.
LEMMA ServerChangesInv == ASSUME Fetch!ConstantsOK, FetchInv, NEW u \in Url, Fetch!ServerChanges(u) PROVE FetchInv'
  <1>1. /\ current[u] < Len(Served[u]) /\ current' = [current EXCEPT ![u] = @ + 1]
        /\ UNCHANGED <<Fetch!disk, setting, task, asked, memory, fetched>>
    BY DEF Fetch!ServerChanges
  <1>2. Fetch!TypeOK /\ \A v \in Url : current[v] \in Nat /\ current[v] >= 1 /\ current[v] \in DOMAIN Served[v]
    BY Indices DEF FetchInv
  <1>3. /\ current' \in [Url -> Nat] /\ current'[u] = current[u] + 1
        /\ \A v \in Url : v # u => current'[v] = current[v]
    BY <1>1, <1>2 DEF Fetch!TypeOK
  <1>4. \A v \in Url : current'[v] \in DOMAIN Served[v]
    BY <1>1, <1>2, <1>3, Locations
  <1>5. Fetch!TypeOK'
    BY <1>1, <1>2, <1>3, <1>4 DEF Fetch!TypeOK, Fetch!disk
  <1>6. Later
    <2>1. \A v \in Url : current[v] <= current'[v] /\ current'[v] \in Nat
      BY <1>2, <1>3
    <2> QED BY <1>1, <1>2, <2>1 DEF Later, HasEntry, Fetch!disk
  <1>7. DiskServed'
    <2>1. ASSUME NEW v \in Url, content[v] # NoFile
          PROVE  \E i \in 1..current'[v] : Served[v][i].body = content[v] /\ Served[v][i].status # "failure"
      BY <1>6, <2>1, StillServed DEF FetchInv, DiskServed, Had
    <2>2. ASSUME NEW v \in Url, metadata[v] # NoFile
          PROVE  \E i \in 1..current'[v] : /\ Served[v][i].status # "failure"
                                           /\ metadata[v] = Fetch!HeadersOf(Served[v][i])
      BY <1>6, <2>2, StillServed DEF FetchInv, DiskServed
    <2> QED BY <1>1, <2>1, <2>2 DEF DiskServed, Had, Fetch!disk
  <1>8. \A k \in Loader : (task[k].pc # "idle" => Following(k))' /\ Remembered(k)'
    BY <1>1, <1>6, OtherLoader, OtherMemory DEF FetchInv
  <1>9. Fetch!FailuresJustified'
    <2>1. ASSUME NEW k \in Loader PROVE Justified(k)'
      <3>1. Justified(k) /\ (fetched[k].outcome = "location" => fetched[k].root \in Url)
        BY DEF FetchInv, Remembered, Fetch!FailuresJustified, Justified, To
      <3>2. fetched'[k] = fetched[k] /\ setting' = setting
        BY <1>1
      <3> QED BY <1>6, <3>1, <3>2, StillJustified
    <2> QED BY <2>1 DEF Fetch!FailuresJustified, Justified, To
  <1> QED BY <1>5, <1>7, <1>8, <1>9 DEF FetchInv

\* Every step keeps FetchInv.
LEMMA FetchNextInv == ASSUME Fetch!ConstantsOK, Fetch!RedirectsStay, FetchInv, [Fetch!Next]_Fetch!vars PROVE FetchInv'
  <1>1. CASE UNCHANGED Fetch!vars
    <2>1. /\ Fetch!TypeOK /\ Fetch!TypeOK' /\ DiskServed' /\ Fetch!FailuresJustified' /\ task' = task /\ memory' = memory
          /\ fetched' = fetched
      BY <1>1 DEF FetchInv, Fetch!vars, Fetch!disk, Fetch!TypeOK, DiskServed, Had, Fetch!FailuresJustified,
                  Fetch!BareOnTheWay
    <2>2. Later
      BY <1>1, <2>1, Indices DEF Later, HasEntry, Fetch!vars, Fetch!disk
    <2>3. \A k \in Loader : (task[k].pc # "idle" => Following(k))' /\ Remembered(k)'
      <3>1. setting' = setting
        BY <1>1 DEF Fetch!vars
      <3> QED BY <2>1, <2>2, <3>1, OtherLoader, OtherMemory DEF FetchInv
    <2> QED BY <2>1, <2>3 DEF FetchInv
  <1>2. ASSUME NEW l \in Loader, Fetch!IoFails(l) PROVE FetchInv'
    <2>1. Fetch!Fails(l, "io") /\ task[l].pc # "idle" /\ UNCHANGED <<current, Fetch!disk, setting>>
      BY <1>2 DEF Fetch!IoFails
    <2> QED BY <2>1, FailsJustly
  <1>3. ASSUME NEW l \in Loader, Fetch!Step(l) PROVE FetchInv'
    BY <1>3, RemoteInv, OpenInv, ReadInv, AskInv, AnsweredInv, StoreInv, SaveInv DEF Fetch!Step
  <1> QED BY <1>1, <1>2, <1>3, FetchCallInv, WorkerEndsInv, ServerChangesInv DEF Fetch!Next

\* It holds at first.
LEMMA FetchInitInv == ASSUME Fetch!ConstantsOK, Fetch!Init PROVE FetchInv
  <1>1. Fetch!TypeOK
    BY FetchInitType
  <1>2. Fetch!NoResult.outcome = "none" /\ Fetch!Idle.pc = "idle"
    BY IdleType DEF Fetch!NoResult
  <1>3. DiskServed
    BY DEF Fetch!Init, DiskServed
  <1>4. \A l \in Loader : fetched[l] = Fetch!NoResult /\ task[l] = Fetch!Idle /\ \A u \in Url : memory[l][u] = Fetch!NoResult
    BY DEF Fetch!Init
  <1>5. Fetch!FailuresJustified
    BY <1>2, <1>4 DEF Fetch!FailuresJustified
  <1>6. \A l \in Loader : Remembered(l)
    BY <1>2, <1>4 DEF Remembered, Fetch!ConstantsOK
  <1> QED BY <1>1, <1>2, <1>3, <1>4, <1>5, <1>6 DEF FetchInv

\* It is about what FetchCorrect says.
LEMMA InvCorrect == FetchInv => Fetch!FetchCorrect
  BY DEF FetchInv, Remembered, Correct, Had, Fetch!FetchCorrect

-----------------------------------------------------------------------------
(* ReloadIsFresh                                                           *)

\* What a step of loader k leaves alone, and where it may take k's own fetch.
LEMMA StepShape ==
  ASSUME Fetch!ConstantsOK, FetchInv, NEW k \in Loader, Fetch!Step(k) \/ Fetch!IoFails(k)
  PROVE  /\ current' = current /\ setting' = setting /\ asked' = asked /\ task[k].pc # "idle"
         /\ \A l \in Loader : l # k => task'[l] = task[l] /\ fetched'[l] = fetched[l]
         /\ fetched' = fetched \/ task'[k].pc = "idle"
  <1>1. Fetch!TypeOK
    BY DEF FetchInv
  <1>2. ASSUME NEW t, Fetch!Goes(k, t)
        PROVE  /\ asked' = asked /\ fetched' = fetched
               /\ \A l \in Loader : l # k => task'[l] = task[l] /\ fetched'[l] = fetched[l]
    BY <1>1, <1>2 DEF Fetch!Goes, Fetch!TypeOK
  <1>3. ASSUME NEW why, Fetch!Fails(k, why)
        PROVE  /\ asked' = asked /\ task'[k].pc = "idle"
               /\ \A l \in Loader : l # k => task'[l] = task[l] /\ fetched'[l] = fetched[l]
    BY <1>1, <1>3, IdleType DEF Fetch!Fails, Fetch!TypeOK
  <1>4. ASSUME NEW u, NEW b, Fetch!Returns(k, u, b)
        PROVE  /\ asked' = asked /\ task'[k].pc = "idle"
               /\ \A l \in Loader : l # k => task'[l] = task[l] /\ fetched'[l] = fetched[l]
    <2> DEFINE r == [outcome |-> "file", root |-> task[k].root, url |-> u, body |-> b]
    <2>1. task' = [task EXCEPT ![k] = Fetch!Idle] /\ fetched' = [fetched EXCEPT ![k] = r] /\ asked' = asked
      BY <1>4 DEF Fetch!Returns
    <2> HIDE DEF r
    <2> QED BY <1>1, <2>1, IdleType DEF Fetch!TypeOK
  <1>5. ASSUME Fetch!Missing(k)
        PROVE  /\ asked' = asked /\ (fetched' = fetched \/ task'[k].pc = "idle")
               /\ \A l \in Loader : l # k => task'[l] = task[l] /\ fetched'[l] = fetched[l]
    BY <1>2, <1>3, <1>5 DEF Fetch!Missing
  <1>6. CASE Fetch!Remote(k)
    BY <1>2, <1>3, <1>6 DEF Fetch!Remote
  <1>7. CASE Fetch!Open(k)
    BY <1>2, <1>3, <1>5, <1>7 DEF Fetch!Open
  <1>8. CASE Fetch!Read(k)
    BY <1>2, <1>3, <1>4, <1>5, <1>8 DEF Fetch!Read
  <1>9. CASE Fetch!Ask(k)
    BY <1>2, <1>9 DEF Fetch!Ask
  <1>10. CASE Fetch!Answered(k)
    BY <1>2, <1>3, <1>10 DEF Fetch!Answered
  <1>11. CASE Fetch!Store(k)
    BY <1>2, <1>11 DEF Fetch!Store
  <1>12. CASE Fetch!Save(k)
    BY <1>2, <1>4, <1>12 DEF Fetch!Save
  <1>13. CASE Fetch!IoFails(k)
    BY <1>3, <1>13 DEF Fetch!IoFails
  <1> QED BY <1>6, <1>7, <1>8, <1>9, <1>10, <1>11, <1>12, <1>13 DEF Fetch!Step

\* The beginning of a fetch
LEMMA FetchShape ==
  ASSUME Fetch!ConstantsOK, FetchInv, NEW k \in Loader, NEW u \in Root, Fetch!Fetch(k, u)
  PROVE  /\ UNCHANGED <<current, Fetch!disk, setting>> /\ task[k].pc = "idle"
         /\ \A l \in Loader : l # k => task'[l] = task[l] /\ fetched'[l] = fetched[l] /\ asked'[l] = asked[l]
         /\ \A v \in Url : asked'[k][v] \in {1, current[v]}
         /\ task'[k].pc = "idle" \/ (task'[k].pc = "remote" /\ fetched'[k] = Fetch!NoResult)
  <1>1. Fetch!TypeOK
    BY DEF FetchInv
  <1>2. /\ UNCHANGED <<current, Fetch!disk, setting>> /\ task[k].pc = "idle"
        /\ asked' = [asked EXCEPT ![k] = Fetch!CodeNow]
    BY DEF Fetch!Fetch
  <1>5. \A v \in Url : asked'[k][v] \in {1, current[v]}
    BY <1>1, <1>2 DEF Fetch!TypeOK, Fetch!CodeNow
  <1>3. CASE memory[k][u] # Fetch!NoResult
    <2>1. fetched' = [fetched EXCEPT ![k] = memory[k][u]] /\ task' = task
      BY <1>3 DEF Fetch!Fetch
    <2> QED BY <1>1, <1>2, <1>5, <2>1 DEF Fetch!TypeOK
  <1>4. CASE memory[k][u] = Fetch!NoResult
    <2> DEFINE t == [Fetch!Idle EXCEPT !.pc = "remote", !.root = u, !.specifier = u, !.limit = MaxRedirects]
    <2>1. fetched' = [fetched EXCEPT ![k] = Fetch!NoResult] /\ task' = [task EXCEPT ![k] = t]
      BY <1>4 DEF Fetch!Fetch
    <2>2. t.pc = "remote"
      BY DEF Fetch!Idle
    <2> HIDE DEF t
    <2> QED BY <1>1, <1>2, <1>5, <2>1, <2>2 DEF Fetch!TypeOK
  <1> QED BY <1>3, <1>4

\* The end of a worker
LEMMA WorkerEndsShape ==
  ASSUME Fetch!ConstantsOK, FetchInv, NEW k \in Loader, Fetch!WorkerEnds(k)
  PROVE  /\ UNCHANGED <<current, Fetch!disk, setting>>
         /\ \A l \in Loader : l # k => task'[l] = task[l] /\ fetched'[l] = fetched[l] /\ asked'[l] = asked[l]
         /\ asked'[k] = [u \in Url |-> 1] /\ task'[k].pc = "idle" /\ fetched'[k] = Fetch!NoResult
  BY IdleType DEF FetchInv, Fetch!TypeOK, Fetch!WorkerEnds

\* Who may only look at the cache never asks a server.
LEMMA ReadersStep ==
  ASSUME Fetch!ConstantsOK, FetchInv, NEW k \in Loader, setting[k] = "Only", Fetch!Step(k) \/ Fetch!IoFails(k),
         task[k].pc \in {"idle", "remote", "open", "read"}
  PROVE  UNCHANGED Fetch!disk /\ task'[k].pc \in {"idle", "remote", "open", "read"}
  <1>1. Fetch!TypeOK /\ task[k] \in Fetch!Task
    BY DEF FetchInv, Fetch!TypeOK
  <1>2. ASSUME NEW why, Fetch!Fails(k, why) PROVE task'[k].pc = "idle"
    BY <1>1, <1>2, IdleType DEF Fetch!Fails, Fetch!TypeOK
  <1>3. ASSUME NEW u, NEW b, Fetch!Returns(k, u, b) PROVE task'[k].pc = "idle"
    BY <1>1, <1>3, IdleType DEF Fetch!Returns, Fetch!TypeOK
  <1>4. ASSUME NEW t, Fetch!Goes(k, t) PROVE task'[k] = t
    BY <1>1, <1>4 DEF Fetch!Goes, Fetch!TypeOK
  <1>5. Fetch!Missing(k) => task'[k].pc = "idle"
    BY <1>2 DEF Fetch!Missing
  <1>6. CASE Fetch!Remote(k)
    <2> DEFINE n == [task[k] EXCEPT !.pc = "open", !.link = task[k].specifier, !.links = task[k].limit,
                                    !.purpose = "use"]
    <2>1. Fetch!Fails(k, "redirects") \/ Fetch!Goes(k, n)
      BY <1>6 DEF Fetch!Remote
    <2>2. n.pc = "open"
      BY <1>1 DEF Fetch!Task
    <2> HIDE DEF n
    <2>3. task'[k].pc \in {"idle", "open"}
      BY <1>2, <1>4, <2>1, <2>2
    <2> QED BY <1>6, <2>3 DEF Fetch!Remote
  <1>7. CASE Fetch!Open(k)
    <2> DEFINE n == [task[k] EXCEPT !.pc = "read", !.opened = content[task[k].link]]
    <2>1. Fetch!Fails(k, "redirects") \/ Fetch!Missing(k) \/ Fetch!Goes(k, n)
      BY <1>7 DEF Fetch!Open
    <2>2. n.pc = "read"
      BY <1>1 DEF Fetch!Task
    <2> HIDE DEF n
    <2>3. task'[k].pc \in {"idle", "read"}
      BY <1>2, <1>4, <1>5, <2>1, <2>2
    <2> QED BY <1>7, <2>3 DEF Fetch!Open
  <1>8. CASE Fetch!Read(k)
    <2> DEFINE t == task[k]
               h == metadata[t.link]
               n == [t EXCEPT !.pc = "open", !.opened = None, !.link = h.location, !.links = Fetch!Fewer(t.links)]
    <2>1. Fetch!Fails(k, "location") \/ Fetch!Missing(k) \/ Fetch!Goes(k, n) \/ Fetch!Returns(k, t.link, t.opened)
      BY <1>8 DEF Fetch!Read
    <2>2. n.pc = "open"
      BY <1>1 DEF Fetch!Task
    <2> HIDE DEF n, t
    <2>3. task'[k].pc \in {"idle", "open"}
      BY <1>2, <1>3, <1>4, <1>5, <2>1, <2>2
    <2> QED BY <1>8, <2>3 DEF Fetch!Read
  <1>9. task[k].pc \notin {"download", "asking", "store", "save"}
    OBVIOUS
  <1> QED BY <1>6, <1>7, <1>8, <1>9 DEF Fetch!Step, Fetch!IoFails, Fetch!Ask, Fetch!Answered, Fetch!Store, Fetch!Save

\* What a reloader that is alone at writing is after.
Reloads(l) == Reloading(l) /\ \A u \in Url : EntryCurrent(u)

\* Its step leaves that, and a file it returns is fresh.
Fine(l) == Reloads(l)' /\ (fetched'[l].outcome = "file" => Fetch!Fresh(l)')

\* A reload that fails returns nothing.
LEMMA FailureFine ==
  ASSUME Fetch!ConstantsOK, FetchInv, NEW l \in Loader, NEW why \in Fetch!Outcome \ {"file"}, Fetch!Fails(l, why),
         UNCHANGED <<current, Fetch!disk, setting>>, Reloads(l)
  PROVE  Fine(l)
  <1>1. Fetch!TypeOK
    BY DEF FetchInv
  <1>2. task'[l] = Fetch!Idle /\ fetched'[l].outcome = why
    BY <1>1, FailsType
  <1>3. task'[l].pc = "idle"
    BY <1>2, IdleType
  <1>4. \A u \in Url : EntryCurrent(u)'
    BY DEF EntryCurrent, Reloads, Fetch!disk
  <1> QED BY <1>2, <1>3, <1>4 DEF Fine, Reloads, Reloading

\* A fetch that goes on without a change of the cache.
LEMMA GoingFine ==
  ASSUME Fetch!ConstantsOK, FetchInv, ReloadInv, NEW l \in Loader, NEW n, Fetch!Goes(l, n), task[l].pc # "idle",
         UNCHANGED <<current, Fetch!disk, setting>>, Reloads(l), Reloading(l)'
  PROVE  Fine(l)
  <1>1. \A u \in Url : EntryCurrent(u)'
    BY DEF EntryCurrent, Reloads, Fetch!disk
  <1>2. fetched'[l].outcome # "file"
    BY DEF Fetch!Goes, ReloadInv, Fetch!NoResult
  <1> QED BY <1>1, <1>2 DEF Fine, Reloads

\* The reloader enters fetch_remote.
LEMMA RemoteFine ==
  ASSUME Fetch!ConstantsOK, FetchInv, ReloadInv, NEW l \in Loader, setting[l] = "ReloadAll", Reloads(l), Fetch!Remote(l)
  PROVE  Fine(l)
  <1> DEFINE t == task[l]
             n == [t EXCEPT !.pc = "download"]
  <1>1. t.pc = "remote" /\ UNCHANGED <<current, Fetch!disk, setting>> /\ (Fetch!Fails(l, "redirects") \/ Fetch!Goes(l, n))
    BY DEF Fetch!Remote
  <1>2. Fetch!TypeOK /\ t \in Fetch!Task
    BY <1>1, AtWork
  <1>3. CASE Fetch!Fails(l, "redirects")
    BY <1>1, <1>3, FailureFine DEF Fetch!Outcome
  <1>4. CASE Fetch!Goes(l, n)
    <2>1. n.pc = "download"
      BY <1>2 DEF Fetch!Task
    <2> HIDE DEF n
    <2>2. task'[l] = n
      BY <1>2, <1>4 DEF Fetch!Goes, Fetch!TypeOK
    <2>3. Reloading(l)'
      BY <2>1, <2>2 DEF Reloading
    <2> QED BY <1>1, <1>4, <2>3, GoingFine
  <1> QED BY <1>1, <1>3, <1>4

\* The reloader looks for the entry.
LEMMA OpenFine ==
  ASSUME Fetch!ConstantsOK, FetchInv, ReloadInv, NEW l \in Loader, Reloads(l), Fetch!Open(l)
  PROVE  Fine(l)
  <1> DEFINE t == task[l]
             n == [t EXCEPT !.pc = "read", !.opened = content[t.link]]
  <1>1. t.pc = "open" /\ UNCHANGED <<current, Fetch!disk, setting>>
    BY DEF Fetch!Open
  <1>2. Fetch!TypeOK /\ Following(l) /\ t \in Fetch!Task /\ t.link \in Url
    BY <1>1, AtWork
  <1>3. t.purpose = "validated" /\ SinceAsked(l, t.link, content[t.link])
    BY <1>1 DEF Reloads, Reloading
  <1>4. t.links >= 0 /\ content[t.link] # NoFile /\ t.links \in -1..MaxRedirects /\ MaxRedirects \in Nat
    BY <1>1, <1>2, <1>3, AtWork DEF Following, HasEntry
  <1>5. Fetch!Goes(l, n)
    BY <1>4 DEF Fetch!Open
  <1>6. n.pc = "read" /\ n.opened = content[t.link] /\ n.link = t.link /\ n.purpose = t.purpose
    BY <1>2 DEF Fetch!Task
  <1> HIDE DEF n
  <1>7. task'[l] = n /\ asked' = asked
    BY <1>2, <1>5 DEF Fetch!Goes, Fetch!TypeOK
  <1>8. SinceAsked(l, task[l].link, task[l].opened)'
    BY <1>1, <1>3, <1>6, <1>7 DEF SinceAsked
  <1>9. Reloading(l)'
    BY <1>3, <1>6, <1>7, <1>8 DEF Reloading
  <1> QED BY <1>1, <1>5, <1>9, GoingFine

\* The reloader reads the entry.
LEMMA ReadFine ==
  ASSUME Fetch!ConstantsOK, Fetch!RedirectsStay, FetchInv, ReloadInv, NEW l \in Loader, Reloads(l), Fetch!Read(l)
  PROVE  Fine(l)
  <1> DEFINE t == task[l]
             h == metadata[t.link]
  <1>1. t.pc = "read" /\ UNCHANGED <<current, Fetch!disk, setting>>
    BY DEF Fetch!Read
  <1>2. Fetch!TypeOK /\ Following(l) /\ t \in Fetch!Task /\ t.link \in Url /\ t.root \in Url
    BY <1>1, AtWork
  <1>3. t.purpose = "validated" /\ SinceAsked(l, t.link, t.opened)
    BY <1>1 DEF Reloads, Reloading
  <1>4. h # NoFile /\ To(t.link) = None /\ Had(t.link, t.opened)
    BY <1>1, <1>2, <1>3 DEF Following, HasEntry
  <1>5. PICK i \in 1..current[t.link] :
            Served[t.link][i].status # "failure" /\ h = Fetch!HeadersOf(Served[t.link][i])
    BY <1>2, <1>4 DEF FetchInv, DiskServed
  <1>6. h.location = None
    BY <1>2, <1>4, <1>5, Indices, SameLocation
  <1>7. Fetch!Returns(l, t.link, t.opened)
    BY <1>4, <1>6 DEF Fetch!Read
  <1>8. t.opened \in Body \cup {Empty}
    <2>1. PICK j \in 1..current[t.link] : Served[t.link][j].body = t.opened
      BY <1>4 DEF Had
    <2> QED BY <1>2, <2>1, Indices, ServedType
  <1>9. /\ task'[l] = Fetch!Idle /\ asked' = asked
        /\ fetched'[l] = [outcome |-> "file", root |-> t.root, url |-> t.link, body |-> t.opened]
    BY <1>2, <1>7, <1>8, ReturnsType
  <1>10. task'[l].pc = "idle" /\ fetched'[l].url = t.link /\ fetched'[l].body = t.opened
    BY <1>9, IdleType
  <1>11. Fetch!Fresh(l)'
    BY <1>1, <1>3, <1>9, <1>10 DEF Fetch!Fresh, SinceAsked
  <1>12. \A u \in Url : EntryCurrent(u)'
    BY <1>1 DEF EntryCurrent, Reloads, Fetch!disk
  <1> QED BY <1>10, <1>11, <1>12 DEF Fine, Reloads, Reloading

\* The reloader asks the server.
LEMMA AskFine ==
  ASSUME Fetch!ConstantsOK, FetchInv, ReloadInv, NEW l \in Loader, Reloads(l), Fetch!Ask(l)
  PROVE  Fine(l)
  <1> DEFINE t == task[l]
             known == content[t.specifier] # NoFile /\ metadata[t.specifier] # NoFile
             tag == IF known THEN metadata[t.specifier].etag ELSE None
             n == [t EXCEPT !.pc = "asking", !.opened = None, !.etag = tag]
  <1>1. t.pc = "download" /\ UNCHANGED <<current, Fetch!disk, setting>> /\ Fetch!Goes(l, n)
    BY DEF Fetch!Ask
  <1>2. Fetch!TypeOK /\ t \in Fetch!Task
    BY <1>1, AtWork
  <1>3. n.pc = "asking" /\ n.specifier = t.specifier /\ n.etag = tag
    BY <1>2 DEF Fetch!Task
  <1>4. tag # None => tag = metadata[t.specifier].etag
    OBVIOUS
  <1> HIDE DEF n, tag
  <1>5. task'[l] = n
    BY <1>1, <1>2 DEF Fetch!Goes, Fetch!TypeOK
  <1>6. Reloading(l)'
    BY <1>1, <1>3, <1>4, <1>5 DEF Reloading, Fetch!disk
  <1> QED BY <1>1, <1>6, GoingFine

\* The reloader is answered.
LEMMA AnsweredFine ==
  ASSUME Fetch!ConstantsOK, Fetch!RedirectsStay, Fetch!EtagsDiffer, FetchInv, ReloadInv, NEW l \in Loader, Reloads(l), Fetch!Answered(l)
  PROVE  Fine(l)
  <1> DEFINE t == task[l]
             u == t.specifier
             i == current[u]
             r == Served[u][i]
  <1>1. t.pc = "asking" /\ UNCHANGED <<current, Fetch!disk, setting>>
    BY DEF Fetch!Answered
  <1>2. Fetch!TypeOK /\ Following(l) /\ t \in Fetch!Task /\ u \in Url
    BY <1>1, AtWork
  <1>3. i \in DOMAIN Served[u] /\ i \in Nat /\ i >= 1 /\ asked[l][u] \in Nat /\ asked[l][u] <= i
    BY <1>2, Indices DEF ReloadInv, Fetch!TypeOK
  <1>4. i \in asked[l][u]..current[u]
    BY <1>3
  <1>5. CASE r.status = "failure"
    <2>1. Fetch!Fails(l, "io")
      BY <1>5 DEF Fetch!Answered
    <2> QED BY <1>1, <2>1, FailureFine DEF Fetch!Outcome
  <1>6. CASE r.status # "failure" /\ t.etag # None /\ r.etag = t.etag
    <2> DEFINE n == [t EXCEPT !.pc = "open", !.link = u, !.etag = None,
                              !.links = MaxRedirects, !.purpose = "validated"]
    <2>1. Fetch!Goes(l, n)
      BY <1>6 DEF Fetch!Answered
    <2>2. n.pc = "open" /\ n.link = u /\ n.purpose = "validated"
      BY <1>2 DEF Fetch!Task
    <2> HIDE DEF n
    <2>3. task'[l] = n /\ asked' = asked
      BY <1>2, <2>1 DEF Fetch!Goes, Fetch!TypeOK
    <2>4. content[u] = r.body
      BY <1>1, <1>2, <1>6 DEF Reloads, Reloading, EntryCurrent, Following, HasEntry
    <2>5. SinceAsked(l, u, content[u])
      BY <1>4, <2>4 DEF SinceAsked
    <2>6. SinceAsked(l, task[l].link, content[task[l].link])'
      BY <1>1, <2>2, <2>3, <2>5 DEF SinceAsked, Fetch!disk
    <2>7. Reloading(l)'
      BY <2>2, <2>3, <2>6 DEF Reloading
    <2> QED BY <1>1, <2>1, <2>7, GoingFine
  <1>7. CASE r.status # "failure" /\ ~(t.etag # None /\ r.etag = t.etag)
    <2> DEFINE n == [t EXCEPT !.pc = "store", !.etag = None, !.response = r]
    <2>1. Fetch!Goes(l, n)
      BY <1>7 DEF Fetch!Answered
    <2>2. n.pc = "store" /\ n.specifier = u /\ n.response = r
      BY <1>2 DEF Fetch!Task
    <2> HIDE DEF n
    <2>3. task'[l] = n /\ asked' = asked
      BY <1>2, <2>1 DEF Fetch!Goes, Fetch!TypeOK
    <2>4. NoNewer(metadata[u], u, i)
      <3> SUFFICES ASSUME metadata[u] # NoFile, NEW j \in DOMAIN Served[u], j > i, Served[u][j].etag # None
                   PROVE  metadata[u].etag # Served[u][j].etag
        BY DEF NoNewer
      <3>1. PICK k \in 1..current[u] : metadata[u] = Fetch!HeadersOf(Served[u][k])
        BY <1>2 DEF FetchInv, DiskServed
      <3>2. k \in DOMAIN Served[u] /\ k # j
        BY <1>2, <1>3, <3>1, Indices
      <3> QED BY <1>2, <3>1, <3>2 DEF Fetch!EtagsDiffer, Fetch!HeadersOf
    <2>6. \E j \in asked'[l][u]..current'[u] : r = Served[u][j] /\ NoNewer(metadata'[u], u, j)
      BY <1>1, <1>4, <2>3, <2>4 DEF Fetch!disk
    <2>7. Reloading(l)'
      BY <2>2, <2>3, <2>6 DEF Reloading, NoNewer
    <2> QED BY <1>1, <2>1, <2>7, GoingFine
  <1> QED BY <1>5, <1>6, <1>7

\* The reloader writes the first file.
LEMMA StoreFine ==
  ASSUME Fetch!ConstantsOK, FetchInv, ReloadInv, NEW l \in Loader, Reloads(l), Fetch!Store(l)
  PROVE  Fine(l)
  <1> DEFINE t == task[l]
             u == t.specifier
             r == t.response
             n == [t EXCEPT !.pc = "save"]
  <1>1. t.pc = "store" /\ UNCHANGED <<current, setting>> /\ Fetch!Goes(l, n)
        /\ content' = [content EXCEPT ![u] = r.body] /\ metadata' = metadata
    BY DEF Fetch!Store, Fetch!Writes, Fetch!Order
  <1>2. Fetch!TypeOK /\ t \in Fetch!Task /\ u \in Url
    BY <1>1, AtWork
  <1>3. PICK i \in asked[l][u]..current[u] : r = Served[u][i] /\ NoNewer(metadata[u], u, i)
    BY <1>1 DEF Reloads, Reloading
  <1>4. n.pc = "save" /\ n.specifier = u /\ n.response = r
    BY <1>2 DEF Fetch!Task
  <1> HIDE DEF n
  <1>5. task'[l] = n /\ asked' = asked /\ fetched' = fetched
    BY <1>1, <1>2 DEF Fetch!Goes, Fetch!TypeOK
  <1>6. content'[u] = r.body /\ \A v \in Url : v # u => content'[v] = content[v]
    BY <1>1, <1>2 DEF Fetch!TypeOK
  <1>7. \E j \in asked'[l][u]..current'[u] : r = Served[u][j] /\ NoNewer(metadata'[u], u, j)
    BY <1>1, <1>3, <1>5
  <1>8. Reloading(l)'
    BY <1>4, <1>5, <1>6, <1>7 DEF Reloading, NoNewer
  <1>9. ASSUME NEW v \in Url PROVE EntryCurrent(v)'
    <2>1. CASE v # u
      BY <1>1, <1>6, <2>1 DEF EntryCurrent, Reloads
    <2>2. CASE v = u
      <3> SUFFICES ASSUME metadata[u] # NoFile, Served[u][current[u]].etag # None,
                          metadata[u].etag = Served[u][current[u]].etag
                   PROVE  r.body = Served[u][current[u]].body
        BY <1>1, <1>6, <2>2 DEF EntryCurrent
      <3>1. current[u] \in DOMAIN Served[u] /\ current[u] \in Nat /\ asked[l][u] \in Nat
        BY <1>2, Indices DEF Fetch!TypeOK
      <3>2. ~(current[u] > i)
        BY <1>3, <3>1 DEF NoNewer
      <3>3. i = current[u]
        BY <1>3, <3>1, <3>2
      <3> QED BY <1>3, <3>3
    <2> QED BY <2>1, <2>2
  <1>10. fetched'[l].outcome # "file"
    BY <1>1, <1>5 DEF ReloadInv, Fetch!NoResult
  <1> QED BY <1>8, <1>9, <1>10 DEF Fine, Reloads

\* The reloader writes the second file.
LEMMA SaveFine ==
  ASSUME Fetch!ConstantsOK, Fetch!EtagsDiffer, FetchInv, ReloadInv, NEW l \in Loader, Reloads(l), Fetch!Save(l)
  PROVE  Fine(l)
  <1> DEFINE t == task[l]
             u == t.specifier
             r == t.response
  <1>1. t.pc = "save" /\ UNCHANGED <<current, setting>>
        /\ metadata' = [metadata EXCEPT ![u] = Fetch!HeadersOf(r)] /\ content' = content
    BY DEF Fetch!Save, Fetch!Writes, Fetch!Order
  <1>2. Fetch!TypeOK /\ t \in Fetch!Task /\ u \in Url /\ t.root \in Url
    BY <1>1, AtWork
  <1>3. PICK i \in asked[l][u]..current[u] : r = Served[u][i]
    BY <1>1 DEF Reloads, Reloading
  <1>4. content[u] = r.body
    BY <1>1 DEF Reloads, Reloading
  <1>5. current[u] \in DOMAIN Served[u] /\ current[u] \in Nat /\ asked[l][u] \in Nat /\ asked[l][u] >= 1
    BY <1>2, Indices DEF Fetch!TypeOK, ReloadInv
  <1>6. i \in DOMAIN Served[u]
    BY <1>2, <1>3, <1>5, Indices
  <1>7. metadata'[u] = Fetch!HeadersOf(r) /\ \A v \in Url : v # u => metadata'[v] = metadata[v]
    BY <1>1, <1>2 DEF Fetch!TypeOK
  <1>8. ASSUME NEW v \in Url PROVE EntryCurrent(v)'
    <2>1. CASE v # u
      BY <1>1, <1>7, <2>1 DEF EntryCurrent, Reloads
    <2>2. CASE v = u
      <3> SUFFICES ASSUME Served[u][current[u]].etag # None, r.etag = Served[u][current[u]].etag
                   PROVE  content[u] = Served[u][current[u]].body
        BY <1>1, <1>7, <2>2 DEF EntryCurrent, Fetch!HeadersOf
      <3>1. i = current[u]
        BY <1>2, <1>3, <1>5, <1>6 DEF Fetch!EtagsDiffer
      <3> QED BY <1>3, <1>4, <3>1
    <2> QED BY <2>1, <2>2
  <1>9. CASE r.status = "redirect"
    <2> DEFINE n == [t EXCEPT !.pc = "remote", !.specifier = r.location,
                              !.limit = Fetch!Fewer(t.limit), !.response = None]
    <2>1. Fetch!Goes(l, n)
      BY <1>9 DEF Fetch!Save
    <2>2. n.pc = "remote"
      BY <1>2 DEF Fetch!Task
    <2> HIDE DEF n
    <2>3. task'[l] = n /\ fetched' = fetched
      BY <1>2, <2>1 DEF Fetch!Goes, Fetch!TypeOK
    <2>4. Reloading(l)'
      BY <2>2, <2>3 DEF Reloading
    <2>5. fetched'[l].outcome # "file"
      BY <1>1, <2>3 DEF ReloadInv, Fetch!NoResult
    <2> QED BY <1>8, <2>4, <2>5 DEF Fine, Reloads
  <1>10. CASE r.status # "redirect"
    <2>1. Fetch!Returns(l, u, r.body)
      BY <1>10 DEF Fetch!Save
    <2>2. r.body \in Body \cup {Empty}
      BY <1>2, <1>3, <1>6, ServedType
    <2>3. /\ task'[l] = Fetch!Idle /\ asked' = asked
          /\ fetched'[l] = [outcome |-> "file", root |-> t.root, url |-> u, body |-> r.body]
      BY <1>2, <2>1, <2>2, ReturnsType
    <2>4. task'[l].pc = "idle" /\ fetched'[l].url = u /\ fetched'[l].body = r.body
      BY <2>3, IdleType
    <2>5. Fetch!Fresh(l)'
      BY <1>1, <1>3, <2>3, <2>4 DEF Fetch!Fresh
    <2> QED BY <1>8, <2>4, <2>5 DEF Fine, Reloads, Reloading
  <1> QED BY <1>9, <1>10

\* A step of the reloader
LEMMA OwnStep ==
  ASSUME Fetch!ConstantsOK, Fetch!RedirectsStay, Fetch!EtagsDiffer, FetchInv, ReloadInv, NEW l \in Loader,
         setting[l] = "ReloadAll", Reloads(l), Fetch!Step(l) \/ Fetch!IoFails(l)
  PROVE  Fine(l)
  <1>1. CASE Fetch!IoFails(l)
    BY <1>1, FailureFine DEF Fetch!IoFails, Fetch!Outcome
  <1>2. CASE Fetch!Step(l)
    BY <1>2, RemoteFine, OpenFine, ReadFine, AskFine, AnsweredFine, StoreFine, SaveFine DEF Fetch!Step
  <1> QED BY <1>1, <1>2

\* A step that leaves the cache, the servers and l's fetch alone.
LEMMA NotMine ==
  ASSUME ReloadInv, NEW l \in Loader, UNCHANGED <<current, Fetch!disk>>,
         asked'[l] = asked[l], task'[l] = task[l], fetched'[l] = fetched[l], Reloads(l)
  PROVE  Reloads(l)' /\ (task[l].pc # "idle" => Fine(l))
  <1>1. \A u \in Url : EntryCurrent(u)'
    BY DEF EntryCurrent, Reloads, Fetch!disk
  <1>2. ASSUME NEW u, NEW b, SinceAsked(l, u, b) PROVE SinceAsked(l, u, b)'
    BY <1>2 DEF SinceAsked
  <1>3. content' = content /\ metadata' = metadata
    BY DEF Fetch!disk
  <1> DEFINE t == task[l]
  <1>4. /\ t.pc = "open" => SinceAsked(l, t.link, content[t.link])'
        /\ t.pc = "read" => SinceAsked(l, t.link, t.opened)'
    BY <1>3 DEF Reloads, Reloading, SinceAsked
  <1>5. t.pc \in {"store", "save"} =>
           \E i \in asked'[l][t.specifier]..current'[t.specifier] :
               t.response = Served[t.specifier][i] /\ NoNewer(metadata'[t.specifier], t.specifier, i)
    BY <1>3 DEF Reloads, Reloading, NoNewer
  <1>6. Reloading(l)'
    BY <1>3, <1>4, <1>5 DEF Reloads, Reloading, NoNewer
  <1>7. task[l].pc # "idle" => fetched'[l].outcome # "file"
    BY DEF ReloadInv, Fetch!NoResult
  <1> QED BY <1>1, <1>6, <1>7 DEF Fine, Reloads

\* The server changes while the reloader is at work.
LEMMA ServerChangesFine ==
  ASSUME Fetch!ConstantsOK, Fetch!EtagsDiffer, FetchInv, ReloadInv, NEW l \in Loader, NEW u \in Url, Fetch!ServerChanges(u), Reloads(l)
  PROVE  Reloads(l)' /\ (task[l].pc # "idle" => Fine(l))
  <1>1. Fetch!TypeOK
    BY DEF FetchInv
  <1>2. /\ current' = [current EXCEPT ![u] = current[u] + 1] /\ current[u] < Len(Served[u])
        /\ UNCHANGED <<Fetch!disk, setting, task, asked, memory, fetched>>
    BY DEF Fetch!ServerChanges
  <1>3. content' = content /\ metadata' = metadata
    BY <1>2 DEF Fetch!disk
  <1>4. \A v \in Url : /\ current'[v] \in Nat /\ current[v] \in Nat /\ current[v] <= current'[v]
                       /\ v # u => current'[v] = current[v]
    BY <1>1, <1>2 DEF Fetch!TypeOK
  <1>5. current'[u] = current[u] + 1 /\ current'[u] \in DOMAIN Served[u]
    BY <1>1, <1>2, Indices, Locations DEF Fetch!TypeOK
  <1>6. ASSUME NEW v \in Url PROVE EntryCurrent(v)'
    <2>1. CASE v # u
      BY <1>3, <1>4, <2>1 DEF EntryCurrent, Reloads
    <2>2. CASE v = u
      <3> SUFFICES ASSUME metadata[u] # NoFile, Served[u][current'[u]].etag # None,
                          metadata[u].etag = Served[u][current'[u]].etag
                   PROVE  FALSE
        BY <1>3, <2>2 DEF EntryCurrent
      <3>1. PICK k \in 1..current[u] : metadata[u] = Fetch!HeadersOf(Served[u][k])
        BY DEF FetchInv, DiskServed
      <3>2. k \in DOMAIN Served[u] /\ k # current'[u]
        BY <1>1, <1>4, <1>5, <3>1, Indices
      <3> QED BY <1>5, <3>1, <3>2 DEF Fetch!EtagsDiffer, Fetch!HeadersOf
    <2> QED BY <2>1, <2>2
  <1> DEFINE t == task[l]
  <1>7. ASSUME t.pc # "idle" PROVE Reloading(l)'
    <2>1. t.specifier \in Url /\ (t.pc \in {"open", "read"} => t.link \in Url)
      BY <1>7, AtWork
    <2>2. \A v \in Url : asked[l][v] \in Nat
      BY <1>1 DEF Fetch!TypeOK
    <2>3. ASSUME NEW v \in Url, NEW b, SinceAsked(l, v, b)
          PROVE  \E i \in asked'[l][v]..current'[v] : Served[v][i].body = b
      BY <1>2, <1>4, <2>2, <2>3 DEF SinceAsked
    <2>4. ASSUME t.pc = "open"
          PROVE  \E i \in asked'[l][t.link]..current'[t.link] : Served[t.link][i].body = content'[t.link]
      BY <1>3, <2>1, <2>3, <2>4 DEF Reloads, Reloading
    <2>5. ASSUME t.pc = "read"
          PROVE  \E i \in asked'[l][t.link]..current'[t.link] : Served[t.link][i].body = t.opened
      BY <2>1, <2>3, <2>5 DEF Reloads, Reloading
    <2>6. ASSUME t.pc \in {"store", "save"}
          PROVE  \E i \in asked'[l][t.specifier]..current'[t.specifier] :
                     t.response = Served[t.specifier][i] /\ NoNewer(metadata'[t.specifier], t.specifier, i)
      <3>1. PICK i \in asked[l][t.specifier]..current[t.specifier] :
                t.response = Served[t.specifier][i] /\ NoNewer(metadata[t.specifier], t.specifier, i)
        BY <2>6 DEF Reloads, Reloading
      <3>2. i \in asked'[l][t.specifier]..current'[t.specifier]
        BY <1>2, <1>4, <2>1, <2>2
      <3>3. NoNewer(metadata'[t.specifier], t.specifier, i)
        BY <1>3, <3>1 DEF NoNewer
      <3> QED BY <3>1, <3>2, <3>3 DEF NoNewer
    <2> QED BY <1>2, <1>3, <2>4, <2>5, <2>6 DEF Reloads, Reloading, SinceAsked, NoNewer
  <1>8. CASE t.pc = "idle"
    BY <1>2, <1>6, <1>8 DEF Reloads, Reloading
  <1>9. CASE t.pc # "idle"
    <2>1. fetched'[l].outcome # "file"
      BY <1>2, <1>9 DEF ReloadInv, Fetch!NoResult
    <2> QED BY <1>6, <1>7, <1>9, <2>1 DEF Fine, Reloads
  <1> QED BY <1>8, <1>9

\* Any step, from the reloader's side
LEMMA ReloaderStep ==
  ASSUME Fetch!ConstantsOK, Fetch!RedirectsStay, Fetch!EtagsDiffer, FetchInv, ReloadInv, NEW l \in Loader,
         setting[l] = "ReloadAll", Fetch!Alone(l), Fetch!Next
  PROVE  Reloads(l)' /\ (task[l].pc # "idle" => Fine(l))
  <1>1. Reloads(l)
    BY DEF ReloadInv, Reloads
  <1>2. \A u \in Url : (UNCHANGED <<current, Fetch!disk>> => EntryCurrent(u)')
    BY <1>1 DEF EntryCurrent, Reloads, Fetch!disk
  <1>3. ASSUME NEW k \in Loader, NEW u \in Root, Fetch!Fetch(k, u)
        PROVE  Reloads(l)' /\ (task[l].pc # "idle" => Fine(l))
    <2>1. CASE k = l
      BY <1>2, <1>3, <2>1, FetchShape DEF Reloads, Reloading
    <2>2. CASE k # l
      BY <1>1, <1>3, <2>2, FetchShape, NotMine
    <2> QED BY <2>1, <2>2
  <1>4. ASSUME NEW k \in Loader, Fetch!Step(k) \/ Fetch!IoFails(k)
        PROVE  Reloads(l)' /\ (task[l].pc # "idle" => Fine(l))
    <2>1. CASE k = l
      BY <1>1, <1>4, <2>1, OwnStep DEF Fine
    <2>2. CASE k # l
      <3>1. setting[k] = "Only" /\ task[k].pc \in {"idle", "remote", "open", "read"}
        BY <2>2 DEF Fetch!Alone, ReloadInv
      <3>2. UNCHANGED Fetch!disk
        BY <1>4, <3>1, ReadersStep
      <3>3. /\ current' = current /\ asked'[l] = asked[l]
            /\ task'[l] = task[l] /\ fetched'[l] = fetched[l]
        BY <1>4, <2>2, StepShape
      <3> QED BY <1>1, <3>2, <3>3, NotMine
    <2> QED BY <2>1, <2>2
  <1>5. ASSUME NEW k \in Loader, Fetch!WorkerEnds(k)
        PROVE  Reloads(l)' /\ (task[l].pc # "idle" => Fine(l))
    <2>1. CASE k = l
      <3>1. fetched'[l].outcome # "file"
        BY <1>5, <2>1, WorkerEndsShape DEF Fetch!NoResult
      <3> QED BY <1>2, <1>5, <2>1, <3>1, WorkerEndsShape DEF Fine, Reloads, Reloading
    <2>2. CASE k # l
      BY <1>1, <1>5, <2>2, WorkerEndsShape, NotMine
    <2> QED BY <2>1, <2>2
  <1>6. ASSUME NEW u \in Url, Fetch!ServerChanges(u)
        PROVE  Reloads(l)' /\ (task[l].pc # "idle" => Fine(l))
    BY <1>1, <1>6, ServerChangesFine
  <1> QED BY <1>3, <1>4, <1>5, <1>6 DEF Fetch!Next

\* Every loader has asked by now, has no result while it fetches, and does not ask with "Only".
Tidy(l) ==
    /\ \A u \in Url : asked[l][u] <= current[u] /\ asked[l][u] >= 1
    /\ task[l].pc # "idle" => fetched[l] = Fetch!NoResult
    /\ setting[l] = "Only" => task[l].pc \in {"idle", "remote", "open", "read"}

\* What the reloader has kept is of the entry it reloads.
LEMMA TidyStep ==
  ASSUME Fetch!ConstantsOK, FetchInv, ReloadInv, Fetch!Next, NEW l \in Loader
  PROVE  Tidy(l)'
  <1>1. Tidy(l) /\ Fetch!TypeOK /\ (\A u \in Url : current[u] \in Nat /\ current[u] >= 1)
    BY Indices DEF ReloadInv, Tidy, FetchInv, Fetch!TypeOK
  <1>2. ASSUME NEW k \in Loader, NEW u \in Root, Fetch!Fetch(k, u) PROVE Tidy(l)'
    <2>1. CASE k = l
      BY <1>1, <1>2, <2>1, FetchShape DEF Tidy
    <2>2. CASE k # l
      BY <1>1, <1>2, <2>2, FetchShape DEF Tidy
    <2> QED BY <2>1, <2>2
  <1>3. ASSUME NEW k \in Loader, Fetch!Step(k) \/ Fetch!IoFails(k) PROVE Tidy(l)'
    <2>1. /\ current' = current /\ setting' = setting /\ asked' = asked
          /\ k # l => task'[l] = task[l] /\ fetched'[l] = fetched[l]
          /\ task[k].pc # "idle" /\ (fetched' = fetched \/ task'[k].pc = "idle")
      BY <1>3, StepShape
    <2>2. CASE k = l
      <3>1. setting[l] = "Only" => task'[l].pc \in {"idle", "remote", "open", "read"}
        BY <1>1, <1>3, <2>2, ReadersStep DEF Tidy
      <3> QED BY <1>1, <2>1, <2>2, <3>1 DEF Tidy
    <2>3. CASE k # l
      BY <1>1, <2>1, <2>3 DEF Tidy
    <2> QED BY <2>2, <2>3
  <1>4. ASSUME NEW k \in Loader, Fetch!WorkerEnds(k) PROVE Tidy(l)'
    <2>1. CASE k = l
      BY <1>1, <1>4, <2>1, WorkerEndsShape DEF Tidy
    <2>2. CASE k # l
      BY <1>1, <1>4, <2>2, WorkerEndsShape DEF Tidy
    <2> QED BY <2>1, <2>2
  <1>5. ASSUME NEW u \in Url, Fetch!ServerChanges(u) PROVE Tidy(l)'
    <2>1. UNCHANGED <<setting, task, asked, fetched>>
      BY <1>5 DEF Fetch!ServerChanges
    <2>2. \A v \in Url : current[v] <= current'[v] /\ current'[v] \in Nat /\ asked[l][v] \in Nat
      BY <1>1, <1>5 DEF Fetch!ServerChanges, Fetch!TypeOK
    <2> QED BY <1>1, <2>1, <2>2 DEF Tidy
  <1> QED BY <1>2, <1>3, <1>4, <1>5 DEF Fetch!Next

\* Every step keeps ReloadInv, and a reload that returns is fresh.
LEMMA FetchNextReload ==
  ASSUME Fetch!ConstantsOK, Fetch!RedirectsStay, Fetch!EtagsDiffer, FetchInv, ReloadInv, [Fetch!Next]_Fetch!vars
  PROVE  ReloadInv' /\ [Fetch!ReloadStep]_Fetch!vars
  <1>1. CASE UNCHANGED Fetch!vars
    <2>1. ReloadInv'
      BY <1>1 DEF Fetch!vars, Fetch!disk, ReloadInv, Reloading, Fetch!Alone, EntryCurrent, SinceAsked, NoNewer
    <2> QED BY <1>1, <2>1
  <1>2. CASE Fetch!Next
    <2>1. setting' = setting
      BY <1>2, StepShape, FetchShape, WorkerEndsShape DEF Fetch!Next, Fetch!ServerChanges
    <2>2. ASSUME NEW l \in Loader, setting[l] = "ReloadAll", Fetch!Alone(l)
          PROVE  Reloads(l)' /\ (task[l].pc # "idle" => Fine(l))
      BY <1>2, <2>2, ReloaderStep
    <2>3. ReloadInv'
      BY <1>2, <2>1, <2>2, TidyStep DEF ReloadInv, Tidy, Reloads, Fetch!Alone
    <2>4. Fetch!ReloadStep
      BY <2>2 DEF Fetch!ReloadStep, Fine
    <2> QED BY <2>3, <2>4
  <1> QED BY <1>1, <1>2

\* ReloadInv holds at first.
LEMMA FetchInitReload == ASSUME Fetch!ConstantsOK, Fetch!Init PROVE ReloadInv
  <1>1. \A l \in Loader : asked[l] = current /\ task[l] = Fetch!Idle /\ fetched[l] = Fetch!NoResult
    BY DEF Fetch!Init
  <1>2. Fetch!Idle.pc = "idle"
    BY DEF Fetch!Idle
  <1>3. \A u \in Url : current[u] = 1 /\ content[u] = NoFile
    BY DEF Fetch!Init
  <1> QED BY <1>1, <1>2, <1>3 DEF ReloadInv, Reloading, EntryCurrent

-----------------------------------------------------------------------------
(* IncrementalCache                                                        *)

\* update_file was called with it.
Was(f, s, t) == <<f, s, t>> \in recorded

RowsRecorded == \A f \in File : table[f] # None => Was(f, table[f].state, table[f].text)

StateKnown == \A p \in Program : prog[p].up => prog[p].state \in State

Positions(p) == 1..Len(prog[p].channel)
SentRecorded ==
    \A p \in Program : \A i \in Positions(p) :
        LET m == prog[p].channel[i]
        IN m.kind = "update" => Was(m.file, prog[p].state, m.text)

\* What a program skips and what it sends was recorded.
RecordedInv ==
    /\ Incremental!TypeOK /\ StateKnown /\ RowsRecorded /\ SentRecorded
    /\ Incremental!SkippedWasRecorded

\* The cache of a program that has just started
LEMMA Started ==
  ASSUME NEW s \in State, NEW previous \in [File -> Text \cup {None}]
  PROVE  /\ Incremental!NewCache(TRUE, s, previous) \in Incremental!Programs
         /\ Incremental!NewCache(TRUE, s, previous).state = s
         /\ Incremental!NewCache(TRUE, s, previous).previous = previous
         /\ Incremental!NewCache(TRUE, s, previous).channel = <<>>
  <1>1. <<>> \in Seq(Incremental!Message) /\ {} \in SUBSET (File \X Text)
    OBVIOUS
  <1> QED BY <1>1 DEF Incremental!NewCache, Incremental!Programs

\* The cache of a program that does not run
LEMMA OffOK ==
  /\ Incremental!Off \in Incremental!Programs /\ Incremental!Off.up = FALSE
  /\ Incremental!Off.channel = <<>>
  <1>1. <<>> \in Seq(Incremental!Message) /\ {} \in SUBSET (File \X Text)
    OBVIOUS
  <1> QED BY <1>1 DEF Incremental!Off, Incremental!NewCache, Incremental!Programs

\* Nothing is recorded at first, and nothing is there to skip or to send.
LEMMA InitRecorded == Incremental!ConstantsOK /\ Incremental!Init => RecordedInv
  <1> SUFFICES ASSUME Incremental!ConstantsOK, Incremental!Init PROVE RecordedInv
    OBVIOUS
  <1>2. Incremental!TypeOK
    BY OffOK DEF Incremental!Init, Incremental!TypeOK
  <1>3. \A p \in Program : ~prog[p].up /\ prog[p].channel = <<>>
    BY OffOK DEF Incremental!Init
  <1> QED BY <1>2, <1>3 DEF Incremental!Init, RecordedInv, StateKnown, RowsRecorded, SentRecorded,
                            Incremental!SkippedWasRecorded, Incremental!IsFileSame, Positions

\* A step of the program p alone, which forgets nothing that was recorded and leaves
\* rows of what was, keeps the invariant if the cache of p is right after it.
LEMMA OneProgram ==
  ASSUME RecordedInv, NEW p \in Program,
         prog' \in [Program -> Incremental!Programs],
         \A q \in Program : q # p => prog'[q] = prog[q],
         recorded \subseteq recorded', recorded' \subseteq File \X State \X Text,
         table' \in [File -> Incremental!Row \cup {None}],
         RowsRecorded',
         prog'[p].up => prog'[p].state \in State,
         \A i \in Positions(p)' :
             prog'[p].channel[i].kind = "update" =>
                 Was(prog[p].channel[i].file, prog[p].state, prog[p].channel[i].text)',
         \A f \in File, t \in Text : Incremental!IsFileSame(p, f, t)' => Was(f, prog[p].state, t)'
  PROVE  RecordedInv'
  <1>1. Incremental!TypeOK'
    BY DEF Incremental!TypeOK
  <1>2. StateKnown'
    BY DEF RecordedInv, StateKnown
  <1>3. SentRecorded'
    <2> SUFFICES ASSUME NEW q \in Program, NEW i \in Positions(q)',
                        prog'[q].channel[i].kind = "update"
                 PROVE  Was(prog[q].channel[i].file, prog[q].state, prog[q].channel[i].text)'
      BY DEF SentRecorded
    <2>1. CASE q = p
      BY <2>1
    <2>2. CASE q # p
      BY <2>2 DEF RecordedInv, SentRecorded, Was, Positions
    <2> QED BY <2>1, <2>2
  <1>4. Incremental!SkippedWasRecorded'
    <2> SUFFICES ASSUME NEW q \in Program, NEW f \in File, NEW t \in Text,
                        Incremental!IsFileSame(q, f, t)'
                 PROVE  <<f, prog'[q].state, t>> \in recorded'
      BY DEF Incremental!SkippedWasRecorded
    <2>1. CASE q = p
      BY <2>1 DEF Was
    <2>2. CASE q # p
      BY <2>2 DEF RecordedInv, Incremental!SkippedWasRecorded, Incremental!IsFileSame
    <2> QED BY <2>1, <2>2
  <1> QED BY <1>1, <1>2, <1>3, <1>4 DEF RecordedInv

WithChannel(p, channel, owed) == [prog EXCEPT ![p].channel = channel, ![p].owed = owed]

\* A step that sends or receives a message changes only what is sent and what is owed.
LEMMA ChannelStep ==
  ASSUME NEW p \in Program, prog \in [Program -> Incremental!Programs],
         NEW channel \in Seq(Incremental!Message), NEW owed \in SUBSET (File \X Text),
         prog' = WithChannel(p, channel, owed)
  PROVE  /\ prog' \in [Program -> Incremental!Programs]
         /\ \A q \in Program : q # p => prog'[q] = prog[q]
         /\ prog'[p].up = prog[p].up /\ prog'[p].state = prog[p].state
         /\ prog'[p].previous = prog[p].previous
         /\ prog'[p].task = prog[p].task /\ prog'[p].waits = prog[p].waits
         /\ prog'[p].waited = prog[p].waited
         /\ prog'[p].channel = channel /\ prog'[p].owed = owed
  <1>1. prog[p] \in Incremental!Programs
    OBVIOUS
  <1>2. prog'[p] = [[prog[p] EXCEPT !.channel = channel] EXCEPT !.owed = owed]
    BY DEF WithChannel
  <1>3. [prog[p] EXCEPT !.channel = channel] \in Incremental!Programs
    BY <1>1 DEF Incremental!Programs
  <1>4. prog'[p] \in Incremental!Programs
    BY <1>2, <1>3 DEF Incremental!Programs
  <1>5. prog' \in [Program -> Incremental!Programs] /\ \A q \in Program : q # p => prog'[q] = prog[q]
    BY <1>4 DEF WithChannel
  <1> QED BY <1>1, <1>2, <1>5 DEF Incremental!Programs

\* The task takes Exit.
LEMMA ExitStep ==
  ASSUME NEW p \in Program, prog \in [Program -> Incremental!Programs],
         prog' = [prog EXCEPT ![p].channel = <<>>, ![p].task = FALSE]
  PROVE  /\ prog' \in [Program -> Incremental!Programs]
         /\ \A q \in Program : q # p => prog'[q] = prog[q]
         /\ prog'[p].up = prog[p].up /\ prog'[p].state = prog[p].state
         /\ prog'[p].previous = prog[p].previous
         /\ prog'[p].waits = prog[p].waits /\ prog'[p].waited = prog[p].waited
         /\ prog'[p].owed = prog[p].owed
         /\ prog'[p].channel = <<>> /\ prog'[p].task = FALSE
  <1>1. prog[p] \in Incremental!Programs /\ <<>> \in Seq(Incremental!Message)
    OBVIOUS
  <1>2. prog'[p] = [[prog[p] EXCEPT !.channel = <<>>] EXCEPT !.task = FALSE]
    OBVIOUS
  <1>3. [prog[p] EXCEPT !.channel = <<>>] \in Incremental!Programs
    BY <1>1 DEF Incremental!Programs
  <1>4. prog'[p] \in Incremental!Programs
    BY <1>2, <1>3 DEF Incremental!Programs
  <1> QED BY <1>1, <1>2, <1>4 DEF Incremental!Programs

\* wait_completion is called.
LEMMA WaitStep ==
  ASSUME NEW p \in Program, prog \in [Program -> Incremental!Programs], Incremental!Wait(p)
  PROVE  /\ prog' \in [Program -> Incremental!Programs]
         /\ \A q \in Program : q # p => prog'[q] = prog[q]
         /\ prog'[p].up = prog[p].up /\ prog'[p].state = prog[p].state
         /\ prog'[p].previous = prog[p].previous /\ prog'[p].task = prog[p].task
         /\ prog'[p].waits = prog[p].waits + 1 /\ prog'[p].waited = prog[p].waited
         /\ prog'[p].owed = prog[p].owed
         /\ prog'[p].channel = IF prog[p].task THEN Append(prog[p].channel, Incremental!Exit)
                               ELSE prog[p].channel
  <1> DEFINE channel == IF prog[p].task THEN Append(prog[p].channel, Incremental!Exit) ELSE prog[p].channel
  <1>1. prog[p] \in Incremental!Programs /\ Incremental!Exit \in Incremental!Message
    BY DEF Incremental!Message
  <1>2. channel \in Seq(Incremental!Message)
    BY <1>1 DEF Incremental!Programs
  <1>3. prog'[p] = [[[prog[p] EXCEPT !.waits = @ + 1] EXCEPT !.handle = FALSE]
                       EXCEPT !.channel = channel]
    BY DEF Incremental!Wait
  <1>4. prog[p].waits + 1 \in Nat
    BY <1>1 DEF Incremental!Programs
  <1>5. [prog[p] EXCEPT !.waits = @ + 1] \in Incremental!Programs
    BY <1>1, <1>4 DEF Incremental!Programs
  <1>6. [[prog[p] EXCEPT !.waits = @ + 1] EXCEPT !.handle = FALSE] \in Incremental!Programs
    BY <1>5 DEF Incremental!Programs
  <1> HIDE DEF channel
  <1>7. prog'[p] \in Incremental!Programs
    BY <1>2, <1>3, <1>6 DEF Incremental!Programs
  <1>8. \A q \in Program : q # p => prog'[q] = prog[q]
    BY DEF Incremental!Wait
  <1>9. prog' \in [Program -> Incremental!Programs]
    BY <1>7, <1>8 DEF Incremental!Wait
  <1>10. /\ prog'[p].up = prog[p].up /\ prog'[p].state = prog[p].state
         /\ prog'[p].previous = prog[p].previous /\ prog'[p].task = prog[p].task
         /\ prog'[p].waits = prog[p].waits + 1 /\ prog'[p].waited = prog[p].waited
         /\ prog'[p].owed = prog[p].owed /\ prog'[p].channel = channel
    BY <1>1, <1>3 DEF Incremental!Programs
  <1> QED BY <1>8, <1>9, <1>10 DEF channel

\* Its first caller goes on.
LEMMA WaitReturnsStep ==
  ASSUME NEW p \in Program, prog \in [Program -> Incremental!Programs], Incremental!WaitReturns(p)
  PROVE  /\ prog' \in [Program -> Incremental!Programs]
         /\ \A q \in Program : q # p => prog'[q] = prog[q]
         /\ prog'[p].up = prog[p].up /\ prog'[p].state = prog[p].state
         /\ prog'[p].previous = prog[p].previous /\ prog'[p].task = prog[p].task
         /\ prog'[p].waits = prog[p].waits
         /\ prog'[p].owed = prog[p].owed /\ prog'[p].channel = prog[p].channel
  <1>1. prog[p] \in Incremental!Programs
    OBVIOUS
  <1>2. prog' = [prog EXCEPT ![p].waited = TRUE]
    BY DEF Incremental!WaitReturns
  <1>3. prog'[p] = [prog[p] EXCEPT !.waited = TRUE]
    BY <1>2
  <1>4. prog'[p] \in Incremental!Programs
    BY <1>1, <1>3 DEF Incremental!Programs
  <1>5. prog' \in [Program -> Incremental!Programs] /\ \A q \in Program : q # p => prog'[q] = prog[q]
    BY <1>2, <1>4
  <1> QED BY <1>1, <1>3, <1>5 DEF Incremental!Programs

\* Every step keeps the invariant.
LEMMA NextRecorded ==
  Incremental!ConstantsOK /\ RecordedInv /\ [Incremental!Next]_Incremental!vars => RecordedInv'
  <1> SUFFICES ASSUME Incremental!ConstantsOK, RecordedInv, [Incremental!Next]_Incremental!vars
               PROVE  RecordedInv'
    OBVIOUS
  <1>0. /\ Incremental!TypeOK
        /\ table \in [File -> Incremental!Row \cup {None}] /\ prog \in [Program -> Incremental!Programs]
        /\ recorded \subseteq File \X State \X Text
    BY DEF RecordedInv, Incremental!TypeOK
  <1>1. CASE UNCHANGED Incremental!vars
    BY <1>1 DEF Incremental!vars, RecordedInv, Incremental!TypeOK, StateKnown, RowsRecorded, SentRecorded,
                Incremental!SkippedWasRecorded, Incremental!IsFileSame, Was, Positions
  <1>2. ASSUME NEW p \in Program, NEW s \in State, NEW files \in SUBSET File, Incremental!Start(p, s, files)
        PROVE  RecordedInv'
    <2> DEFINE before == [f \in File |-> IF f \in files THEN Incremental!SourceHash(f, s) ELSE None]
    <2>1. \A f \in File : Incremental!SourceHash(f, s) \in Text \cup {None}
      BY <1>0 DEF Incremental!SourceHash, Incremental!Row
    <2>2. before \in [File -> Text \cup {None}]
      BY <2>1
    <2>3. \A f \in File, t \in Text : before[f] = t => <<f, s, t>> \in recorded
      BY DEF Incremental!ConstantsOK, Incremental!SourceHash, RecordedInv, RowsRecorded, Was
    <2> DEFINE r == Incremental!NewCache(TRUE, s, before)
    <2>4. prog' = [prog EXCEPT ![p] = r] /\ UNCHANGED <<table, recorded>>
      BY <1>2 DEF Incremental!Start
    <2> HIDE DEF before
    <2>6. r \in Incremental!Programs /\ r.state = s /\ r.previous = before /\ r.channel = <<>>
      BY <2>2, Started
    <2> HIDE DEF r
    <2>7. /\ prog' \in [Program -> Incremental!Programs] /\ prog'[p] = r
          /\ \A q \in Program : q # p => prog'[q] = prog[q]
      BY <1>0, <2>4, <2>6
    <2>8. Positions(p)' = {}
      BY <2>6, <2>7 DEF Positions
    <2>9. RowsRecorded'
      BY <2>4 DEF RecordedInv, RowsRecorded, Was
    <2>10. /\ recorded \subseteq recorded' /\ recorded' \subseteq File \X State \X Text
           /\ table' \in [File -> Incremental!Row \cup {None}]
      BY <1>0, <2>4
    <2>11. \A f \in File, t \in Text : Incremental!IsFileSame(p, f, t)' => Was(f, prog[p].state, t)'
      BY <2>3, <2>4, <2>6, <2>7 DEF Incremental!IsFileSame, Was
    <2> QED BY <2>6, <2>7, <2>8, <2>9, <2>10, <2>11, OneProgram
  <1>3. ASSUME NEW p \in Program, NEW f \in File, NEW t \in Text, Incremental!UpdateFile(p, f, t)
        PROVE  RecordedInv'
    <2>1. prog[p].up /\ prog[p].state \in State /\ prog[p] \in Incremental!Programs
      BY <1>0, <1>3 DEF Incremental!UpdateFile, RecordedInv, StateKnown
    <2>2. /\ recorded' = recorded \cup {<<f, prog[p].state, t>>}
          /\ table' = table
      BY <1>3 DEF Incremental!UpdateFile
    <2>3. recorded' \subseteq File \X State \X Text
      BY <1>0, <2>1, <2>2
    <2>4. RowsRecorded'
      BY <2>2 DEF RecordedInv, RowsRecorded, Was
    <2>5. /\ prog' \in [Program -> Incremental!Programs]
          /\ \A q \in Program : q # p => prog'[q] = prog[q]
          /\ prog'[p].up = prog[p].up /\ prog'[p].state = prog[p].state
          /\ prog'[p].previous = prog[p].previous
          /\ \/ prog'[p].channel = prog[p].channel
             \/ prog'[p].channel = Append(prog[p].channel, Incremental!Update(f, t))
      <3>1. CASE prog' = prog
        BY <1>0, <3>1
      <3>2. CASE prog' = [prog EXCEPT ![p].channel = Append(@, Incremental!Update(f, t)),
                            ![p].owed = IF prog[p].waits = 0 THEN @ \cup {<<f, t>>} ELSE @]
        <4> DEFINE channel == Append(prog[p].channel, Incremental!Update(f, t))
                   owed == IF prog[p].waits = 0 THEN prog[p].owed \cup {<<f, t>>}
                           ELSE prog[p].owed
        <4>1. Incremental!Update(f, t) \in Incremental!Message
          BY DEF Incremental!Update, Incremental!Message
        <4>2. channel \in Seq(Incremental!Message)
          BY <2>1, <4>1 DEF Incremental!Programs
        <4>3. owed \in SUBSET (File \X Text)
          BY <2>1 DEF Incremental!Programs
        <4>4. prog' = WithChannel(p, channel, owed)
          BY <1>0, <3>2 DEF WithChannel
        <4>5. channel = Append(prog[p].channel, Incremental!Update(f, t))
          OBVIOUS
        <4> HIDE DEF channel, owed
        <4> QED BY <1>0, <4>2, <4>3, <4>4, <4>5, ChannelStep
      <3> QED BY <1>3, <3>1, <3>2 DEF Incremental!UpdateFile
    <2>6. ASSUME NEW i \in Positions(p)', prog'[p].channel[i].kind = "update"
          PROVE  Was(prog[p].channel[i].file, prog[p].state, prog[p].channel[i].text)'
      <3>1. prog[p].channel \in Seq(Incremental!Message)
        BY <2>1 DEF Incremental!Programs
      <3>2. CASE i \in Positions(p) /\ prog'[p].channel[i] = prog[p].channel[i]
        BY <2>2, <2>5, <2>6, <3>2 DEF RecordedInv, SentRecorded, Was
      <3>3. CASE prog'[p].channel[i] = Incremental!Update(f, t)
        BY <2>2, <2>5, <3>3 DEF Incremental!Update, Was
      <3> QED BY <2>5, <3>1, <3>2, <3>3 DEF Positions
    <2>7. ASSUME NEW g \in File, NEW u \in Text, Incremental!IsFileSame(p, g, u)'
          PROVE  Was(g, prog[p].state, u)'
      BY <2>2, <2>5, <2>7 DEF RecordedInv, Incremental!SkippedWasRecorded, Incremental!IsFileSame, Was
    <2> QED BY <1>0, <2>1, <2>2, <2>3, <2>4, <2>5, <2>6, <2>7, OneProgram
  <1>4. ASSUME NEW p \in Program, Incremental!Receive(p) PROVE RecordedInv'
    <2> DEFINE m == Head(prog[p].channel)
    <2>1. /\ prog[p] \in Incremental!Programs /\ prog[p].channel # <<>>
          /\ prog[p].channel \in Seq(Incremental!Message)
          /\ prog[p].state \in State /\ recorded' = recorded
      BY <1>0, <1>4 DEF Incremental!Receive, Incremental!Programs, RecordedInv, StateKnown
    <2>2. m \in Incremental!Message /\ m = prog[p].channel[1] /\ 1 \in Positions(p)
      BY <2>1 DEF Positions
    <2>3. /\ prog' \in [Program -> Incremental!Programs]
          /\ \A q \in Program : q # p => prog'[q] = prog[q]
          /\ prog'[p].up = prog[p].up /\ prog'[p].state = prog[p].state
          /\ prog'[p].previous = prog[p].previous
          /\ prog'[p].channel \in {Tail(prog[p].channel), <<>>}
      <3>1. CASE prog' = [prog EXCEPT ![p].channel = <<>>, ![p].task = FALSE]
        BY <1>0, <3>1, ExitStep
      <3>2. CASE prog' = [prog EXCEPT ![p].channel = Tail(@), ![p].owed = @ \ {<<m.file, m.text>>}]
        <4> DEFINE channel == Tail(prog[p].channel)
                   owed == prog[p].owed \ {<<m.file, m.text>>}
        <4>1. channel \in Seq(Incremental!Message) /\ owed \in SUBSET (File \X Text)
          BY <2>1 DEF Incremental!Programs
        <4>2. prog' = WithChannel(p, channel, owed)
          BY <1>0, <3>2 DEF WithChannel
        <4>3. channel = Tail(prog[p].channel)
          OBVIOUS
        <4> HIDE DEF channel, owed, m
        <4> QED BY <1>0, <4>1, <4>2, <4>3, ChannelStep
      <3> QED BY <1>4, <3>1, <3>2 DEF Incremental!Receive
    <2>4. table' \in [File -> Incremental!Row \cup {None}] /\ RowsRecorded'
      <3>1. CASE table' = table
        BY <1>0, <2>1, <3>1 DEF RecordedInv, RowsRecorded, Was
      <3>2. CASE /\ m.kind = "update"
                 /\ table' = [table EXCEPT ![m.file] = [state |-> prog[p].state, text |-> m.text]]
        <4>1. m.file \in File /\ m.text \in Text
          BY <2>2, <3>2 DEF Incremental!Message, Incremental!Exit
        <4>2. Was(m.file, prog[p].state, m.text)
          BY <2>2, <3>2 DEF RecordedInv, SentRecorded
        <4>3. [state |-> prog[p].state, text |-> m.text] \in Incremental!Row
          BY <2>1, <4>1 DEF Incremental!Row
        <4> HIDE DEF m
        <4>4. table' \in [File -> Incremental!Row \cup {None}]
          BY <1>0, <3>2, <4>1, <4>3
        <4>5. ASSUME NEW f \in File, table'[f] # None
              PROVE  Was(f, table[f].state, table[f].text)'
          <5>1. CASE f = m.file
            BY <1>0, <2>1, <3>2, <4>1, <4>2, <5>1 DEF Was
          <5>2. CASE f # m.file
            BY <1>0, <2>1, <3>2, <4>1, <4>5, <5>2 DEF Was, RecordedInv, RowsRecorded
          <5> QED BY <5>1, <5>2
        <4> QED BY <4>4, <4>5 DEF RowsRecorded
      <3> QED BY <1>4, <3>1, <3>2 DEF Incremental!Receive
    <2>5. ASSUME NEW i \in Positions(p)', prog'[p].channel[i].kind = "update"
          PROVE  Was(prog[p].channel[i].file, prog[p].state, prog[p].channel[i].text)'
      <3>1. prog'[p].channel = Tail(prog[p].channel)
        <4>1. CASE prog'[p].channel = <<>>
          BY <4>1 DEF Positions
        <4> QED BY <2>3, <4>1
      <3>2. i + 1 \in Positions(p) /\ prog'[p].channel[i] = prog[p].channel[i + 1]
        BY <2>1, <3>1 DEF Positions
      <3> QED BY <2>1, <2>3, <2>5, <3>2 DEF RecordedInv, SentRecorded, Was
    <2>6. ASSUME NEW g \in File, NEW u \in Text, Incremental!IsFileSame(p, g, u)'
          PROVE  Was(g, prog[p].state, u)'
      BY <2>1, <2>3, <2>6 DEF RecordedInv, Incremental!SkippedWasRecorded, Incremental!IsFileSame, Was
    <2>7. recorded \subseteq recorded' /\ recorded' \subseteq File \X State \X Text
      BY <1>0, <2>1
    <2> QED BY <2>1, <2>3, <2>4, <2>5, <2>6, <2>7, OneProgram
  <1>5. ASSUME NEW p \in Program, Incremental!Wait(p) PROVE RecordedInv'
    <2>1. /\ prog[p] \in Incremental!Programs /\ prog[p].channel \in Seq(Incremental!Message)
          /\ prog[p].state \in State /\ recorded' = recorded /\ table' = table
      BY <1>0, <1>5 DEF Incremental!Wait, Incremental!Programs, RecordedInv, StateKnown
    <2>2. /\ prog' \in [Program -> Incremental!Programs]
          /\ \A q \in Program : q # p => prog'[q] = prog[q]
          /\ prog'[p].up = prog[p].up /\ prog'[p].state = prog[p].state
          /\ prog'[p].previous = prog[p].previous
          /\ prog'[p].channel = IF prog[p].task THEN Append(prog[p].channel, Incremental!Exit)
                                ELSE prog[p].channel
      BY <1>0, <1>5, WaitStep
    <2>3. ASSUME NEW i \in Positions(p)', prog'[p].channel[i].kind = "update"
          PROVE  Was(prog[p].channel[i].file, prog[p].state, prog[p].channel[i].text)'
      <3>1. Incremental!Exit.kind # "update"
        BY DEF Incremental!Exit
      <3>2. i \in Positions(p) /\ prog'[p].channel[i] = prog[p].channel[i]
        BY <2>1, <2>2, <2>3, <3>1 DEF Positions
      <3> QED BY <2>1, <2>2, <2>3, <3>2 DEF RecordedInv, SentRecorded, Was
    <2> QED BY <1>0, <2>1, <2>2, <2>3, OneProgram
              DEF RecordedInv, RowsRecorded, Incremental!SkippedWasRecorded, Incremental!IsFileSame, Was
  <1>6. ASSUME NEW p \in Program, Incremental!WaitReturns(p) PROVE RecordedInv'
    <2>1. prog[p].state \in State /\ recorded' = recorded /\ table' = table
      BY <1>0, <1>6 DEF Incremental!WaitReturns, RecordedInv, StateKnown
    <2>2. /\ prog' \in [Program -> Incremental!Programs]
          /\ \A q \in Program : q # p => prog'[q] = prog[q]
          /\ prog'[p].up = prog[p].up /\ prog'[p].state = prog[p].state
          /\ prog'[p].previous = prog[p].previous /\ prog'[p].channel = prog[p].channel
      BY <1>0, <1>6, WaitReturnsStep
    <2>3. \A i \in Positions(p)' :
              prog'[p].channel[i].kind = "update" =>
                  Was(prog[p].channel[i].file, prog[p].state, prog[p].channel[i].text)'
      BY <2>1, <2>2 DEF RecordedInv, SentRecorded, Was, Positions
    <2>4. \A f \in File, t \in Text : Incremental!IsFileSame(p, f, t)' => Was(f, prog[p].state, t)'
      BY <2>1, <2>2 DEF RecordedInv, Incremental!SkippedWasRecorded, Incremental!IsFileSame, Was
    <2>5. RowsRecorded'
      BY <2>1 DEF RecordedInv, RowsRecorded, Was
    <2> QED BY <1>0, <2>1, <2>2, <2>3, <2>4, <2>5, OneProgram
  <1>7. ASSUME NEW p \in Program, Incremental!Stop(p) PROVE RecordedInv'
    <2>1. prog' = [prog EXCEPT ![p] = Incremental!Off] /\ recorded' = recorded /\ table' = table
      BY <1>7 DEF Incremental!Stop
    <2>2. /\ prog' \in [Program -> Incremental!Programs] /\ prog'[p] = Incremental!Off
          /\ \A q \in Program : q # p => prog'[q] = prog[q]
      BY <1>0, <2>1, OffOK
    <2>3. ~prog'[p].up /\ prog'[p].channel = <<>>
      BY <2>2, OffOK
    <2>4. Positions(p)' = {} /\ \A f \in File, t \in Text : ~Incremental!IsFileSame(p, f, t)'
      BY <2>3 DEF Positions, Incremental!IsFileSame
    <2>5. RowsRecorded'
      BY <2>1 DEF RecordedInv, RowsRecorded, Was
    <2> QED BY <1>0, <2>1, <2>2, <2>3, <2>4, <2>5, OneProgram
  <1> QED BY <1>1, <1>2, <1>3, <1>4, <1>5, <1>6, <1>7 DEF Incremental!Next

\* SkippedWasRecorded of IncrementalCache: a file that is skipped was recorded, by this
\* program or another, with this text and under this configuration.
THEOREM SkippedCorrect ==
  ASSUME Incremental!ConstantsOK PROVE Incremental!Spec => []Incremental!SkippedWasRecorded
  <1>1. RecordedInv => Incremental!SkippedWasRecorded
    BY DEF RecordedInv
  <1> QED BY <1>1, InitRecorded, NextRecorded, PTL DEF Incremental!Spec

\* TypeOK of IncrementalCache, for every value of the constants.
THEOREM ProgramsTyped == ASSUME Incremental!ConstantsOK PROVE Incremental!Spec => []Incremental!TypeOK
  <1>1. RecordedInv => Incremental!TypeOK
    BY DEF RecordedInv
  <1> QED BY <1>1, InitRecorded, NextRecorded, PTL DEF Incremental!Spec

-----------------------------------------------------------------------------

\* What is owed is on its way, and nothing before it ends the task.
OnItsWay(p, e) ==
    \E i \in Positions(p) :
        /\ prog[p].channel[i] = Incremental!Update(e[1], e[2])
        /\ \A j \in 1..(i - 1) : prog[p].channel[j] # Incremental!Exit

OwedOK(p) ==
    /\ prog[p].task => \A e \in prog[p].owed : OnItsWay(p, e)
    /\ ~prog[p].task => prog[p].owed = {} /\ prog[p].channel = <<>>
    /\ prog[p].waited => ~prog[p].task
    /\ prog[p].waits = 0 => \A i \in Positions(p) : prog[p].channel[i] # Incremental!Exit

OwedInv == \A p \in Program : OwedOK(p)

\* Nothing is owed at first.
LEMMA InitOwed == Incremental!ConstantsOK /\ Incremental!Init => OwedInv
  <1>1. /\ Incremental!Off.task = FALSE /\ Incremental!Off.waited = FALSE
        /\ Incremental!Off.owed = {} /\ Incremental!Off.channel = <<>>
    BY DEF Incremental!Off, Incremental!NewCache
  <1> SUFFICES ASSUME Incremental!Init, NEW p \in Program PROVE OwedOK(p)
    BY DEF OwedInv
  <1>2. prog[p] = Incremental!Off
    BY DEF Incremental!Init
  <1>3. Positions(p) = {} /\ ~prog[p].task /\ ~prog[p].waited
    BY <1>1, <1>2 DEF Positions
  <1> QED BY <1>1, <1>2, <1>3 DEF OwedOK

\* A step of one program leaves the others as they are.
LEMMA OthersOwed ==
  ASSUME OwedInv, NEW p \in Program, \A q \in Program : q # p => prog'[q] = prog[q], OwedOK(p)'
  PROVE  OwedInv'
  <1> SUFFICES ASSUME NEW q \in Program PROVE OwedOK(q)'
    BY DEF OwedInv
  <1>1. CASE q = p
    BY <1>1
  <1>2. CASE q # p
    BY <1>2 DEF OwedInv, OwedOK, OnItsWay, Positions
  <1> QED BY <1>1, <1>2

\* A message at the end of the channel delays nothing.
LEMMA Behind ==
  ASSUME NEW p \in Program, NEW e, NEW m \in Incremental!Message, prog[p].channel \in Seq(Incremental!Message),
         OnItsWay(p, e), prog'[p].channel = Append(prog[p].channel, m)
  PROVE  OnItsWay(p, e)'
  <1>1. PICK i \in Positions(p) : /\ prog[p].channel[i] = Incremental!Update(e[1], e[2])
                                  /\ \A j \in 1..(i - 1) : prog[p].channel[j] # Incremental!Exit
    BY DEF OnItsWay
  <1>2. i \in Positions(p)' /\ \A j \in 1..i : prog'[p].channel[j] = prog[p].channel[j]
    BY DEF Positions
  <1>3. i \in 1..i /\ 1..(i - 1) \subseteq 1..i
    BY DEF Positions
  <1> QED BY <1>1, <1>2, <1>3 DEF OnItsWay

\* A message that is taken brings the others forward.
LEMMA Forward ==
  ASSUME NEW p \in Program, NEW e, prog[p].channel \in Seq(Incremental!Message), prog[p].channel # <<>>,
         OnItsWay(p, e), Head(prog[p].channel) # Incremental!Update(e[1], e[2]),
         prog'[p].channel = Tail(prog[p].channel)
  PROVE  OnItsWay(p, e)'
  <1>1. PICK i \in Positions(p) : /\ prog[p].channel[i] = Incremental!Update(e[1], e[2])
                                  /\ \A j \in 1..(i - 1) : prog[p].channel[j] # Incremental!Exit
    BY DEF OnItsWay
  <1>2. i # 1
    BY <1>1
  <1>3. i - 1 \in Positions(p)' /\ prog'[p].channel[i - 1] = prog[p].channel[i]
    BY <1>2 DEF Positions
  <1>4. ASSUME NEW j \in 1..(i - 1 - 1) PROVE prog'[p].channel[j] # Incremental!Exit
    <2>1. j + 1 \in 1..(i - 1) /\ prog'[p].channel[j] = prog[p].channel[j + 1]
      BY <1>2 DEF Positions
    <2> QED BY <1>1, <2>1
  <1> QED BY <1>1, <1>3, <1>4 DEF OnItsWay

\* Every step keeps what is owed on its way.
LEMMA NextOwed ==
  Incremental!ConstantsOK /\ Incremental!TypeOK /\ OwedInv /\ [Incremental!Next]_Incremental!vars
  => OwedInv'
  <1> SUFFICES ASSUME Incremental!ConstantsOK, Incremental!TypeOK, OwedInv,
                      [Incremental!Next]_Incremental!vars
               PROVE  OwedInv'
    OBVIOUS
  <1>0. prog \in [Program -> Incremental!Programs] /\ Incremental!Exit \in Incremental!Message
    BY DEF Incremental!TypeOK, Incremental!Message
  <1>1. CASE UNCHANGED Incremental!vars
    BY <1>1 DEF Incremental!vars, OwedInv, OwedOK, OnItsWay, Positions
  <1>2. ASSUME NEW p \in Program, NEW s \in State, NEW files \in SUBSET File, Incremental!Start(p, s, files)
        PROVE  OwedInv'
    <2>1. PICK previous : prog' = [prog EXCEPT ![p] = Incremental!NewCache(TRUE, s, previous)]
      BY <1>2 DEF Incremental!Start
    <2>2. prog'[p] = Incremental!NewCache(TRUE, s, previous) /\ \A q \in Program : q # p => prog'[q] = prog[q]
      BY <1>0, <2>1
    <2>3. /\ prog'[p].task = TRUE /\ prog'[p].owed = {} /\ prog'[p].channel = <<>>
          /\ prog'[p].waited = FALSE
      BY <2>2 DEF Incremental!NewCache
    <2>4. OwedOK(p)'
      BY <2>3 DEF OwedOK, Positions
    <2> QED BY <2>2, <2>4, OthersOwed
  <1>3. ASSUME NEW p \in Program, NEW f \in File, NEW t \in Text, Incremental!UpdateFile(p, f, t)
        PROVE  OwedInv'
    <2>1. CASE prog' = prog
      BY <2>1 DEF OwedInv, OwedOK, OnItsWay, Positions
    <2>2. CASE /\ prog[p].task
               /\ prog' = [prog EXCEPT ![p].channel = Append(@, Incremental!Update(f, t)),
                            ![p].owed = IF prog[p].waits = 0 THEN @ \cup {<<f, t>>} ELSE @]
      <3> DEFINE channel == Append(prog[p].channel, Incremental!Update(f, t))
                 owed == IF prog[p].waits = 0 THEN prog[p].owed \cup {<<f, t>>} ELSE prog[p].owed
      <3>1. prog[p] \in Incremental!Programs /\ Incremental!Update(f, t) \in Incremental!Message
        BY <1>0 DEF Incremental!Update, Incremental!Message
      <3>2. prog[p].channel \in Seq(Incremental!Message)
        BY <3>1 DEF Incremental!Programs
      <3>2a. channel \in Seq(Incremental!Message)
        BY <3>1, <3>2
      <3>2b. owed \in SUBSET (File \X Text)
        BY <3>1 DEF Incremental!Programs
      <3>3. prog' = WithChannel(p, channel, owed)
        BY <1>0, <2>2 DEF WithChannel
      <3>4. channel = Append(prog[p].channel, Incremental!Update(f, t))
            /\ owed = IF prog[p].waits = 0 THEN prog[p].owed \cup {<<f, t>>} ELSE prog[p].owed
        OBVIOUS
      <3> HIDE DEF channel, owed
      <3>5. /\ prog' \in [Program -> Incremental!Programs]
            /\ \A q \in Program : q # p => prog'[q] = prog[q]
            /\ prog'[p].up = prog[p].up /\ prog'[p].state = prog[p].state
            /\ prog'[p].previous = prog[p].previous
            /\ prog'[p].task = prog[p].task /\ prog'[p].waits = prog[p].waits
            /\ prog'[p].waited = prog[p].waited
            /\ prog'[p].channel = channel /\ prog'[p].owed = owed
        BY <1>0, <3>3, <3>2a, <3>2b, ChannelStep
      <3>6. ASSUME NEW e \in prog[p].owed PROVE OnItsWay(p, e)'
        <4>1. OnItsWay(p, e)
          BY <2>2 DEF OwedInv, OwedOK
        <4> QED BY <3>1, <3>2, <3>4, <3>5, <4>1, Behind
      <3>7. ASSUME prog[p].waits = 0 PROVE \A i \in Positions(p)' : prog'[p].channel[i] # Incremental!Exit
        <4>1. \A i \in Positions(p) : prog[p].channel[i] # Incremental!Exit
          BY <3>7 DEF OwedInv, OwedOK
        <4>2. Incremental!Update(f, t) # Incremental!Exit
          BY DEF Incremental!Update, Incremental!Exit
        <4>3. ASSUME NEW i \in Positions(p)'
              PROVE  (i \in Positions(p) /\ prog'[p].channel[i] = prog[p].channel[i])
                     \/ prog'[p].channel[i] = Incremental!Update(f, t)
          BY <3>2, <3>4, <3>5 DEF Positions
        <4> QED BY <4>1, <4>2, <4>3
      <3>8. ASSUME prog[p].waits = 0 PROVE OnItsWay(p, <<f, t>>)'
        <4> DEFINE n == Len(prog[p].channel) + 1
        <4>1. n \in Positions(p)' /\ prog'[p].channel[n] = Incremental!Update(f, t)
          BY <3>2, <3>4, <3>5 DEF Positions
        <4>2. \A j \in 1..(n - 1) : j \in Positions(p)'
          BY <3>2, <3>4, <3>5 DEF Positions
        <4>3. <<f, t>>[1] = f /\ <<f, t>>[2] = t
          OBVIOUS
        <4> QED BY <3>7, <3>8, <4>1, <4>2, <4>3 DEF OnItsWay
      <3>9. OwedOK(p)'
        <4>1. prog'[p].task /\ ~prog'[p].waited
          BY <2>2, <3>5 DEF OwedInv, OwedOK
        <4>2. ASSUME NEW e \in prog'[p].owed PROVE OnItsWay(p, e)'
          <5>1. CASE e \in prog[p].owed
            BY <3>6, <5>1
          <5>2. CASE e = <<f, t>> /\ prog[p].waits = 0
            BY <3>8, <5>2
          <5> QED BY <3>4, <3>5, <5>1, <5>2
        <4>3. prog'[p].waits = 0 => \A i \in Positions(p)' : prog'[p].channel[i] # Incremental!Exit
          BY <3>5, <3>7
        <4> QED BY <4>1, <4>2, <4>3 DEF OwedOK
      <3> QED BY <3>5, <3>9, OthersOwed
    <2> QED BY <1>3, <2>1, <2>2 DEF Incremental!UpdateFile
  <1>4. ASSUME NEW p \in Program, Incremental!Receive(p) PROVE OwedInv'
    <2> DEFINE m == Head(prog[p].channel)
    <2>1. /\ prog[p] \in Incremental!Programs /\ prog[p].channel # <<>>
          /\ prog[p].channel \in Seq(Incremental!Message)
          /\ prog[p].task
      BY <1>0, <1>4 DEF Incremental!Receive, Incremental!Programs
    <2>2. m \in Incremental!Message /\ m = prog[p].channel[1] /\ 1 \in Positions(p)
      BY <2>1 DEF Positions
    <2>3. CASE m.kind = "exit" /\ prog' = [prog EXCEPT ![p].channel = <<>>, ![p].task = FALSE]
      <3>1. /\ \A q \in Program : q # p => prog'[q] = prog[q]
            /\ prog'[p].owed = prog[p].owed /\ prog'[p].waits = prog[p].waits
            /\ prog'[p].channel = <<>> /\ prog'[p].task = FALSE
        BY <1>0, <2>3, ExitStep
      <3>2. prog[p].channel[1] = Incremental!Exit
        BY <2>2, <2>3 DEF Incremental!Message, Incremental!Exit
      <3>3. ASSUME NEW e \in prog[p].owed PROVE FALSE
        <4>1. OnItsWay(p, e)
          BY <2>1 DEF OwedInv, OwedOK
        <4>2. PICK i \in Positions(p) : /\ prog[p].channel[i] = Incremental!Update(e[1], e[2])
                                        /\ \A j \in 1..(i - 1) : prog[p].channel[j] # Incremental!Exit
          BY <4>1 DEF OnItsWay
        <4>3. i # 1
          BY <3>2, <4>2 DEF Incremental!Update, Incremental!Exit
        <4>4. 1 \in 1..(i - 1)
          BY <4>3 DEF Positions
        <4> QED BY <3>2, <4>2, <4>4
      <3>4. Positions(p)' = {}
        BY <3>1 DEF Positions
      <3>5. OwedOK(p)'
        BY <3>1, <3>3, <3>4 DEF OwedOK
      <3> QED BY <3>1, <3>5, OthersOwed
    <2>4. CASE prog' = [prog EXCEPT ![p].channel = Tail(@), ![p].owed = @ \ {<<m.file, m.text>>}]
      <3> DEFINE channel == Tail(prog[p].channel)
                 owed == prog[p].owed \ {<<m.file, m.text>>}
      <3>1. channel \in Seq(Incremental!Message)
        BY <2>1
      <3>8. owed \in SUBSET (File \X Text)
        BY <2>1 DEF Incremental!Programs
      <3>2. prog' = WithChannel(p, channel, owed)
        BY <1>0, <2>4 DEF WithChannel
      <3>3. channel = Tail(prog[p].channel) /\ owed = prog[p].owed \ {<<m.file, m.text>>}
        OBVIOUS
      <3> HIDE DEF channel, owed
      <3>4. /\ prog' \in [Program -> Incremental!Programs]
            /\ \A q \in Program : q # p => prog'[q] = prog[q]
            /\ prog'[p].up = prog[p].up /\ prog'[p].state = prog[p].state
            /\ prog'[p].previous = prog[p].previous
            /\ prog'[p].task = prog[p].task /\ prog'[p].waits = prog[p].waits
            /\ prog'[p].waited = prog[p].waited
            /\ prog'[p].channel = channel /\ prog'[p].owed = owed
        BY <1>0, <3>1, <3>2, <3>8, ChannelStep
      <3>5. ASSUME NEW e \in owed PROVE OnItsWay(p, e)'
        <4>1. OnItsWay(p, e) /\ e \in File \X Text /\ e # <<m.file, m.text>>
          BY <2>1, <3>3 DEF OwedInv, OwedOK, Incremental!Programs
        <4>2. m # Incremental!Update(e[1], e[2])
          BY <4>1 DEF Incremental!Update
        <4> QED BY <2>1, <3>3, <3>4, <4>1, <4>2, Forward
      <3>6. ASSUME prog[p].waits = 0, NEW i \in Positions(p)' PROVE prog'[p].channel[i] # Incremental!Exit
        <4>1. i + 1 \in Positions(p) /\ prog'[p].channel[i] = prog[p].channel[i + 1]
          BY <2>1, <3>3, <3>4 DEF Positions
        <4> QED BY <3>6, <4>1 DEF OwedInv, OwedOK
      <3>7. OwedOK(p)'
        BY <2>1, <3>4, <3>5, <3>6 DEF OwedInv, OwedOK
      <3> QED BY <3>4, <3>7, OthersOwed
    <2> QED BY <1>4, <2>3, <2>4 DEF Incremental!Receive
  <1>5. ASSUME NEW p \in Program, Incremental!Wait(p) PROVE OwedInv'
    <2>1. prog[p] \in Incremental!Programs /\ prog[p].channel \in Seq(Incremental!Message) /\ prog[p].waits \in Nat
      BY <1>0 DEF Incremental!Programs
    <2>2. /\ \A q \in Program : q # p => prog'[q] = prog[q]
          /\ prog'[p].task = prog[p].task /\ prog'[p].waited = prog[p].waited
          /\ prog'[p].waits = prog[p].waits + 1 /\ prog'[p].owed = prog[p].owed
          /\ prog'[p].channel = IF prog[p].task THEN Append(prog[p].channel, Incremental!Exit)
                                ELSE prog[p].channel
      BY <1>0, <1>5, WaitStep
    <2>3. ASSUME prog[p].task, NEW e \in prog[p].owed PROVE OnItsWay(p, e)'
      <3>1. OnItsWay(p, e)
        BY <2>3 DEF OwedInv, OwedOK
      <3> QED BY <1>0, <2>1, <2>2, <2>3, <3>1, Behind
    <2>4. prog'[p].waits # 0
      BY <2>1, <2>2
    <2>5. OwedOK(p)'
      BY <2>2, <2>3, <2>4 DEF OwedInv, OwedOK
    <2> QED BY <2>2, <2>5, OthersOwed
  <1>6. ASSUME NEW p \in Program, Incremental!WaitReturns(p) PROVE OwedInv'
    <2>1. /\ \A q \in Program : q # p => prog'[q] = prog[q]
          /\ prog'[p].task = prog[p].task /\ prog'[p].waits = prog[p].waits
          /\ prog'[p].owed = prog[p].owed /\ prog'[p].channel = prog[p].channel
      BY <1>0, <1>6, WaitReturnsStep
    <2>2. ~prog[p].task /\ prog[p].waits # 0
      BY <1>0, <1>6 DEF Incremental!WaitReturns, Incremental!TaskDone, Incremental!Programs
    <2>3. OwedOK(p)'
      BY <2>1, <2>2 DEF OwedInv, OwedOK
    <2> QED BY <2>1, <2>3, OthersOwed
  <1>7. ASSUME NEW p \in Program, Incremental!Stop(p) PROVE OwedInv'
    <2>1. prog'[p] = Incremental!Off /\ \A q \in Program : q # p => prog'[q] = prog[q]
      BY <1>0, <1>7 DEF Incremental!Stop
    <2>2. /\ Incremental!Off.task = FALSE /\ Incremental!Off.waited = FALSE
          /\ Incremental!Off.owed = {} /\ Incremental!Off.channel = <<>>
      BY DEF Incremental!Off, Incremental!NewCache
    <2>3. Positions(p)' = {} /\ ~prog'[p].task /\ ~prog'[p].waited
      BY <2>1, <2>2 DEF Positions
    <2>4. OwedOK(p)'
      BY <2>1, <2>2, <2>3 DEF OwedOK
    <2> QED BY <2>1, <2>4, OthersOwed
  <1> QED BY <1>1, <1>2, <1>3, <1>4, <1>5, <1>6, <1>7 DEF Incremental!Next

\* WaitedIsTried of IncrementalCache: when wait_completion has returned to its first caller,
\* nothing is owed.
THEOREM WaitedCorrect == ASSUME Incremental!ConstantsOK PROVE Incremental!Spec => []Incremental!WaitedIsTried
  <1>1. OwedInv => Incremental!WaitedIsTried
    BY DEF OwedInv, OwedOK, Incremental!WaitedIsTried
  <1>2. Incremental!Spec => []Incremental!TypeOK
    BY ProgramsTyped
  <1> QED BY <1>1, <1>2, InitOwed, NextOwed, PTL DEF Incremental!Spec

IncrementalInv == RecordedInv /\ OwedInv

-----------------------------------------------------------------------------
(* The five parts                                                          *)

\* A step of the whole is a step of the part, or leaves the part alone.
LEMMA PartSteps ==
  ASSUME [CachesNext]_allVars
  PROVE  /\ part' = part
         /\ [Next]_vars
         /\ part = "emit" => [Emit!Next]_Emit!vars
         /\ part = "fetch" => [Fetch!Next]_Fetch!vars
         /\ part = "ages" => [Ages!Next]_Ages!vars
         /\ part = "incremental" => [Incremental!Next]_Incremental!vars
  <1>1. part' = part
    BY DEF CachesNext, allVars
  <1>2. [Next]_vars
    BY DEF CachesNext, allVars, NotEmit, NotFetch, NotAges, NotIncremental
  <1>3. part = "emit" => [Emit!Next]_Emit!vars
    BY DEF CachesNext, allVars, emitVars, Emit!vars, Emit!files
  <1>4. part = "fetch" => [Fetch!Next]_Fetch!vars
    BY DEF CachesNext, allVars, fetchVars, Fetch!vars, Fetch!disk
  <1>5. part = "ages" => [Ages!Next]_Ages!vars
    BY DEF CachesNext, allVars, agesVars, Ages!vars
  <1>6. part = "incremental" => [Incremental!Next]_Incremental!vars
    BY DEF CachesNext, allVars, incrementalVars, Incremental!vars
  <1> QED BY <1>1, <1>2, <1>3, <1>4, <1>5, <1>6

\* The initial states of the whole are those of the part.
LEMMA PartInits ==
  ASSUME CachesInit
  PROVE  /\ Init
         /\ part = "emit" => Emit!Init
         /\ part = "fetch" => Fetch!Init
         /\ part = "ages" => Ages!Init
         /\ part = "incremental" => Incremental!Init
  BY DEF CachesInit, NoDb

(* TypeOK, FileOfOneVersion and AnalysisCorrect of CacheDb: a database     *)
(* file holds the rows of one version whatever was interrupted, and an     *)
(* analysis returns what its own version makes of its own text             *)
(* (cache/cache_db.rs, cache/node.rs).                                     *)
THEOREM DatabasesSound == CachesSpec => [](TypeOK /\ FileOfOneVersion /\ AnalysisCorrect)
  <1>1. CachesInit => Inv
    BY PartInits, InitInv
  <1>2. Inv /\ [CachesNext]_allVars => Inv'
    BY PartSteps, NextInv
  <1>3. Inv => TypeOK /\ FileOfOneVersion /\ AnalysisCorrect
    BY DEF Inv, Safe, FileOfOneVersion, AnalysisCorrect
  <1> QED BY <1>1, <1>2, <1>3, PTL DEF CachesSpec

(* No loader ever gets code of another source or of another release from   *)
(* the emit cache (EmitCache::get_emit_code), however loaders overlap,     *)
(* fail and stop.                                                          *)
THEOREM EmitIsCurrent == CachesSpec => []EmitCorrect
  <1> DEFINE I == part = "emit" => Emit!Inv
  <1>1. CachesInit => I
    BY ConstantsAreOK, PartInits, EmitInitInv
  <1>2. I /\ [CachesNext]_allVars => I'
    BY ConstantsAreOK, PartSteps, EmitNextInv
  <1>3. I => EmitCorrect
    BY DEF Emit!Inv, EmitCorrect
  <1> HIDE DEF I
  <1> QED BY <1>1, <1>2, <1>3, PTL DEF CachesSpec

\* FetchInv holds whenever files are fetched.
LEMMA FetchPart ==
  ASSUME Fetch!RedirectsStay
  PROVE  /\ CachesInit => (part = "fetch" => FetchInv)
         /\ (part = "fetch" => FetchInv) /\ [CachesNext]_allVars => (part = "fetch" => FetchInv)'
  <1>1. CachesInit => (part = "fetch" => FetchInv)
    BY ConstantsAreOK, PartInits, FetchInitInv
  <1>2. (part = "fetch" => FetchInv) /\ [CachesNext]_allVars => (part = "fetch" => FetchInv)'
    BY ConstantsAreOK, PartSteps, FetchNextInv
  <1> QED BY <1>1, <1>2

(* If redirects lead to one place, what a fetch returns is code of the URL *)
(* at the end of the redirects, and it fails for a reason only: too many   *)
(* redirects, nothing cached, or a location that the network takes and the *)
(* cache does not (fetch_remote and fetch_cached of file_fetcher.rs).      *)
THEOREM FetchesSound == ASSUME Fetch!RedirectsStay PROVE CachesSpec => []FetchSound
  <1> DEFINE I == part = "fetch" => FetchInv
  <1>1. (CachesInit => I) /\ (I /\ [CachesNext]_allVars => I')
    BY FetchPart
  <1>2. I => FetchSound
    BY InvCorrect DEF FetchInv, FetchSound
  <1> HIDE DEF I
  <1> QED BY <1>1, <1>2, PTL DEF CachesSpec

(* If, besides, no ETag is used again, a loader that reloads alone gets    *)
(* code that its server had since the first fetch of it began, also after  *)
(* workers that stopped between the two files of an entry.                 *)
THEOREM ReloadsAreFresh ==
  ASSUME Fetch!RedirectsStay, Fetch!EtagsDiffer
  PROVE  CachesSpec => ReloadIsFresh
  <1> DEFINE I == part = "fetch" => FetchInv
             J == part = "fetch" => ReloadInv
             A == part = "fetch" => Fetch!ReloadStep
  <1>1. (CachesInit => I) /\ (I /\ [CachesNext]_allVars => I')
    BY FetchPart
  <1>2. CachesInit => J
    BY ConstantsAreOK, PartInits, FetchInitReload
  <1>3. I /\ J /\ [CachesNext]_allVars => J' /\ [A]_allVars
    <2> SUFFICES ASSUME I, J, [CachesNext]_allVars PROVE J' /\ [A]_allVars
      OBVIOUS
    <2>1. part' = part /\ (part = "fetch" => [Fetch!Next]_Fetch!vars)
      BY PartSteps
    <2>2. CASE part = "fetch"
      <3>1. ReloadInv' /\ [Fetch!ReloadStep]_Fetch!vars
        BY <2>1, <2>2, ConstantsAreOK, FetchNextReload
      <3>2. CASE Fetch!ReloadStep
        BY <2>1, <3>1, <3>2
      <3>3. CASE UNCHANGED Fetch!vars
        <4>1. A
          BY <3>3 DEF Fetch!vars, Fetch!ReloadStep, ReloadInv, Fetch!NoResult
        <4> QED BY <2>1, <3>1, <4>1
      <3> QED BY <3>1, <3>2, <3>3
    <2>3. CASE part # "fetch"
      BY <2>1, <2>3
    <2> QED BY <2>2, <2>3
  <1> HIDE DEF I, J
  <1> QED BY <1>1, <1>2, <1>3, PTL DEF CachesSpec, ReloadIsFresh

\* The types hold whenever ages are computed.
LEMMA AgesPart ==
  /\ CachesInit => (part = "ages" => Ages!TypeOK)
  /\ (part = "ages" => Ages!TypeOK) /\ [CachesNext]_allVars => (part = "ages" => Ages!TypeOK)'
  <1>1. CachesInit => (part = "ages" => Ages!TypeOK)
    BY PartInits, AgesInitType
  <1>2. (part = "ages" => Ages!TypeOK) /\ [CachesNext]_allVars => (part = "ages" => Ages!TypeOK)'
    BY PartSteps, AgesNextType
  <1> QED BY <1>1, <1>2

(* A response that is stale stays so as time goes on: CacheSemantics of    *)
(* http_cache's cache_control and age.                                     *)
THEOREM StaleStaysStale == CachesSpec => FreshnessFades
  <1> DEFINE I == part = "ages" => Ages!TypeOK
             A == part = "ages" => Ages!FreshnessStep
  <1>1. (CachesInit => I) /\ (I /\ [CachesNext]_allVars => I')
    BY AgesPart
  <1>2. I /\ I' /\ [CachesNext]_allVars => [A]_allVars
    <2> SUFFICES ASSUME I, I', [CachesNext]_allVars PROVE [A]_allVars
      OBVIOUS
    <2>1. part' = part /\ (part = "ages" => [Ages!Next]_Ages!vars)
      BY PartSteps
    <2>2. ASSUME part = "ages" PROVE Ages!FreshnessStep
      BY <2>1, <2>2, ConstantsAreOK, FreshnessFadesStep
    <2> QED BY <2>2
  <1> HIDE DEF I
  <1> QED BY <1>1, <1>2, PTL DEF CachesSpec, FreshnessFades

\* The invariants hold whenever files are checked.
LEMMA IncrementalPart ==
  /\ CachesInit => (part = "incremental" => IncrementalInv)
  /\ (part = "incremental" => IncrementalInv) /\ [CachesNext]_allVars
     => (part = "incremental" => IncrementalInv)'
  <1>0. Incremental!ConstantsOK
    BY ConstantsAreOK
  <1>1. CachesInit => (part = "incremental" => IncrementalInv)
    BY <1>0, PartInits, InitRecorded, InitOwed DEF IncrementalInv, RecordedInv
  <1>2. (part = "incremental" => IncrementalInv) /\ [CachesNext]_allVars
        => (part = "incremental" => IncrementalInv)'
    <2> SUFFICES ASSUME part = "incremental" => IncrementalInv, [CachesNext]_allVars, part' = "incremental"
                 PROVE  IncrementalInv'
      OBVIOUS
    <2>1. part = "incremental" /\ [Incremental!Next]_Incremental!vars
      BY PartSteps
    <2>2. RecordedInv'
      BY <1>0, <2>1, NextRecorded DEF IncrementalInv
    <2>3. Incremental!TypeOK /\ Incremental!TypeOK'
      BY <2>1, <2>2 DEF IncrementalInv, RecordedInv
    <2>4. OwedInv'
      BY <1>0, <2>1, <2>3, NextOwed DEF IncrementalInv
    <2> QED BY <2>2, <2>3, <2>4 DEF IncrementalInv
  <1> QED BY <1>1, <1>2

(* What is taken from a cache instead of being done again was allowed by   *)
(* its server (CacheSemantics), or was recorded with this text and this    *)
(* configuration, and was tried before the program ends (IncrementalCache).*)
THEOREM ReuseIsJustified == CachesSpec => []ReuseJustified
  <1> DEFINE I == part = "ages" => Ages!TypeOK
             J == part = "incremental" => IncrementalInv
  <1>1. (CachesInit => I) /\ (I /\ [CachesNext]_allVars => I')
    BY AgesPart
  <1>2. (CachesInit => J) /\ (J /\ [CachesNext]_allVars => J')
    BY IncrementalPart
  <1>3. I /\ J => ReuseJustified
    <2>1. Ages!TypeOK => Ages!UsedInTime
      BY ConstantsAreOK, UsedInTimeHolds
    <2>2. IncrementalInv => /\ Incremental!TypeOK
                            /\ Incremental!SkippedWasRecorded /\ Incremental!WaitedIsTried
      BY DEF IncrementalInv, RecordedInv, OwedInv, OwedOK, Incremental!WaitedIsTried
    <2> QED BY <2>1, <2>2 DEF ReuseJustified
  <1> HIDE DEF I, J
  <1> QED BY <1>1, <1>2, <1>3, PTL DEF CachesSpec

=============================================================================
