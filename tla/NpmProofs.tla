------------------------------ MODULE NpmProofs ------------------------------
(***************************************************************************)
(* What TLAPS proves of the npm support (Npm), part by part.               *)
(*                                                                         *)
(*   NpmRegistry    InfoInv: one batch caches its packages at a time, so   *)
(*                  that memory is cleared for nobody who still asks, and  *)
(*                  what a call of the batch has got is in memory.         *)
(*                  FreshInv: where one caller at a time calls, as the     *)
(*                  program does, what a program that reloads has in       *)
(*                  memory was at the registry since it began.             *)
(*   NpmResolution  The invariants are those of NpmResolutionProofs and    *)
(*   NpmFiles       NpmFilesProofs, which are instantiated here, as are    *)
(*   NpmNames       those of NpmNamesProofs.                               *)
(*   NpmModules     LinksInv: a package whose links are made has those of  *)
(*                  its dependencies and its own; roots go first: one is   *)
(*                  in the queue, or at the top and its name leads to one. *)
(*   Files          WalkInv: of a directory that was begun every file or   *)
(*                  link that is meant is in the list, or below an entry   *)
(*                  that WalkDir has yet to return; entries are in reach.  *)
(*   NodeResolve    NodeInv: the files that were analysed have all their   *)
(*                  reexports handled or in the queue, and belong to every *)
(*                  set that is closed under reexports; what is declared   *)
(*                  has a name of its own or one of the first numbers.     *)
(*                                                                         *)
(* The parts share no state: a step of the whole is one of the part at     *)
(* work, or leaves it alone (PartSteps).                                   *)
(***************************************************************************)
EXTENDS Npm, FiniteSetTheorems, FunctionTheorems, SequenceTheorems, WellFoundedInduction, TLAPS

-----------------------------------------------------------------------------
(* NpmRegistry                                                             *)

Shape ==
    /\ case \in InfoCases
    /\ load = [c \in Caller |-> load[c]] /\ caller = [c \in Caller |-> caller[c]]

OneBatch ==
    \A c, d \in Caller : case.batch[c] /\ case.batch[d] /\ Registry!Working(c) /\ Registry!Working(d) => c = d

Told(c, i) ==
    load[c][i].pc = "done" => /\ Registry!Wants(c)[i] \in DOMAIN memory
                              /\ load[c][i].got = memory[Registry!Wants(c)[i]]
BatchesTold ==
    \A c \in Caller : case.batch[c] /\ Registry!Working(c) => \A i \in DOMAIN Registry!Wants(c) : Told(c, i)

\* Who has not begun has called nothing, and only a batch asks again.
Stages ==
    \A c \in Caller : /\ caller[c] = "idle" => \A i \in DOMAIN Registry!Wants(c) : load[c][i].pc = "idle"
                      /\ caller[c] = "using" => case.batch[c]

InfoInv == Shape /\ Registry!TypeOK /\ OneBatch /\ Stages /\ BatchesTold /\ Registry!SameInfo

\* What the cases are like
LEMMA InfoCaseOK ==
  ASSUME Registry!ConstantsOK, case \in InfoCases, NEW c \in Caller
  PROVE  /\ Registry!Wants(c) \in Seq(InfoName) /\ case.batch[c] \in BOOLEAN
         /\ \A i \in DOMAIN Registry!Wants(c) : Registry!Wants(c)[i] \in InfoName
  BY DEF Registry!ConstantsOK, Registry!Wants

LEMMA CallType ==
  ASSUME NEW to \in {"idle", "missed", "file", "ask", "save", "store", "done", "error"},
         NEW got \in 0..Releases
  PROVE  /\ [pc |-> to, got |-> got] \in Registry!Call
         /\ [pc |-> to, got |-> got].pc = to /\ [pc |-> to, got |-> got].got = got
  BY DEF Registry!Call

\* Nobody works at first.
LEMMA InfoInit == ASSUME Registry!ConstantsOK, Registry!Init PROVE InfoInv
  <1>1. Registry!NotCalled \in Registry!Call
    BY CallType DEF Registry!NotCalled, Registry!ConstantsOK
  <1>2. Shape
    BY DEF Registry!Init, Shape
  <1>3. Registry!TypeOK
    BY <1>1 DEF Registry!Init, Registry!TypeOK, Registry!ConstantsOK
  <1>4. Stages
    BY DEF Registry!Init, Stages, Registry!NotCalled
  <1> QED BY <1>2, <1>3, <1>4 DEF InfoInv, Registry!Init, OneBatch, BatchesTold, Registry!SameInfo, Registry!Working

\* A step of one call, which stores more, forgets nothing, and is at its end only with
\* what is in memory.
LEMMA CallMoves ==
  ASSUME Registry!ConstantsOK, InfoInv,
         NEW c \in Caller, NEW i \in DOMAIN Registry!Wants(c),
         NEW to \in {"idle", "missed", "file", "ask", "save", "store", "done", "error"},
         NEW got \in 0..Releases,
         Registry!Goes(c, i, to, got), UNCHANGED <<case, caller, latest>>,
         file' \in [InfoName -> 0..Releases], reloaded' \subseteq InfoName,
         DOMAIN memory \subseteq DOMAIN memory', DOMAIN memory' \subseteq InfoName,
         \A n \in DOMAIN memory : memory'[n] = memory[n],
         \A n \in DOMAIN memory' : memory'[n] \in 0..Releases,
         to = "done" => Registry!Wants(c)[i] \in DOMAIN memory' /\ got = memory'[Registry!Wants(c)[i]],
         case.batch[c] /\ caller[c] = "using" => to = "done",
         caller[c] # "idle"
  PROVE  InfoInv'
  <1> DEFINE new == [pc |-> to, got |-> got]
  <1>1. new \in Registry!Call /\ new.pc = to /\ new.got = got
    BY CallType
  <1>2. case \in InfoCases /\ case' = case /\ caller' = caller
    BY DEF InfoInv, Shape
  <1>3. \A d \in Caller : Registry!Wants(d)' = Registry!Wants(d) /\ Registry!Working(d)' = Registry!Working(d)
    BY <1>2 DEF Registry!Wants, Registry!Working
  <1>4. load' = [load EXCEPT ![c][i] = new]
    BY DEF Registry!Goes
  <1> HIDE DEF new
  <1>5. load' = [d \in Caller |-> IF d = c THEN [load[c] EXCEPT ![i] = new] ELSE load[d]]
    BY <1>4 DEF InfoInv, Shape
  <1>6. \A d \in Caller : load[d] \in [DOMAIN Registry!Wants(d) -> Registry!Call]
    BY DEF InfoInv, Registry!TypeOK
  <1>7. \A d \in Caller : \A j \in DOMAIN Registry!Wants(d) :
           load'[d][j] = IF d = c /\ j = i THEN new ELSE load[d][j]
    BY <1>5, <1>6
  <1>8. \A d \in Caller : load'[d] \in [DOMAIN Registry!Wants(d) -> Registry!Call]
    BY <1>1, <1>5, <1>6
  <1>9. Shape'
    BY <1>2, <1>5 DEF InfoInv, Shape
  <1>10. Registry!TypeOK'
    BY <1>2, <1>3, <1>8 DEF InfoInv, Registry!TypeOK
  <1>11. OneBatch'
    BY <1>2, <1>3 DEF InfoInv, OneBatch
  <1>12. \A d \in Caller : case.batch[d] /\ Registry!Working(d) => \A j \in DOMAIN Registry!Wants(d) : Told(d, j)'
    BY <1>1, <1>3, <1>7 DEF InfoInv, BatchesTold, Told
  <1>13. BatchesTold'
    BY <1>2, <1>3, <1>12 DEF BatchesTold
  <1>14. ASSUME NEW d \in Caller, case.batch[d], caller[d] = "using", NEW j \in DOMAIN Registry!Wants(d)
         PROVE  Registry!Wants(d)[j] \in DOMAIN memory' /\ load'[d][j].pc \in {"idle", "done"}
                /\ (load'[d][j].pc = "done" => load'[d][j].got = memory'[Registry!Wants(d)[j]])
    <2>1. /\ Registry!Wants(d)[j] \in DOMAIN memory /\ load[d][j].pc \in {"idle", "done"}
          /\ load[d][j].pc = "done" => load[d][j].got = memory[Registry!Wants(d)[j]]
      BY <1>14 DEF InfoInv, Registry!SameInfo
    <2>2. CASE d = c /\ j = i
      BY <1>1, <1>7, <1>14, <2>1, <2>2
    <2>3. CASE ~(d = c /\ j = i)
      BY <1>7, <2>1, <2>3
    <2> QED BY <2>2, <2>3
  <1>15. Registry!SameInfo'
    BY <1>2, <1>3, <1>14 DEF Registry!SameInfo
  <1>16. Stages'
    BY <1>2, <1>3, <1>5 DEF InfoInv, Stages
  <1> QED BY <1>9, <1>10, <1>11, <1>13, <1>15, <1>16 DEF InfoInv

\* A caller goes on from one stage to the next; its loads stay or are made anew.
LEMMA CallerMoves ==
  ASSUME Registry!ConstantsOK, InfoInv,
         NEW c \in Caller, NEW goal \in {"caching", "using", "done", "failed"},
         NEW loads \in [DOMAIN Registry!Wants(c) -> Registry!Call],
         caller' = [caller EXCEPT ![c] = goal], load' = [load EXCEPT ![c] = loads],
         UNCHANGED <<case, latest, file, reloaded>>,
         \/ UNCHANGED memory
         \/ memory' = <<>> /\ case.batch[c] /\ Registry!Working(c) /\ goal = "done",
         goal = "caching" => \A d \in Caller : case.batch[c] /\ case.batch[d] => ~Registry!Working(d),
         goal = "using" => Registry!Working(c) /\ case.batch[c],
         case.batch[c] /\ goal \in {"caching", "using"} =>
             \A i \in DOMAIN Registry!Wants(c) :
                 loads[i].pc = "done" => /\ Registry!Wants(c)[i] \in DOMAIN memory
                                         /\ loads[i].got = memory[Registry!Wants(c)[i]],
         case.batch[c] /\ goal = "using" =>
             \A i \in DOMAIN Registry!Wants(c) :
                 /\ Registry!Wants(c)[i] \in DOMAIN memory
                 /\ loads[i].pc \in {"idle", "done"}
  PROVE  InfoInv'
  <1>1. case \in InfoCases /\ case' = case
    BY DEF InfoInv, Shape
  <1>2. caller' = [d \in Caller |-> IF d = c THEN goal ELSE caller[d]]
    BY DEF InfoInv, Shape
  <1>3. load' = [d \in Caller |-> IF d = c THEN loads ELSE load[d]]
    BY DEF InfoInv, Shape
  <1>4. \A d \in Caller : Registry!Wants(d)' = Registry!Wants(d)
    BY <1>1 DEF Registry!Wants
  <1>5. \A d \in Caller : d # c => (Registry!Working(d)' <=> Registry!Working(d)) /\ load'[d] = load[d]
    BY <1>2, <1>3 DEF Registry!Working
  <1>6. Registry!Working(c)' <=> goal \in {"caching", "using"}
    BY <1>2 DEF Registry!Working
  <1>7. Shape'
    BY <1>1, <1>2, <1>3 DEF Shape
  <1>8. DOMAIN memory' \subseteq InfoName /\ \A n \in DOMAIN memory' : memory'[n] \in 0..Releases
    BY DEF InfoInv, Registry!TypeOK
  <1>9. Registry!TypeOK'
    BY <1>1, <1>2, <1>3, <1>4, <1>8 DEF InfoInv, Registry!TypeOK
  <1>10. OneBatch'
    BY <1>1, <1>5, <1>6 DEF InfoInv, OneBatch
  <1>11. ASSUME NEW d \in Caller, case.batch[d], Registry!Working(d)', NEW i \in DOMAIN Registry!Wants(d)
         PROVE  Told(d, i)'
    <2>1. CASE d = c
      BY <1>1, <1>3, <1>4, <1>6, <1>11, <2>1 DEF Told
    <2>2. CASE d # c
      <3>1. Registry!Working(d) /\ Told(d, i)
        BY <1>5, <1>11, <2>2 DEF InfoInv, BatchesTold
      <3>2. memory' = memory
        BY <1>11, <2>2, <3>1 DEF InfoInv, OneBatch
      <3> QED BY <1>4, <1>5, <2>2, <3>1, <3>2 DEF Told
    <2> QED BY <2>1, <2>2
  <1>12. BatchesTold'
    BY <1>1, <1>4, <1>11 DEF BatchesTold
  <1>13. ASSUME NEW d \in Caller, case.batch[d], caller'[d] = "using", NEW i \in DOMAIN Registry!Wants(d)
         PROVE  Registry!Wants(d)[i] \in DOMAIN memory' /\ load'[d][i].pc \in {"idle", "done"}
    <2>1. CASE d = c
      BY <1>2, <1>3, <1>13, <2>1
    <2>2. CASE d # c
      <3>1. Registry!Working(d) /\ caller[d] = "using"
        BY <1>2, <1>13, <2>2 DEF Registry!Working
      <3>2. memory' = memory
        BY <1>13, <2>2, <3>1 DEF InfoInv, OneBatch
      <3> QED BY <1>5, <1>13, <2>2, <3>1, <3>2 DEF InfoInv, Registry!SameInfo
    <2> QED BY <2>1, <2>2
  <1>14. Registry!SameInfo'
    BY <1>1, <1>2, <1>4, <1>11, <1>13 DEF Registry!SameInfo, Told, Registry!Working
  <1>15. Stages'
    BY <1>1, <1>2, <1>3, <1>4 DEF InfoInv, Stages
  <1> QED BY <1>7, <1>9, <1>10, <1>12, <1>14, <1>15 DEF InfoInv

LEMMA InfoNext == ASSUME Registry!ConstantsOK, InfoInv, [Registry!Next]_Registry!vars PROVE InfoInv'
  <1>1. /\ case \in InfoCases /\ Releases \in Nat
        /\ load = [c \in Caller |-> load[c]] /\ caller = [c \in Caller |-> caller[c]]
        /\ latest \in [InfoName -> 0..Releases] /\ file \in [InfoName -> 0..Releases]
        /\ DOMAIN memory \subseteq InfoName /\ reloaded \subseteq InfoName
        /\ \A n \in DOMAIN memory : memory[n] \in 0..Releases
    BY DEF InfoInv, Shape, Registry!TypeOK, Registry!ConstantsOK
  <1>2. CASE UNCHANGED Registry!vars
    BY <1>2 DEF Registry!vars, Registry!cache, InfoInv, Shape, Registry!TypeOK, OneBatch, Stages, BatchesTold, Registry!SameInfo, Told, Registry!Working,
                        Registry!Wants
  <1>3. ASSUME NEW n \in InfoName, Registry!Publish(n) PROVE InfoInv'
    <2>1. latest' \in [InfoName -> 0..Releases]
      BY <1>1, <1>3 DEF Registry!Publish
    <2>2. UNCHANGED <<case, file, memory, reloaded, load, caller, faulted>>
      BY <1>3 DEF Registry!Publish, Registry!cache
    <2> QED BY <2>1, <2>2 DEF InfoInv, Shape, Registry!TypeOK, OneBatch, Stages, BatchesTold, Registry!SameInfo, Told, Registry!Working,
                        Registry!Wants
  <1>4. ASSUME NEW c \in Caller, NEW i \in DOMAIN Registry!Wants(c), Registry!CallStep(c, i) PROVE InfoInv'
    <2>1. /\ load[c][i] \in Registry!Call /\ load[c][i].got \in 0..Releases
          /\ Registry!Wants(c)[i] \in InfoName /\ 0 \in 0..Releases
      BY <1>1, InfoCaseOK DEF InfoInv, Registry!TypeOK, Registry!Call
    <2>2. case.batch[c] /\ caller[c] = "using" =>
             Registry!Wants(c)[i] \in DOMAIN memory /\ load[c][i].pc \in {"idle", "done"}
      BY DEF InfoInv, Registry!SameInfo
    <2>10. caller[c] # "idle"
      BY <1>4 DEF InfoInv, Stages, Registry!CallStep, Registry!Lookup, Registry!MayCall, Registry!Choose, Registry!ReadFile, Registry!Answer, Registry!NoAnswer,
                  Registry!SaveFile, Registry!Store, Registry!At
    <2>3. CASE Registry!Lookup(c, i)
      <3>1. CASE Registry!Wants(c)[i] \in DOMAIN memory
        <4>1. Registry!Goes(c, i, "done", memory[Registry!Wants(c)[i]]) /\ UNCHANGED <<case, latest, Registry!cache, caller>>
          BY <2>3, <3>1 DEF Registry!Lookup
        <4> QED BY <1>1, <3>1, <4>1, <2>10, CallMoves DEF Registry!cache
      <3>2. CASE Registry!Wants(c)[i] \notin DOMAIN memory
        <4>1. Registry!Goes(c, i, "missed", 0) /\ UNCHANGED <<case, latest, Registry!cache, caller>>
          BY <2>3, <3>2 DEF Registry!Lookup
        <4> QED BY <1>1, <2>1, <2>2, <3>2, <4>1, <2>10, CallMoves DEF Registry!cache
      <3> QED BY <3>1, <3>2
    <2>4. CASE Registry!Choose(c, i)
      <3>1. PICK to \in {"file", "ask"} : Registry!Goes(c, i, to, 0)
        BY <2>4 DEF Registry!Choose
      <3>2. /\ load[c][i].pc = "missed" /\ reloaded' \subseteq InfoName
            /\ UNCHANGED <<case, latest, file, memory, caller>>
        BY <1>1, <2>1, <2>4 DEF Registry!Choose, Registry!At
      <3> QED BY <1>1, <2>1, <2>2, <3>1, <3>2, <2>10, CallMoves
    <2>5. CASE Registry!ReadFile(c, i)
      <3>1. PICK to \in {"store", "ask"}, got \in 0..Releases : Registry!Goes(c, i, to, got)
        BY <1>1, <2>1, <2>5 DEF Registry!ReadFile
      <3>2. load[c][i].pc = "file" /\ UNCHANGED <<case, latest, Registry!cache, caller>>
        BY <2>5 DEF Registry!ReadFile, Registry!At
      <3> QED BY <1>1, <2>2, <3>1, <3>2, <2>10, CallMoves DEF Registry!cache
    <2>6. CASE Registry!Answer(c, i)
      <3>1. PICK to \in {"store", "save"}, got \in 0..Releases : Registry!Goes(c, i, to, got)
        BY <1>1, <2>1, <2>6 DEF Registry!Answer
      <3>2. load[c][i].pc = "ask" /\ UNCHANGED <<case, latest, Registry!cache, caller>>
        BY <2>6 DEF Registry!Answer, Registry!At
      <3> QED BY <1>1, <2>2, <3>1, <3>2, <2>10, CallMoves DEF Registry!cache
    <2>7. CASE Registry!NoAnswer(c, i)
      <3>1. /\ load[c][i].pc = "ask" /\ Registry!Goes(c, i, "error", 0)
            /\ UNCHANGED <<case, latest, Registry!cache, caller>>
        BY <2>7 DEF Registry!NoAnswer, Registry!At
      <3> QED BY <1>1, <2>1, <2>2, <3>1, <2>10, CallMoves DEF Registry!cache
    <2>8. CASE Registry!SaveFile(c, i)
      <3>1. /\ load[c][i].pc = "save" /\ Registry!Goes(c, i, "store", load[c][i].got)
            /\ file' \in [InfoName -> 0..Releases]
            /\ UNCHANGED <<case, latest, memory, reloaded, caller>>
        BY <1>1, <2>1, <2>8 DEF Registry!SaveFile, Registry!At
      <3> QED BY <1>1, <2>1, <2>2, <3>1, <2>10, CallMoves
    <2>9. CASE Registry!Store(c, i)
      <3> DEFINE name == Registry!Wants(c)[i]
                 info == IF name \in DOMAIN memory THEN memory[name] ELSE load[c][i].got
      <3>1. /\ memory' = [n \in DOMAIN memory \cup {name} |-> IF n = name THEN info ELSE memory[n]]
            /\ Registry!Goes(c, i, "done", info) /\ UNCHANGED <<case, latest, file, reloaded, caller>>
        BY <2>9 DEF Registry!Store
      <3>2. info \in 0..Releases
        BY <1>1, <2>1
      <3>3. /\ DOMAIN memory \subseteq DOMAIN memory' /\ DOMAIN memory' \subseteq InfoName
            /\ \A n \in DOMAIN memory : memory'[n] = memory[n]
            /\ \A n \in DOMAIN memory' : memory'[n] \in 0..Releases
            /\ name \in DOMAIN memory' /\ info = memory'[name]
        BY <1>1, <2>1, <3>1, <3>2
      <3> HIDE DEF info
      <3> QED BY <1>1, <3>1, <3>2, <3>3, <2>10, CallMoves
    <2> QED BY <1>4, <2>3, <2>4, <2>5, <2>6, <2>7, <2>8, <2>9 DEF Registry!CallStep
  <1>5. ASSUME NEW c \in Caller, Registry!Begin(c) \/ Registry!Cached(c) \/ Registry!Used(c) PROVE InfoInv'
    <2>1. load[c] \in [DOMAIN Registry!Wants(c) -> Registry!Call] /\ load = [load EXCEPT ![c] = load[c]]
      BY <1>1 DEF InfoInv, Registry!TypeOK
    <2>2. /\ case.batch[c] /\ Registry!Working(c) => \A i \in DOMAIN Registry!Wants(c) : Told(c, i)
          /\ case.batch[c] /\ caller[c] = "using" =>
                \A i \in DOMAIN Registry!Wants(c) : Registry!Wants(c)[i] \in DOMAIN memory
      BY DEF InfoInv, BatchesTold, Registry!SameInfo
    <2>3. CASE Registry!Begin(c)
      <3>1. /\ caller[c] = "idle" /\ caller' = [caller EXCEPT ![c] = "caching"]
            /\ \A d \in Caller : case.batch[c] /\ case.batch[d] => ~Registry!Working(d)
            /\ UNCHANGED <<case, latest, Registry!cache, load>>
        BY <2>3 DEF Registry!Begin
      <3>2. \A k \in DOMAIN Registry!Wants(c) : load[c][k].pc = "idle"
        BY <3>1 DEF InfoInv, Stages
      <3> QED BY <2>1, <3>1, <3>2, CallerMoves DEF Registry!cache
    <2>4. CASE Registry!Cached(c)
      <3>1. caller[c] = "caching" /\ Registry!Working(c) /\ UNCHANGED <<case, latest, Registry!cache>>
        BY <2>4 DEF Registry!Cached, Registry!Working
      <3>2. CASE /\ caller' = [caller EXCEPT ![c] = "failed"] /\ UNCHANGED load
        BY <2>1, <3>1, <3>2, CallerMoves DEF Registry!cache
      <3>3. CASE Registry!Ended(c) /\ ~Registry!Refused(c) /\ ~case.batch[c] /\ UNCHANGED load
                 /\ caller' = [caller EXCEPT ![c] = "done"]
        BY <2>1, <3>1, <3>3, CallerMoves DEF Registry!cache
      <3>4. CASE Registry!Ended(c) /\ ~Registry!Refused(c) /\ case.batch[c]
                 /\ caller' = [caller EXCEPT ![c] = "using"]
                 /\ load' = [load EXCEPT ![c] = [k \in DOMAIN Registry!Wants(c) |-> Registry!NotCalled]]
        <4> DEFINE loads == [k \in DOMAIN Registry!Wants(c) |-> Registry!NotCalled]
        <4>1. Registry!NotCalled \in Registry!Call /\ Registry!NotCalled.pc = "idle"
          BY <1>1, CallType DEF Registry!NotCalled
        <4>2. loads \in [DOMAIN Registry!Wants(c) -> Registry!Call] /\ \A k \in DOMAIN Registry!Wants(c) : loads[k].pc = "idle"
          BY <4>1
        <4>3. \A k \in DOMAIN Registry!Wants(c) : load[c][k].pc = "done"
          BY <3>4 DEF Registry!Ended, Registry!Refused, Registry!Bad
        <4>4. \A k \in DOMAIN Registry!Wants(c) : Registry!Wants(c)[k] \in DOMAIN memory
          BY <2>2, <3>1, <3>4, <4>3 DEF Told
        <4> HIDE DEF loads
        <4> QED BY <3>1, <3>4, <4>2, <4>4, CallerMoves DEF Registry!cache, loads
      <3> QED BY <2>4, <3>2, <3>3, <3>4 DEF Registry!Cached
    <2>5. CASE Registry!Used(c)
      <3>1. /\ caller[c] = "using" /\ Registry!Working(c) /\ case.batch[c]
            /\ UNCHANGED <<case, latest, file, reloaded, load>>
        BY <2>5 DEF Registry!Used, Registry!Working, InfoInv, Stages
      <3>2. CASE caller' = [caller EXCEPT ![c] = "done"] /\ memory' = <<>>
        BY <2>1, <3>1, <3>2, CallerMoves
      <3>3. CASE caller' = [caller EXCEPT ![c] = "failed"] /\ UNCHANGED memory
        BY <2>1, <3>1, <3>3, CallerMoves
      <3> QED BY <2>5, <3>2, <3>3 DEF Registry!Used
    <2> QED BY <1>5, <2>3, <2>4, <2>5
  <1> QED BY <1>2, <1>3, <1>4, <1>5 DEF Registry!Next, Registry!Step

-----------------------------------------------------------------------------
(* --reload: OrderlyReloadIsFresh is not inductive.  What is stored comes  *)
(* from a call, which has it from the file or from the registry; the file  *)
(* of a package that is in previously_reloaded_packages may still be the   *)
(* old one, while the call that reloads it is on its way.                  *)

InFlight == {"missed", "file", "ask", "save", "store"}

\* What was got of n is not from before the program, if n is to be reloaded.
Fresh(n, got) == Registry!ToReload(n) /\ case.latest[n] # 0 => got >= case.latest[n]

\* Calls are on their way only while a caller caches; in order, the ones before went well.
Calling ==
    \A c \in Caller : \A i \in DOMAIN Registry!Wants(c) :
        /\ load[c][i].pc \in InFlight => caller[c] = "caching"
        /\ case.sync /\ caller[c] = "caching" /\ load[c][i].pc # "idle" =>
               \A j \in 1..(i - 1) : load[c][j].pc = "done" /\ ~Registry!Bad(load[c][j])

\* Somebody reloads n.
Asked(n) ==
    \E c \in Caller : \E i \in DOMAIN Registry!Wants(c) :
        Registry!Wants(c)[i] = n /\ load[c][i].pc \in {"ask", "save"}

CallFresh(c, i) ==
    /\ load[c][i].pc \in {"save", "store"} => Fresh(Registry!Wants(c)[i], load[c][i].got)
    /\ load[c][i].pc = "file" => Fresh(Registry!Wants(c)[i], file[Registry!Wants(c)[i]])

AllFresh ==
    /\ \A n \in DOMAIN memory : Fresh(n, memory[n])
    /\ \A c \in Caller : \A i \in DOMAIN Registry!Wants(c) : CallFresh(c, i)
    /\ \A n \in reloaded : Fresh(n, file[n]) \/ Asked(n)

FreshInv ==
    /\ \A n \in InfoName : latest[n] >= case.latest[n]
    /\ Calling
    /\ Registry!OneAtATime /\ ~faulted => AllFresh

LEMMA InitFresh == ASSUME Registry!ConstantsOK, Registry!Init PROVE FreshInv
  <1>1. \A n \in InfoName : latest[n] >= case.latest[n]
    BY DEF Registry!Init, Registry!ConstantsOK
  <1>2. \A c \in Caller : \A i \in DOMAIN Registry!Wants(c) : load[c][i].pc = "idle"
    BY DEF Registry!Init, Registry!NotCalled
  <1>3. Calling /\ (\A c \in Caller : \A i \in DOMAIN Registry!Wants(c) : CallFresh(c, i))
    BY <1>2 DEF Calling, InFlight, CallFresh
  <1>4. DOMAIN memory = {} /\ reloaded = {}
    BY DEF Registry!Init
  <1> QED BY <1>1, <1>3, <1>4 DEF FreshInv, AllFresh

\* A package is to be reloaded if its file may not be used.
LEMMA UsesOrReloads == ASSUME NEW n PROVE Registry!ToReload(n) <=> ~Registry!UsesFile(n)
  BY DEF Registry!ToReload, Registry!UsesFile

\* Who calls one at a time calls for a package once.
LEMMA AskedOnce ==
  ASSUME Registry!ConstantsOK, InfoInv, FreshInv, Registry!OneAtATime,
         NEW c \in Caller, NEW i \in DOMAIN Registry!Wants(c), load[c][i].pc \in InFlight,
         NEW d \in Caller, NEW j \in DOMAIN Registry!Wants(d), load[d][j].pc \in InFlight,
         Registry!Wants(c)[i] = Registry!Wants(d)[j]
  PROVE  c = d /\ i = j
  <1>1. caller[c] = "caching" /\ caller[d] = "caching" /\ case.batch[c] /\ case.batch[d]
    BY DEF FreshInv, Calling, Registry!OneAtATime
  <1>2. c = d
    BY <1>1 DEF InfoInv, OneBatch, Registry!Working
  <1>3. Registry!IsInjective(Registry!Wants(c))
    BY DEF Registry!OneAtATime
  <1> QED BY <1>2, <1>3 DEF Registry!IsInjective

\* What a step of a call has to do for FreshInv.
LEMMA FreshCall ==
  ASSUME Registry!ConstantsOK, InfoInv, FreshInv,
         NEW c \in Caller, NEW i \in DOMAIN Registry!Wants(c),
         NEW to \in {"idle", "missed", "file", "ask", "save", "store", "done", "error"},
         NEW got \in 0..Releases,
         Registry!Goes(c, i, to, got), UNCHANGED <<case, caller, latest>>, ~faulted' => ~faulted,
         to \in InFlight => caller[c] = "caching",
         load[c][i].pc \in InFlight \/ (load[c][i].pc = "idle" /\ Registry!MayCall(c, i)),
         \A n \in InfoName :
             \/ file'[n] = file[n]
             \/ n = Registry!Wants(c)[i] /\ file'[n] = load[c][i].got /\ load[c][i].pc = "save",
         \A n \in DOMAIN memory' :
             \/ n \in DOMAIN memory /\ memory'[n] = memory[n]
             \/ n = Registry!Wants(c)[i] /\ memory'[n] = load[c][i].got /\ load[c][i].pc = "store",
         Registry!OneAtATime /\ ~faulted' /\ AllFresh =>
             /\ to \in {"save", "store"} => Fresh(Registry!Wants(c)[i], got)
             /\ to = "file" => Fresh(Registry!Wants(c)[i], file'[Registry!Wants(c)[i]])
             /\ \A n \in reloaded' :
                    \/ Fresh(n, file'[n])
                    \/ n \in reloaded /\ (n # Registry!Wants(c)[i] \/ load[c][i].pc \notin {"ask", "save"})
                    \/ n = Registry!Wants(c)[i] /\ to \in {"ask", "save"}
  PROVE  FreshInv'
  <1> DEFINE new == [pc |-> to, got |-> got]
  <1>1. new \in Registry!Call /\ new.pc = to /\ new.got = got
    BY CallType
  <1>2. case \in InfoCases /\ case' = case /\ caller' = caller /\ latest' = latest
    BY DEF InfoInv, Shape
  <1>3. load' = [load EXCEPT ![c][i] = new]
    BY DEF Registry!Goes
  <1> HIDE DEF new
  <1>4. /\ \A d \in Caller : Registry!Wants(d)' = Registry!Wants(d) /\ load[d] \in [DOMAIN Registry!Wants(d) -> Registry!Call]
        /\ \A d \in Caller : \A j \in DOMAIN Registry!Wants(d) : Registry!Wants(d)[j] \in InfoName /\ j \in Nat
        /\ \A d \in Caller : \A j \in DOMAIN Registry!Wants(d) : \A k \in 1..(j - 1) : k \in DOMAIN Registry!Wants(d)
    <2>1. ASSUME NEW d \in Caller PROVE Registry!Wants(d)' = Registry!Wants(d) /\ load[d] \in [DOMAIN Registry!Wants(d) -> Registry!Call]
      BY <1>2 DEF Registry!Wants, InfoInv, Registry!TypeOK
    <2>2. ASSUME NEW d \in Caller, NEW j \in DOMAIN Registry!Wants(d)
          PROVE  /\ Registry!Wants(d)[j] \in InfoName /\ j \in Nat
                 /\ \A k \in 1..(j - 1) : k \in DOMAIN Registry!Wants(d)
      <3>1. Registry!Wants(d) \in Seq(InfoName)
        BY <1>2, InfoCaseOK
      <3> QED BY <3>1
    <2> QED BY <2>1, <2>2
  <1>5. \A d \in Caller : \A j \in DOMAIN Registry!Wants(d) :
           load'[d][j] = IF d = c /\ j = i THEN new ELSE load[d][j]
    <2>1. load' = [d \in Caller |-> IF d = c THEN [load[c] EXCEPT ![i] = new] ELSE load[d]]
      BY <1>3 DEF InfoInv, Shape
    <2> QED BY <1>4, <2>1
  <1>7. Calling'
    <2>1. ASSUME NEW d \in Caller, NEW j \in DOMAIN Registry!Wants(d), load'[d][j].pc \in InFlight
          PROVE  caller'[d] = "caching"
      BY <1>1, <1>2, <1>5, <2>1 DEF FreshInv, Calling
    <2>2. ASSUME NEW d \in Caller, NEW j \in DOMAIN Registry!Wants(d),
                 case.sync, caller[d] = "caching", load'[d][j].pc # "idle", NEW k \in 1..(j - 1)
          PROVE  load'[d][k].pc = "done" /\ ~Registry!Bad(load'[d][k])
      <3>1. k \in DOMAIN Registry!Wants(d) /\ k # j
        BY <1>4
      <3>2. load[d][k].pc = "done" /\ ~Registry!Bad(load[d][k])
        <4>1. CASE d = c /\ j = i /\ load[c][i].pc = "idle"
          BY <2>2, <4>1 DEF Registry!MayCall, InFlight
        <4>2. CASE ~(d = c /\ j = i /\ load[c][i].pc = "idle")
          <5>1. load[d][j].pc # "idle"
            BY <1>5, <2>2, <4>2
          <5> QED BY <2>2, <5>1 DEF FreshInv, Calling
        <4> QED BY <4>1, <4>2
      <3>3. ~(d = c /\ k = i)
        BY <3>2 DEF InFlight
      <3> QED BY <1>5, <3>1, <3>2, <3>3
    <2>3. \A d \in Caller : \A j \in DOMAIN Registry!Wants(d) :
              /\ load'[d][j].pc \in InFlight => caller'[d] = "caching"
              /\ case'.sync /\ caller'[d] = "caching" /\ load'[d][j].pc # "idle" =>
                     \A k \in 1..(j - 1) : load'[d][k].pc = "done" /\ ~Registry!Bad(load'[d][k])
      BY <1>2, <2>1, <2>2
    <2> QED BY <1>4, <2>3 DEF Calling, InFlight, Registry!Bad
  <1>8. ASSUME Registry!OneAtATime, ~faulted' PROVE AllFresh'
    <2>0. AllFresh /\ CallFresh(c, i)
      BY <1>8 DEF FreshInv, AllFresh
    <2>2. \A n \in DOMAIN memory' : Fresh(n, memory'[n])
      BY <2>0 DEF AllFresh, CallFresh
    <2>3. \A n \in InfoName : Fresh(n, file[n]) => Fresh(n, file'[n])
      BY <2>0 DEF CallFresh
    <2>4. ASSUME NEW d \in Caller, NEW j \in DOMAIN Registry!Wants(d)
          PROVE  /\ load'[d][j].pc \in {"save", "store"} => Fresh(Registry!Wants(d)[j], load'[d][j].got)
                 /\ load'[d][j].pc = "file" => Fresh(Registry!Wants(d)[j], file'[Registry!Wants(d)[j]])
      <3>1. CASE d = c /\ j = i
        BY <1>1, <1>5, <1>8, <2>0, <3>1
      <3>2. CASE ~(d = c /\ j = i)
        BY <1>4, <1>5, <2>0, <2>3, <3>2 DEF AllFresh, CallFresh
      <3> QED BY <3>1, <3>2
    <2>5. ASSUME NEW n \in reloaded', ~Fresh(n, file'[n])
          PROVE  \E d \in Caller : \E j \in DOMAIN Registry!Wants(d) :
                     Registry!Wants(d)[j] = n /\ load'[d][j].pc \in {"ask", "save"}
      <3>1. CASE n = Registry!Wants(c)[i] /\ to \in {"ask", "save"}
        BY <1>1, <1>5, <3>1
      <3>2. CASE n \in reloaded /\ (n # Registry!Wants(c)[i] \/ load[c][i].pc \notin {"ask", "save"})
        <4>1. n \in InfoName
          BY <3>2 DEF InfoInv, Registry!TypeOK
        <4>2. Asked(n)
          BY <2>0, <2>3, <2>5, <3>2, <4>1 DEF AllFresh
        <4>3. PICK d \in Caller : \E j \in DOMAIN Registry!Wants(d) :
                     Registry!Wants(d)[j] = n /\ load[d][j].pc \in {"ask", "save"}
          BY <4>2 DEF Asked
        <4>4. PICK j \in DOMAIN Registry!Wants(d) : Registry!Wants(d)[j] = n /\ load[d][j].pc \in {"ask", "save"}
          BY <4>3
        <4>5. load'[d][j] = load[d][j]
          BY <1>5, <3>2, <4>4
        <4> QED BY <4>4, <4>5
      <3> QED BY <1>8, <2>0, <2>5, <3>1, <3>2
    <2> QED BY <1>2, <1>4, <2>2, <2>4, <2>5 DEF AllFresh, CallFresh, Asked, Fresh, Registry!ToReload
  <1>9. Registry!OneAtATime' <=> Registry!OneAtATime
    BY <1>2, <1>4 DEF Registry!OneAtATime
  <1> QED BY <1>2, <1>7, <1>8, <1>9 DEF FreshInv

\* A caller goes on: nothing is on its way then.
LEMMA CallerFresh ==
  ASSUME Registry!ConstantsOK, InfoInv, FreshInv, NEW c \in Caller, Registry!Begin(c) \/ Registry!Cached(c) \/ Registry!Used(c)
  PROVE  FreshInv'
  <1>1. /\ case \in InfoCases /\ UNCHANGED <<case, latest, file, reloaded, faulted>>
        /\ load = [d \in Caller |-> load[d]] /\ caller = [d \in Caller |-> caller[d]]
        /\ \A d \in Caller : Registry!Wants(d)' = Registry!Wants(d) /\ load[d] \in [DOMAIN Registry!Wants(d) -> Registry!Call]
        /\ \A d \in Caller : \A j \in DOMAIN Registry!Wants(d) : \A k \in 1..(j - 1) : k \in DOMAIN Registry!Wants(d)
        /\ \A d \in Caller : \A j \in DOMAIN Registry!Wants(d) : j \in Nat /\ j >= 1
    BY InfoCaseOK DEF Registry!Begin, Registry!Cached, Registry!Used, Registry!cache, InfoInv, Shape, Registry!TypeOK, Registry!Wants
  <1>2. PICK goal \in {"caching", "using", "done", "failed"} :
            /\ caller' = [caller EXCEPT ![c] = goal]
            /\ goal = "caching" => caller[c] = "idle"
    BY DEF Registry!Begin, Registry!Cached, Registry!Used
  <1>3. \/ load' = load
        \/ /\ load' = [load EXCEPT ![c] = [i \in DOMAIN Registry!Wants(c) |-> Registry!NotCalled]]
           /\ caller'[c] # "caching"
    BY <1>1, <1>2 DEF Registry!Begin, Registry!Cached, Registry!Used
  <1>4. Registry!NotCalled.pc = "idle"
    BY DEF Registry!NotCalled
  <1>5. \A i \in DOMAIN Registry!Wants(c) : load[c][i].pc \notin InFlight
    <2>1. CASE caller[c] = "caching" /\ Registry!Ended(c)
      BY <2>1 DEF Registry!Ended, InFlight
    <2>2. CASE caller[c] = "caching" /\ case.sync /\ Registry!Refused(c)
      <3>1. PICK b \in DOMAIN Registry!Wants(c) : Registry!Bad(load[c][b])
        BY <2>2 DEF Registry!Refused
      <3> SUFFICES ASSUME NEW i \in DOMAIN Registry!Wants(c), load[c][i].pc \in InFlight PROVE FALSE
        OBVIOUS
      <3>2. load[c][b].pc # "idle" /\ load[c][b].pc \notin InFlight /\ load[c][i].pc # "idle" /\ load[c][i].pc # "done"
        BY <3>1 DEF Registry!Bad, InFlight
      <3>3. i \in Nat /\ b \in Nat /\ i >= 1 /\ b >= 1 /\ i # b
        BY <1>1, <3>2
      <3>4. CASE i < b
        <4>1. i \in 1..(b - 1)
          BY <3>3, <3>4
        <4> QED BY <2>2, <3>2, <4>1 DEF FreshInv, Calling
      <3>5. CASE b < i
        <4>1. b \in 1..(i - 1)
          BY <3>3, <3>5
        <4> QED BY <2>2, <3>1, <3>2, <4>1 DEF FreshInv, Calling
      <3> QED BY <3>3, <3>4, <3>5
    <2>3. CASE caller[c] # "caching"
      BY <2>3 DEF FreshInv, Calling
    <2> QED BY <2>1, <2>2, <2>3 DEF Registry!Begin, Registry!Cached, Registry!Used
  <1>6. \A d \in Caller : \A i \in DOMAIN Registry!Wants(d) :
            \/ load'[d][i] = load[d][i] /\ (d = c => load[d][i].pc \notin InFlight)
            \/ d = c /\ load'[d][i].pc = "idle" /\ caller'[c] # "caching"
    BY <1>1, <1>3, <1>4, <1>5
  <1>7. \A d \in Caller : d # c => caller'[d] = caller[d]
    BY <1>1, <1>2
  <1>8. caller'[c] = "caching" => caller[c] = "idle" /\ load' = load
    BY <1>1, <1>2, <1>3 DEF Registry!Begin, Registry!Cached, Registry!Used
  <1>9. Calling'
    <2>1. ASSUME NEW d \in Caller, NEW i \in DOMAIN Registry!Wants(d), load'[d][i].pc \in InFlight
          PROVE  caller'[d] = "caching"
      BY <1>6, <1>7, <2>1 DEF FreshInv, Calling, InFlight
    <2>2. ASSUME NEW d \in Caller, NEW i \in DOMAIN Registry!Wants(d),
                 case.sync, caller'[d] = "caching", load'[d][i].pc # "idle", NEW j \in 1..(i - 1)
          PROVE  load'[d][j].pc = "done" /\ ~Registry!Bad(load'[d][j])
      <3>1. d # c
        <4> SUFFICES ASSUME d = c PROVE FALSE
          OBVIOUS
        <4> QED BY <1>8, <2>2 DEF InfoInv, Stages
      <3>2. j \in DOMAIN Registry!Wants(d) /\ load'[d][j] = load[d][j] /\ load'[d][i] = load[d][i]
        BY <1>1, <1>6, <3>1
      <3> QED BY <1>7, <2>2, <3>1, <3>2 DEF FreshInv, Calling
    <2>3. \A d \in Caller : \A i \in DOMAIN Registry!Wants(d) :
              /\ load'[d][i].pc \in InFlight => caller'[d] = "caching"
              /\ case'.sync /\ caller'[d] = "caching" /\ load'[d][i].pc # "idle" =>
                     \A j \in 1..(i - 1) : load'[d][j].pc = "done" /\ ~Registry!Bad(load'[d][j])
      BY <1>1, <2>1, <2>2
    <2> QED BY <1>1, <2>3 DEF Calling, InFlight, Registry!Bad
  <1>10. ASSUME AllFresh PROVE AllFresh'
    <2>1. \A n \in DOMAIN memory' : n \in DOMAIN memory /\ memory'[n] = memory[n]
      BY DEF Registry!Begin, Registry!Cached, Registry!Used, Registry!cache
    <2>2. \A d \in Caller : \A i \in DOMAIN Registry!Wants(d) :
              load'[d][i].pc \in InFlight \/ load[d][i].pc \in InFlight => load'[d][i] = load[d][i]
      BY <1>5, <1>6 DEF InFlight
    <2>3. \A d \in Caller : \A i \in DOMAIN Registry!Wants(d) :
              /\ load'[d][i].pc \in {"save", "store"} => Fresh(Registry!Wants(d)[i], load'[d][i].got)
              /\ load'[d][i].pc = "file" => Fresh(Registry!Wants(d)[i], file[Registry!Wants(d)[i]])
      BY <1>10, <2>2 DEF AllFresh, CallFresh, InFlight
    <2>4. \A n \in reloaded : Fresh(n, file[n]) \/
              \E d \in Caller : \E i \in DOMAIN Registry!Wants(d) :
                  Registry!Wants(d)[i] = n /\ load'[d][i].pc \in {"ask", "save"}
      BY <1>10, <2>2 DEF AllFresh, Asked, InFlight
    <2> QED BY <1>1, <1>10, <2>1, <2>3, <2>4 DEF AllFresh, CallFresh, Asked, Fresh, Registry!ToReload
  <1>11. Registry!OneAtATime' <=> Registry!OneAtATime
    BY <1>1 DEF Registry!OneAtATime
  <1> QED BY <1>1, <1>9, <1>10, <1>11 DEF FreshInv

\* Any step.
LEMMA NextFresh == ASSUME Registry!ConstantsOK, InfoInv, FreshInv, [Registry!Next]_Registry!vars PROVE FreshInv'
  <1>1. /\ case \in InfoCases /\ Releases \in Nat
        /\ load = [c \in Caller |-> load[c]] /\ caller = [c \in Caller |-> caller[c]]
        /\ latest \in [InfoName -> 0..Releases] /\ file \in [InfoName -> 0..Releases]
        /\ DOMAIN memory \subseteq InfoName /\ reloaded \subseteq InfoName
        /\ \A n \in DOMAIN memory : memory[n] \in 0..Releases
        /\ \A n \in InfoName : case.latest[n] \in 0..Releases /\ latest[n] >= case.latest[n]
    BY DEF InfoInv, Shape, Registry!TypeOK, Registry!ConstantsOK, FreshInv
  <1>2. CASE UNCHANGED Registry!vars
    BY <1>2 DEF Registry!vars, Registry!cache, FreshInv, Calling, AllFresh, CallFresh, Asked, Fresh, Registry!ToReload, Registry!OneAtATime, Registry!Wants
  <1>3. ASSUME NEW n \in InfoName, Registry!Publish(n) PROVE FreshInv'
    <2>1. UNCHANGED <<case, file, memory, reloaded, load, caller, faulted>>
      BY <1>3 DEF Registry!Publish, Registry!cache
    <2>2. \A m \in InfoName : latest'[m] >= latest[m] /\ latest'[m] \in Nat /\ latest[m] \in Nat /\ case.latest[m] \in Nat
      BY <1>1, <1>3 DEF Registry!Publish
    <2>3. \A m \in InfoName : latest'[m] >= case'.latest[m]
      BY <1>1, <2>1, <2>2
    <2> QED BY <2>1, <2>3 DEF FreshInv, Calling, AllFresh, CallFresh, Asked, Fresh, Registry!ToReload, Registry!OneAtATime, Registry!Wants
  <1>4. ASSUME NEW c \in Caller, NEW i \in DOMAIN Registry!Wants(c), Registry!CallStep(c, i) PROVE FreshInv'
    <2> DEFINE n == Registry!Wants(c)[i]
    <2>1. /\ load[c][i] \in Registry!Call /\ load[c][i].got \in 0..Releases
          /\ n \in InfoName /\ 0 \in 0..Releases
      BY <1>1, InfoCaseOK DEF InfoInv, Registry!TypeOK, Registry!Call
    <2>2. /\ load[c][i].pc \in InFlight => caller[c] = "caching"
          /\ case.batch[c] /\ caller[c] = "using" => n \in DOMAIN memory
          /\ caller[c] = "using" => case.batch[c]
      BY DEF InfoInv, Registry!SameInfo, Stages, FreshInv, Calling
    <2>3. CASE Registry!Lookup(c, i)
      <3>1. /\ load[c][i].pc = "idle" /\ Registry!MayCall(c, i) /\ caller[c] \in {"caching", "using"}
            /\ UNCHANGED <<case, latest, file, memory, reloaded, caller, faulted>>
        BY <2>3 DEF Registry!Lookup, Registry!At, Registry!cache, Registry!MayCall
      <3>2. CASE n \in DOMAIN memory
        <4>1. Registry!Goes(c, i, "done", memory[n])
          BY <2>3, <3>2 DEF Registry!Lookup
        <4>2. "done" \notin InFlight
          BY DEF InFlight
        <4> QED BY <1>1, <3>1, <3>2, <4>1, <4>2, FreshCall
      <3>3. CASE n \notin DOMAIN memory
        <4>1. Registry!Goes(c, i, "missed", 0) /\ caller[c] = "caching"
          BY <2>2, <2>3, <3>1, <3>3 DEF Registry!Lookup
        <4> QED BY <1>1, <2>1, <3>1, <4>1, FreshCall
      <3> QED BY <3>2, <3>3
    <2>4. CASE Registry!Choose(c, i)
      <3>1. /\ load[c][i].pc = "missed" /\ load[c][i].pc \in InFlight /\ caller[c] = "caching"
            /\ UNCHANGED <<case, latest, file, memory, caller, faulted>>
        BY <2>2, <2>4 DEF Registry!Choose, Registry!At, InFlight
      <3>2. CASE Registry!UsesFile(n) \/ n \in reloaded
        <4>1. Registry!Goes(c, i, "file", 0) /\ reloaded' = reloaded
          BY <2>4, <3>2 DEF Registry!Choose
        <4>2. ASSUME Registry!OneAtATime, AllFresh PROVE Fresh(n, file[n])
          <5>1. CASE Registry!UsesFile(n)
            BY <5>1, UsesOrReloads DEF Fresh
          <5>2. CASE Asked(n)
            <6>0. PICK d \in Caller : \E j \in DOMAIN Registry!Wants(d) :
                           Registry!Wants(d)[j] = n /\ load[d][j].pc \in {"ask", "save"}
              BY <5>2 DEF Asked
            <6>1. PICK j \in DOMAIN Registry!Wants(d) :
                           Registry!Wants(d)[j] = n /\ load[d][j].pc \in {"ask", "save"}
              BY <6>0
            <6>2. c = d /\ i = j
              BY <3>1, <4>2, <6>1, AskedOnce DEF InFlight
            <6> QED BY <3>1, <6>1, <6>2
          <5> QED BY <3>2, <4>2, <5>1, <5>2 DEF AllFresh
        <4> QED BY <1>1, <2>1, <3>1, <4>1, <4>2, FreshCall
      <3>3. CASE ~(Registry!UsesFile(n) \/ n \in reloaded)
        <4>1. Registry!Goes(c, i, "ask", 0) /\ reloaded' = reloaded \cup {n}
          BY <2>4, <3>3 DEF Registry!Choose
        <4> QED BY <1>1, <2>1, <3>1, <4>1, FreshCall
      <3> QED BY <3>2, <3>3
    <2>5. CASE Registry!ReadFile(c, i)
      <3>1. /\ load[c][i].pc = "file" /\ load[c][i].pc \in InFlight /\ caller[c] = "caching"
            /\ UNCHANGED <<case, latest, file, memory, reloaded, caller, faulted>>
        BY <2>2, <2>5 DEF Registry!ReadFile, Registry!At, InFlight, Registry!cache
      <3>2. PICK to \in {"store", "ask"} : Registry!Goes(c, i, to, file[n])
        BY <2>5 DEF Registry!ReadFile
      <3>3. AllFresh => Fresh(n, file[n])
        BY <3>1 DEF AllFresh, CallFresh
      <3> QED BY <1>1, <2>1, <3>1, <3>2, <3>3, FreshCall
    <2>6. CASE Registry!Answer(c, i)
      <3>1. /\ load[c][i].pc = "ask" /\ load[c][i].pc \in InFlight /\ caller[c] = "caching"
            /\ UNCHANGED <<case, latest, file, memory, reloaded, caller, faulted>>
        BY <2>2, <2>6 DEF Registry!Answer, Registry!At, InFlight, Registry!cache
      <3>2. Fresh(n, latest[n]) /\ latest[n] \in 0..Releases
        BY <1>1, <2>1 DEF Fresh
      <3>3. CASE latest[n] # 0
        <4>1. Registry!Goes(c, i, "save", latest[n])
          BY <2>6, <3>3 DEF Registry!Answer
        <4> QED BY <1>1, <2>1, <3>1, <3>2, <4>1, FreshCall
      <3>4. CASE latest[n] = 0
        <4>1. Registry!Goes(c, i, "store", latest[n])
          BY <2>6, <3>4 DEF Registry!Answer
        <4>2. \A g : Fresh(n, g)
          BY <1>1, <2>1, <3>4 DEF Fresh
        <4> QED BY <1>1, <2>1, <3>1, <3>2, <4>1, <4>2, FreshCall
      <3> QED BY <3>3, <3>4
    <2>7. CASE Registry!NoAnswer(c, i)
      <3>1. /\ load[c][i].pc = "ask" /\ load[c][i].pc \in InFlight /\ caller[c] = "caching"
            /\ UNCHANGED <<case, latest, file, memory, reloaded, caller>> /\ faulted' = TRUE
            /\ Registry!Goes(c, i, "error", 0)
        BY <2>2, <2>7 DEF Registry!NoAnswer, Registry!At, InFlight, Registry!cache
      <3> QED BY <1>1, <2>1, <3>1, FreshCall
    <2>8. CASE Registry!SaveFile(c, i)
      <3>1. /\ load[c][i].pc = "save" /\ load[c][i].pc \in InFlight /\ caller[c] = "caching"
            /\ UNCHANGED <<case, latest, memory, reloaded, caller, faulted>>
            /\ Registry!Goes(c, i, "store", load[c][i].got)
            /\ \A m \in InfoName : file'[m] = IF m = n THEN load[c][i].got ELSE file[m]
        BY <1>1, <2>2, <2>8 DEF Registry!SaveFile, Registry!At, InFlight
      <3>2. AllFresh => Fresh(n, load[c][i].got)
        BY <3>1 DEF AllFresh, CallFresh
      <3> QED BY <1>1, <2>1, <3>1, <3>2, FreshCall
    <2>9. CASE Registry!Store(c, i)
      <3> DEFINE info == IF n \in DOMAIN memory THEN memory[n] ELSE load[c][i].got
      <3>1. /\ load[c][i].pc = "store" /\ load[c][i].pc \in InFlight /\ caller[c] = "caching"
            /\ UNCHANGED <<case, latest, file, reloaded, caller, faulted>>
            /\ memory' = [m \in DOMAIN memory \cup {n} |-> IF m = n THEN info ELSE memory[m]]
            /\ Registry!Goes(c, i, "done", info)
        BY <2>2, <2>9 DEF Registry!Store, Registry!At, InFlight
      <3>2. info \in 0..Releases
        BY <1>1, <2>1
      <3>3. \A m \in DOMAIN memory' : \/ m \in DOMAIN memory /\ memory'[m] = memory[m]
                                      \/ m = n /\ memory'[m] = load[c][i].got
        BY <3>1
      <3>4. "done" \notin InFlight
        BY DEF InFlight
      <3> HIDE DEF info
      <3> QED BY <1>1, <2>1, <3>1, <3>2, <3>3, <3>4, FreshCall
    <2> QED BY <1>4, <2>3, <2>4, <2>5, <2>6, <2>7, <2>8, <2>9 DEF Registry!CallStep
  <1> QED BY <1>2, <1>3, <1>4, CallerFresh DEF Registry!Next, Registry!Step

-----------------------------------------------------------------------------
(* NpmResolution: the proofs are those of NpmResolutionProofs, about the   *)
(* same definitions.                                                       *)

Solve == INSTANCE NpmResolutionProofs WITH Cases <- TaskCases

\* The tasks and what they are to do
LEMMA SameTasks ==
  /\ Resolution!Empty = Solve!Empty /\ Resolution!Idle = Solve!Idle /\ Resolution!Loading = Solve!Loading
  /\ Resolution!Registry = Solve!Registry
  /\ \A t : Resolution!Job(t) = Solve!Job(t) /\ Resolution!Reqs(t) = Solve!Reqs(t)
  /\ \A S : Resolution!NamesOf(S) = Solve!NamesOf(S)
  /\ \A t, to : Resolution!At(t, to) <=> Solve!At(t, to)
  /\ \A t, w : Resolution!Becomes(t, w) <=> Solve!Becomes(t, w)
  /\ \A t, to : Resolution!Goes(t, to) <=> Solve!Goes(t, to)
  /\ \A t, to : Resolution!Ends(t, to) <=> Solve!Ends(t, to)
  /\ \A t : Resolution!HasPermit(t) <=> Solve!HasPermit(t)
  /\ \A t : Resolution!Release(t) <=> Solve!Release(t)
  /\ \A t : Resolution!Fails(t) <=> Solve!Fails(t)
  /\ \A t : Resolution!Resolving(t) <=> Solve!Resolving(t)
  BY DEF Resolution!Empty, Solve!Empty, Resolution!Idle, Solve!Idle, Resolution!Loading, Solve!Loading,
         Resolution!Registry, Solve!Registry, Resolution!Job, Solve!Job, Resolution!Reqs, Solve!Reqs,
         Resolution!NamesOf, Solve!NamesOf, Resolution!At, Solve!At, Resolution!Becomes, Solve!Becomes,
         Resolution!Goes, Solve!Goes, Resolution!Ends, Solve!Ends, Resolution!HasPermit, Solve!HasPermit,
         Resolution!Release, Solve!Release, Resolution!Fails, Solve!Fails, Resolution!Resolving, Solve!Resolving

\* Maps, and the versions that match
LEMMA SameVersions ==
  /\ \A f, x, y : Resolution!With(f, x, y) = Solve!With(f, x, y)
  /\ \A s : Resolution!ToSet(s) = Solve!ToSet(s)
  /\ \A nv, r : Resolution!Matches(nv, r) <=> Solve!Matches(nv, r)
  /\ \A r, S : Resolution!First(r, S) <=> Solve!First(r, S)
  /\ \A r, S : Resolution!Best(r, S) = Solve!Best(r, S)
  /\ \A w : Resolution!Known(w) = Solve!Known(w)
  /\ \A w, r : Resolution!Chosen(w, r) = Solve!Chosen(w, r)
  /\ \A w, nv : Resolution!Reach(w, nv) = Solve!Reach(w, nv)
  <1>1. /\ \A f, x, y : Resolution!With(f, x, y) = Solve!With(f, x, y)
        /\ \A s : Resolution!ToSet(s) = Solve!ToSet(s)
        /\ \A nv, r : Resolution!Matches(nv, r) <=> Solve!Matches(nv, r)
    BY DEF Resolution!With, Solve!With, Resolution!ToSet, Solve!ToSet, Resolution!Matches, Solve!Matches
  <1>2. \A S : Resolution!Max(S) = Solve!Max(S)
    BY DEF Resolution!Max, Solve!Max
  <1>3. \A r, S : Resolution!First(r, S) <=> Solve!First(r, S)
    BY <1>2 DEF Resolution!First, Solve!First, Resolution!Before, Solve!Before
  <1>4. \A r, S : Resolution!Matching(r, S) = Solve!Matching(r, S)
    BY DEF Resolution!Matching, Solve!Matching, Resolution!Matches, Solve!Matches
  <1>5. \A r, S : Resolution!Best(r, S) = Solve!Best(r, S)
    BY <1>2, <1>4, SameTasks DEF Resolution!Best, Solve!Best
  <1>6. \A w : Resolution!Known(w) = Solve!Known(w)
    BY <1>1 DEF Resolution!Known, Solve!Known
  <1>7. /\ \A w, r : Resolution!Chosen(w, r) = Solve!Chosen(w, r)
        /\ \A w, nv : Resolution!Reach(w, nv) = Solve!Reach(w, nv)
    BY <1>5, <1>6 DEF Resolution!Chosen, Solve!Chosen, Resolution!Reach, Solve!Reach
  <1> QED BY <1>1, <1>3, <1>5, <1>6, <1>7

\* The snapshot and the lockfile
LEMMA SameLocks ==
  /\ \A s, reqs : Resolution!UpToDate(s, reqs) <=> Solve!UpToDate(s, reqs)
  /\ \A s, r : Resolution!Resolves(s, r) <=> Solve!Resolves(s, r)
  /\ \A s, n, nv : Resolution!FromPackage(s, n, nv) = Solve!FromPackage(s, n, nv)
  /\ \A s : Resolution!CanLock(s) <=> Solve!CanLock(s)
  /\ \A lock : Resolution!Corrupt(lock) <=> Solve!Corrupt(lock)
  /\ \A lock, s : Resolution!Locked(lock, s) = Solve!Locked(lock, s)
  /\ \A lock : Resolution!FromLockfile(lock) = Solve!FromLockfile(lock)
  /\ \A k : Resolution!CaseOK(k) <=> Solve!CaseOK(k)
  <1>1. \A S : Resolution!Max(S) = Solve!Max(S)
    BY DEF Resolution!Max, Solve!Max
  <1>2. /\ \A s, reqs : Resolution!UpToDate(s, reqs) <=> Solve!UpToDate(s, reqs)
        /\ \A s, r : Resolution!Resolves(s, r) <=> Solve!Resolves(s, r)
    BY DEF Resolution!UpToDate, Solve!UpToDate, Resolution!Resolves, Solve!Resolves
  <1>3. \A s, n, nv : Resolution!FromPackage(s, n, nv) = Solve!FromPackage(s, n, nv)
    BY <1>1 DEF Resolution!FromPackage, Solve!FromPackage
  <1>4. \A f : Resolution!Range(f) = Solve!Range(f)
    BY DEF Resolution!Range, Solve!Range
  <1>5. /\ \A s : Resolution!CanLock(s) <=> Solve!CanLock(s)
        /\ \A lock : Resolution!FromLockfile(lock) = Solve!FromLockfile(lock)
    BY <1>4 DEF Resolution!CanLock, Solve!CanLock, Resolution!FromLockfile, Solve!FromLockfile
  <1>6. \A lock : Resolution!Corrupt(lock) <=> Solve!Corrupt(lock)
    BY DEF Resolution!Corrupt, Solve!Corrupt, Resolution!NamedIn, Solve!NamedIn, Resolution!Range, Solve!Range
  <1>7. \A lock, s : Resolution!Locked(lock, s) = Solve!Locked(lock, s)
    BY DEF Resolution!Locked, Solve!Locked, Resolution!Over, Solve!Over
  <1>8. \A S : Resolution!IsFiniteSet(S) <=> Solve!IsFiniteSet(S)
    BY DEF Resolution!IsFiniteSet, Solve!IsFiniteSet
  <1>9. \A k : Resolution!CaseOK(k) <=> Solve!CaseOK(k)
    BY <1>6, <1>8, SameVersions DEF Resolution!CaseOK, Solve!CaseOK
  <1> QED BY <1>2, <1>3, <1>5, <1>6, <1>7, <1>9

\* The steps of a task
LEMMA SameTaskStep ==
  ASSUME NEW t
  PROVE  Resolution!Step(t) <=> Solve!Step(t)
  <1>1. Resolution!Start(t) <=> Solve!Start(t)
    BY SameTasks DEF Resolution!Start, Solve!Start
  <1>2. Resolution!Cache(t) <=> Solve!Cache(t)
    BY SameTasks DEF Resolution!Cache, Solve!Cache
  <1>3. Resolution!RequestFails(t) <=> Solve!RequestFails(t)
    BY SameTasks DEF Resolution!RequestFails, Solve!RequestFails
  <1>4. Resolution!AsPending(t) <=> Solve!AsPending(t)
    <2> DEFINE known(r) == {x \in snapshot.byName : x[1] = r.name}
               old(r, nv) == [snapshot EXCEPT !.reqs = Resolution!With(@, r, nv), !.byName = @ \cup {nv},
                                              !.pending = Append(@, nv)]
               new(r, nv) == [snapshot EXCEPT !.reqs = Solve!With(@, r, nv), !.byName = @ \cup {nv},
                                              !.pending = Append(@, nv)]
               left(r) == [task[t] EXCEPT !.reqs = @ \ {r}]
    <2>1. ASSUME NEW r, NEW nv PROVE old(r, nv) = new(r, nv)
      <3>1. Resolution!With(snapshot.reqs, r, nv) = Solve!With(snapshot.reqs, r, nv)
        BY SameVersions
      <3> QED BY <3>1, Zenon
    <2>2. Resolution!AsPending(t) <=>
            /\ Resolution!At(t, "installing") /\ task[t].todo = {}
            /\ \E r \in task[t].reqs :
                  /\ Resolution!First(r, task[t].reqs)
                  /\ IF r.name \notin memory THEN Resolution!Ends(t, "panicked") /\ UNCHANGED snapshot
                     ELSE IF <<r.name, Resolution!Best(r, known(r))>>[2] = 0 THEN Resolution!Ends(t, "failed") /\ UNCHANGED snapshot
                     ELSE /\ snapshot' = old(r, <<r.name, Resolution!Best(r, known(r))>>)
                          /\ Resolution!Becomes(t, left(r))
            /\ UNCHANGED <<case, queue, memory, installed, lockfile>>
      BY Zenon DEF Resolution!AsPending
    <2>3. Solve!AsPending(t) <=>
            /\ Solve!At(t, "installing") /\ task[t].todo = {}
            /\ \E r \in task[t].reqs :
                  /\ Solve!First(r, task[t].reqs)
                  /\ IF r.name \notin memory THEN Solve!Ends(t, "panicked") /\ UNCHANGED snapshot
                     ELSE IF <<r.name, Solve!Best(r, known(r))>>[2] = 0 THEN Solve!Ends(t, "failed") /\ UNCHANGED snapshot
                     ELSE /\ snapshot' = new(r, <<r.name, Solve!Best(r, known(r))>>)
                          /\ Solve!Becomes(t, left(r))
            /\ UNCHANGED <<case, queue, memory, installed, lockfile>>
      BY Zenon DEF Solve!AsPending
    <2> HIDE DEF known, old, new, left
    <2> QED BY <2>1, <2>2, <2>3, SameTasks, SameVersions
  <1>5. Resolution!Installed(t) <=> Solve!Installed(t)
    BY SameTasks DEF Resolution!Installed, Solve!Installed
  <1>6. Resolution!Clone(t) <=> Solve!Clone(t)
    BY SameTasks, SameVersions, SameLocks DEF Resolution!Clone, Solve!Clone
  <1>7. Resolution!AddReq(t) <=> Solve!AddReq(t)
    <2> DEFINE w == task[t]
               old(r, nv) == [w EXCEPT !.reqs = @ \ {r}, !.nodes = Resolution!Reach(w, nv),
                                       !.local = [w.local EXCEPT !.reqs = Resolution!With(@, r, nv), !.roots = @ \cup {nv}]]
               new(r, nv) == [w EXCEPT !.reqs = @ \ {r}, !.nodes = Solve!Reach(w, nv),
                                       !.local = [w.local EXCEPT !.reqs = Solve!With(@, r, nv), !.roots = @ \cup {nv}]]
    <2>1. ASSUME NEW r, NEW nv PROVE old(r, nv) = new(r, nv)
      <3>1. Resolution!Reach(w, nv) = Solve!Reach(w, nv) /\ Resolution!With(w.local.reqs, r, nv) = Solve!With(w.local.reqs, r, nv)
        BY SameVersions
      <3> QED BY <3>1, Zenon
    <2>2. Resolution!AddReq(t) <=> /\ Resolution!Resolving(t)
          /\ \E r \in w.reqs :
                /\ Resolution!First(r, w.reqs)
                /\ \/ Resolution!Chosen(w, r)[2] = 0 /\ Resolution!Fails(t)
                   \/ /\ Resolution!Chosen(w, r)[2] # 0 /\ UNCHANGED queue
                      /\ Resolution!Becomes(t, old(r, Resolution!Chosen(w, r)))
      BY Zenon DEF Resolution!AddReq
    <2>3. Solve!AddReq(t) <=> /\ Solve!Resolving(t)
          /\ \E r \in w.reqs :
                /\ Solve!First(r, w.reqs)
                /\ \/ Solve!Chosen(w, r)[2] = 0 /\ Solve!Fails(t)
                   \/ /\ Solve!Chosen(w, r)[2] # 0 /\ UNCHANGED queue
                      /\ Solve!Becomes(t, new(r, Solve!Chosen(w, r)))
      BY Zenon DEF Solve!AddReq
    <2> HIDE DEF old, new, w
    <2> QED BY <2>1, <2>2, <2>3, SameTasks, SameVersions
  <1>8. Resolution!AddPending(t) <=> Solve!AddPending(t)
    BY SameTasks, SameVersions DEF Resolution!AddPending, Solve!AddPending
  <1>9. Resolution!NextPackage(t) <=> Solve!NextPackage(t)
    BY SameTasks, SameVersions DEF Resolution!NextPackage, Solve!NextPackage
  <1>10. Resolution!AddDep(t) <=> Solve!AddDep(t)
    <2> DEFINE w == task[t]
               old(d, nv) == [w EXCEPT !.deps = @ \ {d}, !.nodes = Resolution!Reach(w, nv),
                                       !.local = [w.local EXCEPT !.packages = Resolution!With(@, w.at,
                                                      IF nv = w.at THEN w.local.packages[w.at]
                                                      ELSE Resolution!With(w.local.packages[w.at], d.name, nv))]]
               new(d, nv) == [w EXCEPT !.deps = @ \ {d}, !.nodes = Solve!Reach(w, nv),
                                       !.local = [w.local EXCEPT !.packages = Solve!With(@, w.at,
                                                      IF nv = w.at THEN w.local.packages[w.at]
                                                      ELSE Solve!With(w.local.packages[w.at], d.name, nv))]]
    <2>1. ASSUME NEW d, NEW nv PROVE old(d, nv) = new(d, nv)
      <3> DEFINE own == w.local.packages[w.at]
                 children == IF nv = w.at THEN own ELSE Solve!With(own, d.name, nv)
      <3>1. /\ Resolution!Reach(w, nv) = Solve!Reach(w, nv)
            /\ Resolution!With(own, d.name, nv) = Solve!With(own, d.name, nv)
            /\ Resolution!With(w.local.packages, w.at, children) = Solve!With(w.local.packages, w.at, children)
        BY SameVersions
      <3> QED BY <3>1, Zenon
    <2>2. Resolution!AddDep(t) <=> /\ Resolution!Resolving(t)
          /\ \E d \in w.deps :
                /\ Resolution!First(d, w.deps)
                /\ \/ Resolution!Chosen(w, d)[2] = 0 /\ Resolution!Fails(t)
                   \/ /\ Resolution!Chosen(w, d)[2] # 0 /\ UNCHANGED queue
                      /\ Resolution!Becomes(t, old(d, Resolution!Chosen(w, d)))
      BY Zenon DEF Resolution!AddDep
    <2>3. Solve!AddDep(t) <=> /\ Solve!Resolving(t)
          /\ \E d \in w.deps :
                /\ Solve!First(d, w.deps)
                /\ \/ Solve!Chosen(w, d)[2] = 0 /\ Solve!Fails(t)
                   \/ /\ Solve!Chosen(w, d)[2] # 0 /\ UNCHANGED queue
                      /\ Solve!Becomes(t, new(d, Solve!Chosen(w, d)))
      BY Zenon DEF Solve!AddDep
    <2> HIDE DEF old, new, w
    <2> QED BY <2>1, <2>2, <2>3, SameTasks, SameVersions
  <1>11. Resolution!IntoSnapshot(t) <=> Solve!IntoSnapshot(t)
    BY SameTasks, SameVersions DEF Resolution!IntoSnapshot, Solve!IntoSnapshot
  <1>12. Resolution!Clear(t) <=> Solve!Clear(t)
    BY SameTasks, SameLocks DEF Resolution!Clear, Solve!Clear
  <1>13. Resolution!WriteBack(t) <=> Solve!WriteBack(t)
    BY SameTasks DEF Resolution!WriteBack, Solve!WriteBack
  <1>14. Resolution!Lock(t) <=> Solve!Lock(t)
    BY SameTasks, SameLocks DEF Resolution!Lock, Solve!Lock
  <1> QED BY <1>1, <1>2, <1>3, <1>4, <1>5, <1>6, <1>7, <1>8, <1>9, <1>10, <1>11, <1>12, <1>13, <1>14
          DEF Resolution!Step, Solve!Step, Resolution!Resolve, Solve!Resolve

LEMMA SameResolution ==
  /\ Resolution!Init <=> Solve!Init
  /\ [Resolution!Next]_Resolution!vars <=> [Solve!Next]_Solve!vars
  <1>1. Resolution!Init <=> Solve!Init
    BY SameTasks, SameLocks DEF Resolution!Init, Solve!Init
  <1>2. Resolution!Next <=> Solve!Next
    BY SameTaskStep DEF Resolution!Next, Solve!Next
  <1>3. UNCHANGED Resolution!vars <=> UNCHANGED Solve!vars
    BY DEF Resolution!vars, Solve!vars
  <1> QED BY <1>1, <1>2, <1>3

\* The properties
LEMMA SameSnapshots ==
  /\ Resolution!SnapshotWhole <=> Solve!SnapshotWhole
  /\ Resolution!AddedResolve <=> Solve!AddedResolve
  /\ Resolution!LockfileLoads <=> Solve!LockfileLoads
  /\ Resolution!PermitPassedOn <=> Solve!PermitPassedOn
  <1>1. Resolution!SnapshotWhole <=> Solve!SnapshotWhole
    BY SameTasks, SameVersions, SameLocks DEF Resolution!SnapshotWhole, Solve!SnapshotWhole
  <1>2. Resolution!AddedResolve <=> Solve!AddedResolve
    BY SameTasks, SameLocks DEF Resolution!AddedResolve, Solve!AddedResolve, Resolution!OnlyAdds, Solve!OnlyAdds
  <1>3. Resolution!LockfileLoads <=> Solve!LockfileLoads
    BY SameTasks, SameLocks DEF Resolution!LockfileLoads, Solve!LockfileLoads
  <1>4. Resolution!PermitPassedOn <=> Solve!PermitPassedOn
    BY SameTasks, SameVersions DEF Resolution!PermitPassedOn, Solve!PermitPassedOn
  <1> QED BY <1>1, <1>2, <1>3, <1>4

-----------------------------------------------------------------------------
(* NpmFiles: the proofs are those of NpmFilesProofs, about the same        *)
(* definitions.                                                            *)

Whole == INSTANCE NpmFilesProofs WITH Cases <- FolderCases

\* What the folders can be, and who works on them
LEMMA SameFolders ==
  /\ Folders!Item = Whole!Item /\ Folders!Content = Whole!Content
  /\ Folders!NoFolder = Whole!NoFolder /\ Folders!CachedFolder = Whole!CachedFolder
  /\ Folders!NoModule = Whole!NoModule
  /\ \A n : Folders!Family(n) = Whole!Family(n)
  /\ Folders!ConstantsOK <=> Whole!ConstantsOK
  /\ \A k : Folders!Stands(k) <=> Whole!Stands(k)
  BY DEF Folders!Item, Whole!Item, Folders!Content, Whole!Content, Folders!NoFolder, Whole!NoFolder,
         Folders!CachedFolder, Whole!CachedFolder, Folders!NoModule, Whole!NoModule, Folders!Family, Whole!Family,
         Folders!ConstantsOK, Whole!ConstantsOK, Folders!Stands, Whole!Stands, Folders!Serial, Whole!Serial,
         Folders!Shared, Whole!Shared, Folders!FilledAtOnce, Whole!FilledAtOnce

LEMMA SamePlaces ==
  /\ \A p : Folders!InModules(p) <=> Whole!InModules(p)
  /\ \A p : Folders!Uses(p) <=> Whole!Uses(p)
  /\ \A p : Folders!Ended(p) <=> Whole!Ended(p)
  /\ \A p, n, step : Folders!Goes(p, n, step) <=> Whole!Goes(p, n, step)
  /\ \A p, to : Folders!MoveOn(p, to) <=> Whole!MoveOn(p, to)
  /\ \A p, n, step : Folders!At(p, n, step) <=> Whole!At(p, n, step)
  /\ \A p, n : Folders!Ready(p, n) <=> Whole!Ready(p, n)
  /\ Folders!SameProgram <=> Whole!SameProgram
  BY DEF Folders!InModules, Whole!InModules, Folders!Uses, Whole!Uses, Folders!Ended, Whole!Ended,
         Folders!Goes, Whole!Goes, Folders!MoveOn, Whole!MoveOn, Folders!At, Whole!At, Folders!Ready, Whole!Ready,
         Folders!SameProgram, Whole!SameProgram

\* The steps of one package
LEMMA SameItemStep ==
  ASSUME NEW p, NEW n
  PROVE  Folders!ItemStep(p, n) <=> Whole!ItemStep(p, n)
  <1>1. Folders!Begin(p, n) <=> Whole!Begin(p, n)
    BY SamePlaces DEF Folders!Begin, Whole!Begin, Folders!Skips, Whole!Skips
  <1>2. Folders!Look(p, n) <=> Whole!Look(p, n)
    BY SamePlaces DEF Folders!Look, Whole!Look, Folders!Usable, Whole!Usable, Folders!Missing, Whole!Missing
  <1>3. Folders!SeeLock(p, n) <=> Whole!SeeLock(p, n)
    BY SamePlaces DEF Folders!SeeLock, Whole!SeeLock, Folders!Missing, Whole!Missing, Folders!Then, Whole!Then
  <1>4. Folders!Fetch(p, n) <=> Whole!Fetch(p, n)
    BY SamePlaces DEF Folders!Fetch, Whole!Fetch
  <1>5. Folders!MakeFolder(p, n) <=> Whole!MakeFolder(p, n)
    BY SamePlaces DEF Folders!MakeFolder, Whole!MakeFolder
  <1>6. Folders!LockFile(p, n) <=> Whole!LockFile(p, n)
    BY SamePlaces DEF Folders!LockFile, Whole!LockFile
  <1>7. Folders!Extract(p, n) <=> Whole!Extract(p, n)
    BY SamePlaces DEF Folders!Extract, Whole!Extract, Folders!Linked, Whole!Linked
  <1>8. Folders!Write(p, n) <=> Whole!Write(p, n)
    BY SamePlaces, SameFolders DEF Folders!Write, Whole!Write, Folders!Filled, Whole!Filled
  <1>9. Folders!Relink(p, n) <=> Whole!Relink(p, n)
    BY SamePlaces DEF Folders!Relink, Whole!Relink, Folders!LinkedAgain, Whole!LinkedAgain,
                      Folders!Linked, Whole!Linked
  <1>10. Folders!Unlock(p, n) <=> Whole!Unlock(p, n)
    BY SamePlaces DEF Folders!Unlock, Whole!Unlock, Folders!Then, Whole!Then
  <1>11. Folders!Clean(p, n) <=> Whole!Clean(p, n)
    BY SamePlaces, SameFolders DEF Folders!Clean, Whole!Clean
  <1>12. Folders!CopyFile(p, n) <=> Whole!CopyFile(p, n)
    BY SamePlaces, SameFolders DEF Folders!CopyFile, Whole!CopyFile, Folders!Opened, Whole!Opened
  <1>13. Folders!CopyRest(p, n) <=> Whole!CopyRest(p, n)
    BY SamePlaces, SameFolders DEF Folders!CopyRest, Whole!CopyRest, Folders!Filled, Whole!Filled
  <1>14. Folders!LinkCopy(p, n) <=> Whole!LinkCopy(p, n)
    BY SamePlaces DEF Folders!LinkCopy, Whole!LinkCopy, Folders!Linked, Whole!Linked
  <1>15. Folders!Initialized(p, n) <=> Whole!Initialized(p, n)
    BY SamePlaces DEF Folders!Initialized, Whole!Initialized
  <1> QED BY <1>1, <1>2, <1>3, <1>4, <1>5, <1>6, <1>7, <1>8, <1>9, <1>10, <1>11, <1>12, <1>13, <1>14, <1>15
          DEF Folders!ItemStep, Whole!ItemStep

\* The steps of a program
LEMMA SameFolderStep ==
  ASSUME NEW p
  PROVE  (Folders!Step(p) \/ Folders!Killed(p)) <=> (Whole!Step(p) \/ Whole!Killed(p))
  <1>1. Folders!Call(p) <=> Whole!Call(p)
    BY SamePlaces DEF Folders!Call, Whole!Call, Folders!Alone, Whole!Alone
  <1>2. Folders!Flag(p) <=> Whole!Flag(p)
    BY SamePlaces DEF Folders!Flag, Whole!Flag
  <1>3. \A S : Folders!Results(p, S) = Whole!Results(p, S) /\ (Folders!Waited(p, S) <=> Whole!Waited(p, S))
    BY DEF Folders!Results, Whole!Results, Folders!Waited, Whole!Waited
  <1>4. Folders!AllPackages(p) <=> Whole!AllPackages(p)
    BY <1>3, SamePlaces DEF Folders!AllPackages, Whole!AllPackages
  <1>5. Folders!AllCopies(p) <=> Whole!AllCopies(p)
    BY <1>3, SamePlaces DEF Folders!AllCopies, Whole!AllCopies
  <1>6. Folders!Links(p) <=> Whole!Links(p)
    BY SamePlaces, SameFolders DEF Folders!Links, Whole!Links
  <1>7. Folders!Killed(p) <=> Whole!Killed(p)
    BY SamePlaces, SameFolders DEF Folders!Killed, Whole!Killed, Folders!Left, Whole!Left
  <1> QED BY <1>1, <1>2, <1>4, <1>5, <1>6, <1>7, SameItemStep, SameFolders
          DEF Folders!Step, Whole!Step

LEMMA SameFolderNext ==
  /\ Folders!Init <=> Whole!Init
  /\ [Folders!Next]_Folders!vars <=> [Whole!Next]_Whole!vars
  <1>1. Folders!Init <=> Whole!Init
    BY SameFolders DEF Folders!Init, Whole!Init
  <1>2. Folders!Next <=> Whole!Next
    BY SameFolderStep DEF Folders!Next, Whole!Next
  <1>3. UNCHANGED Folders!vars <=> UNCHANGED Whole!vars
    BY DEF Folders!vars, Whole!vars
  <1> QED BY <1>1, <1>2, <1>3

\* The properties
LEMMA SameWhole ==
  /\ Folders!TypeOK <=> Whole!TypeOK
  /\ Folders!CacheWhole <=> Whole!CacheWhole
  /\ Folders!ModulesWhole <=> Whole!ModulesWhole
  /\ Folders!OncePerRun <=> Whole!OncePerRun
  /\ Folders!DoneStep <=> Whole!DoneStep
  <1>1. \A n, steps : Folders!Busy(n, steps) <=> Whole!Busy(n, steps)
    BY SamePlaces DEF Folders!Busy, Whole!Busy
  <1>2. \A n : Folders!Rewritten(n) <=> Whole!Rewritten(n)
    BY <1>1, SameFolders DEF Folders!Rewritten, Whole!Rewritten
  <1>3. Folders!TypeOK <=> Whole!TypeOK
    <2>1. \A S : Folders!Cardinality(S) = Whole!Cardinality(S)
      BY DEF Folders!Cardinality, Whole!Cardinality
    <2> QED BY <2>1, SameFolders DEF Folders!TypeOK, Whole!TypeOK
  <1>8. \A n : Folders!Attended(n) <=> Whole!Attended(n)
    BY <1>1 DEF Folders!Attended, Whole!Attended, Folders!Shared, Whole!Shared, Folders!FilledAtOnce,
                Whole!FilledAtOnce
  <1>4. Folders!CacheWhole <=> Whole!CacheWhole
    BY <1>1, <1>8, SameFolders DEF Folders!CacheWhole, Whole!CacheWhole
  <1>5. Folders!ModulesWhole <=> Whole!ModulesWhole
    BY <1>2, SameFolders DEF Folders!ModulesWhole, Whole!ModulesWhole
  <1>6. Folders!OncePerRun <=> Whole!OncePerRun
    BY DEF Folders!OncePerRun, Whole!OncePerRun
  <1>7. Folders!DoneStep <=> Whole!DoneStep
    BY DEF Folders!DoneStep, Whole!DoneStep, Folders!Whole, Whole!Whole, Folders!Rewritten, Whole!Rewritten,
           Folders!Busy, Whole!Busy, Folders!Ended, Whole!Ended, Folders!Item, Whole!Item,
           Folders!InModules, Whole!InModules, Folders!Family, Whole!Family, Folders!Attended, Whole!Attended,
           Folders!Shared, Whole!Shared, Folders!FilledAtOnce, Whole!FilledAtOnce
  <1> QED BY <1>3, <1>4, <1>5, <1>6, <1>7

-----------------------------------------------------------------------------
(* NpmNames: the proofs are those of NpmNamesProofs, about the same        *)
(* definitions.                                                            *)

Texts == INSTANCE NpmNamesProofs WITH Cases <- NameCases, Name <- PackageName

\* Texts and paths
LEMMA SameTexts ==
  /\ Names!Mark = Texts!Mark /\ Names!NotRead = Texts!NotRead
  /\ \A t, a, b : Names!Replaced(t, a, b) = Texts!Replaced(t, a, b)
  /\ \A S : Names!First(S) = Texts!First(S)
  /\ \A n : Names!Split(n) = Texts!Split(n)
  /\ \A parts : Names!FlattenSeq(parts) = Texts!FlattenSeq(parts)
  /\ \A level : Names!Underscores(level) = Texts!Underscores(level)
  /\ \A value, at : Names!Parsed(value, at) = Texts!Parsed(value, at)
  /\ \A n : Names!Mixed(n) <=> Texts!Mixed(n)
  /\ \A n : Names!Encoded(n) = Texts!Encoded(n)
  BY Zenon DEF Names!Mark, Texts!Mark, Names!NotRead, Texts!NotRead, Names!Replaced, Texts!Replaced,
         Names!First, Texts!First, Names!Split, Texts!Split, Names!FlattenSeq, Texts!FlattenSeq,
         Names!Underscores, Texts!Underscores, Names!Parsed, Texts!Parsed,
         Names!Mixed, Texts!Mixed, Names!Encoded, Texts!Encoded

\* Identifiers
LEMMA SameIds ==
  /\ \A id : Names!Serialized(id) = Texts!Serialized(id)
  /\ \A t : Names!FromSerialized(t) = Texts!FromSerialized(t)
  <1>1. Names!SerializedAt = Texts!SerializedAt
    BY Zenon DEF Names!SerializedAt, Texts!SerializedAt, Names!Replaced, Texts!Replaced,
                 Names!Underscores, Texts!Underscores, Names!FlattenSeq, Texts!FlattenSeq
  <1>2. ASSUME NEW t PROVE Names!FromSerialized(t) = Texts!FromSerialized(t)
    BY Zenon DEF Names!FromSerialized, Texts!FromSerialized, Names!ParseId, Texts!ParseId,
                 Names!ParsePeers, Texts!ParsePeers, Names!MostPeers, Texts!MostPeers,
                 Names!Depth, Texts!Depth,
                 Names!ParseNameAndVersion, Texts!ParseNameAndVersion, Names!First, Texts!First,
                 Names!Parsed, Texts!Parsed, Names!NotRead, Texts!NotRead, Names!Replaced, Texts!Replaced
  <1> QED BY <1>1, <1>2, Zenon DEF Names!Serialized, Texts!Serialized

\* Folders
LEMMA SameNameFolders ==
  /\ \A f : Names!CacheFolder(f) = Texts!CacheFolder(f)
  /\ \A path : Names!FolderIdOf(path) = Texts!FolderIdOf(path)
  /\ \A f : Names!LocalFolderName(f) = Texts!LocalFolderName(f)
  /\ \A f : Names!LocalFolder(f) = Texts!LocalFolder(f)
  /\ \A path : Names!PackageRoot(path) = Texts!PackageRoot(path)
  <1>1. \A f : Names!VersionFolder(f) = Texts!VersionFolder(f)
    BY Zenon DEF Names!VersionFolder, Texts!VersionFolder
  <1>2. \A n : Names!PackageNameFolder(n) = Texts!PackageNameFolder(n)
    BY SameTexts, Zenon DEF Names!PackageNameFolder, Texts!PackageNameFolder
  <1>3. \A f : Names!CacheFolder(f) = Texts!CacheFolder(f)
    BY <1>1, <1>2, Zenon DEF Names!CacheFolder, Texts!CacheFolder
  <1>4. ASSUME NEW path PROVE Names!FolderIdOf(path) = Texts!FolderIdOf(path)
    BY Zenon DEF Names!FolderIdOf, Texts!FolderIdOf, Names!Decoded, Texts!Decoded, Names!Mixed, Texts!Mixed,
                 Names!Split, Texts!Split, Names!First, Texts!First, Names!NotRead, Texts!NotRead
  <1>5. \A f : Names!LocalFolderName(f) = Texts!LocalFolderName(f)
    BY Zenon DEF Names!LocalFolderName, Texts!LocalFolderName, Names!Mixed, Texts!Mixed,
                 Names!Encoded, Texts!Encoded, Names!Replaced, Texts!Replaced
  <1>6. Names!NodeModules = Texts!NodeModules
    BY Zenon DEF Names!NodeModules, Texts!NodeModules
  <1>7. \A f : Names!LocalFolder(f) = Texts!LocalFolder(f)
    BY <1>5, <1>6, SameTexts, Zenon DEF Names!LocalFolder, Texts!LocalFolder
  <1>8. \A path : Names!PackageRoot(path) = Texts!PackageRoot(path)
    BY Zenon DEF Names!PackageRoot, Texts!PackageRoot, Names!NodeModules, Texts!NodeModules
  <1> QED BY <1>3, <1>4, <1>5, <1>7, <1>8

\* The constants, the initial states and the properties
LEMMA SameNames ==
  /\ Names!ConstantsOK <=> Texts!ConstantsOK
  /\ Names!Init <=> Texts!Init
  /\ Names!IdentifiersReadBack <=> Texts!IdentifiersReadBack
  /\ Names!FoldersApart <=> Texts!FoldersApart
  <1>1. Names!ConstantsOK <=> Texts!ConstantsOK
    BY Zenon DEF Names!ConstantsOK, Texts!ConstantsOK, Names!NamesOK, Texts!NamesOK, Names!NameOK, Texts!NameOK,
         Names!IdsOK, Texts!IdsOK, Names!CaseOK, Texts!CaseOK, Names!FolderOK, Texts!FolderOK,
         Names!Mixed, Texts!Mixed, Names!Mark, Texts!Mark
  <1>2. Names!Init <=> Texts!Init
    BY Zenon DEF Names!Init, Texts!Init, Names!NotRead, Texts!NotRead
  <1>3. Names!IdentifiersReadBack <=> Texts!IdentifiersReadBack
    BY Zenon DEF Names!IdentifiersReadBack, Texts!IdentifiersReadBack, Names!Read, Texts!Read
  <1>4. Names!FoldersApart <=> Texts!FoldersApart
    BY SameNameFolders, Zenon DEF Names!FoldersApart, Texts!FoldersApart, Names!Read, Texts!Read
  <1> QED BY <1>1, <1>2, <1>3, <1>4

\* The next-state relations are the same.
LEMMA SameNameSteps == [Names!Next]_Names!vars <=> [Texts!Next]_Texts!vars
  <1>1. \A kind, from, to : Names!Does(kind, from, to) <=> Texts!Does(kind, from, to)
    BY Zenon DEF Names!Does, Texts!Does
  <1>2. (Names!WriteId <=> Texts!WriteId) /\ (Names!ReadId <=> Texts!ReadId)
    BY <1>1, SameIds, Zenon DEF Names!WriteId, Texts!WriteId, Names!ReadId, Texts!ReadId
  <1>3. (Names!FindFolder <=> Texts!FindFolder) /\ (Names!FromModule <=> Texts!FromModule)
    BY <1>1, SameNameFolders, Zenon DEF Names!FindFolder, Texts!FindFolder, Names!FromModule, Texts!FromModule
  <1> QED BY <1>2, <1>3, Zenon DEF Names!Next, Texts!Next, Names!vars, Texts!vars

-----------------------------------------------------------------------------
(* NpmModules: by name alone it does not follow that what is found is      *)
(* right; OwnLinks says where the links of each package lead, in whatever  *)
(* order they are made, and RootsFirst why a root that is linked late has  *)
(* not lost its name to what another root depends on.                      *)

LinksShape ==
    /\ case \in Snapshots /\ todo \subseteq Modules!Packages
    /\ links = [d \in Modules!Packages \cup {Root} |-> links[d]]
    /\ queue \in Seq([pkg : Modules!Packages, top : BOOLEAN])

\* A package has its own link and, once step 3 has been at it, those of its dependencies.
OwnLinks ==
    \A p \in Modules!Packages :
        links[p] = IF p \in todo THEN Modules!LinkTo(p.name, p)
                   ELSE Modules!WithLinks(Modules!LinkTo(p.name, p), Modules!Deps(p))

\* What is at the top is called by its name, or by its name and version.
TopLinks ==
    /\ found \subseteq DOMAIN links[Root] /\ found \subseteq {q.name : q \in Modules!Packages}
    /\ todo # {} => found = {}
    /\ \A n \in DOMAIN links[Root] :
          /\ links[Root][n] \in Modules!Packages
          /\ n = links[Root][n].name \/ n = Modules!NameAndVersion(links[Root][n])

\* As long as a root is in the queue nothing but roots was before it, and names lead to roots.
RootsFirst ==
    \A i \in DOMAIN queue : queue[i].top =>
        /\ queue[i].pkg \in case.roots /\ \A j \in 1..i : queue[j].top
        /\ \A n \in found : links[Root][n] \in case.roots

\* In step 4 a root is in the queue, or is at the top and its name leads to one of the roots.
RootDone(r) == r.name \in found /\ links[Root][r.name] \in case.roots /\ Modules!AtTop(r)
Queued(r) == \E i \in DOMAIN queue : queue[i].pkg = r /\ queue[i].top
RootLinks == todo = {} => \A r \in case.roots : RootDone(r) \/ Queued(r)

LinksInv == LinksShape /\ OwnLinks /\ TopLinks /\ RootsFirst /\ RootLinks

LEMMA LinksInit ==
  ASSUME \A k \in Snapshots : Modules!SnapshotOK(k), Modules!Init
  PROVE  LinksInv
  <1>1. case \in Snapshots /\ Modules!SnapshotOK(case) /\ todo = Modules!Packages /\ queue = <<>> /\ found = {}
    BY DEF Modules!Init, Modules!Packages
  <1>2. LinksShape /\ OwnLinks
    BY <1>1 DEF LinksShape, OwnLinks, Modules!Init, Modules!Packages, Modules!SnapshotOK
  <1>3. links[Root] = <<>> /\ DOMAIN links[Root] = {}
    BY DEF Modules!Init
  <1>4. TopLinks /\ RootsFirst
    BY <1>1, <1>3 DEF TopLinks, RootsFirst
  <1>5. RootLinks
    BY <1>1 DEF RootLinks, Modules!Packages, Modules!SnapshotOK
  <1> QED BY <1>2, <1>4, <1>5 DEF LinksInv

LEMMA LinksDependencies ==
  ASSUME \A k \in Snapshots : Modules!SnapshotOK(k), LinksInv,
         NEW p \in Modules!Packages, Modules!LinkDependencies(p)
  PROVE  LinksInv'
  <1>1. Modules!SnapshotOK(case) /\ case' = case /\ Modules!Packages' = Modules!Packages
    BY DEF LinksInv, LinksShape, Modules!LinkDependencies, Modules!Packages
  <1>2. /\ p \in todo /\ todo' = todo \ {p} /\ found' = found
        /\ links' = [links EXCEPT ![p] = Modules!WithLinks(@, Modules!Deps(p))]
    BY DEF Modules!LinkDependencies, Modules!DepLinks
  <1>3. Root \notin Modules!Packages
    BY <1>1 DEF Modules!SnapshotOK, Modules!Packages
  <1>4. /\ links' = [d \in Modules!Packages \cup {Root} |-> links'[d]]
        /\ links'[p] = Modules!WithLinks(links[p], Modules!Deps(p))
        /\ \A d \in Modules!Packages \cup {Root} : d # p => links'[d] = links[d]
    BY <1>2 DEF LinksInv, LinksShape
  <1>5. OwnLinks'
    <2>1. links'[p] = Modules!WithLinks(Modules!LinkTo(p.name, p), Modules!Deps(p))
      BY <1>2, <1>4 DEF LinksInv, OwnLinks
    <2>2. \A q \in Modules!Packages : Modules!Deps(q)' = Modules!Deps(q)
      BY <1>1 DEF Modules!Deps
    <2>3. \A q \in Modules!Packages \ {p} : links'[q] = links[q] /\ (q \in todo' <=> q \in todo)
      BY <1>2, <1>4
    <2>4. \A q \in Modules!Packages :
             links'[q] = IF q \in todo' THEN Modules!LinkTo(q.name, q)
                         ELSE Modules!WithLinks(Modules!LinkTo(q.name, q), Modules!Deps(q))
      BY <1>2, <2>1, <2>3 DEF LinksInv, OwnLinks
    <2> QED BY <1>1, <2>2, <2>4 DEF OwnLinks
  <1>6. queue' \in Seq([pkg : Modules!Packages, top : BOOLEAN])
        /\ (todo' = {} => \A r \in case.roots : \E i \in DOMAIN queue' : queue'[i].pkg = r /\ queue'[i].top)
        /\ \A i \in DOMAIN queue' : queue'[i].top => queue'[i].pkg \in case.roots /\ \A j \in 1..i : queue'[j].top
    <2>1. CASE todo # {p} /\ UNCHANGED queue
      BY <1>2, <2>1 DEF LinksInv, LinksShape, RootsFirst
    <2>2. CASE \E o \in Modules!Orders(case.roots) : queue' = [i \in DOMAIN o |-> [pkg |-> o[i], top |-> TRUE]]
      <3>1. PICK o \in Modules!Orders(case.roots) : queue' = [i \in DOMAIN o |-> [pkg |-> o[i], top |-> TRUE]]
        BY <2>2
      <3>2. /\ o \in [1..Modules!Cardinality(case.roots) -> case.roots]
            /\ Modules!Range(o) = case.roots /\ case.roots \subseteq Modules!Packages
        BY <1>1 DEF Modules!Orders, Modules!SnapshotOK, Modules!Packages
      <3>3. IsFiniteSet(DOMAIN case.deps)
        BY <1>1 DEF Modules!SnapshotOK, Modules!IsFiniteSet, IsFiniteSet
      <3>4. Cardinality(case.roots) \in Nat
        BY <1>1, <3>3, FS_CardinalityType, FS_Subset DEF Modules!SnapshotOK
      <3>5. Modules!Cardinality(case.roots) = Cardinality(case.roots)
        BY DEF Modules!Cardinality, Cardinality
      <3>6. \A i \in DOMAIN o : /\ o[i] \in Modules!Packages /\ o[i] \in case.roots
                                /\ queue'[i] = [pkg |-> o[i], top |-> TRUE]
        BY <3>1, <3>2
      <3>7. DOMAIN queue' = 1..Cardinality(case.roots) /\ DOMAIN o = 1..Cardinality(case.roots)
        BY <3>1, <3>2, <3>5
      <3>8. queue' \in Seq([pkg : Modules!Packages, top : BOOLEAN])
        <4>1. queue' = [i \in 1..Cardinality(case.roots) |-> queue'[i]]
          BY <3>1, <3>7
        <4>2. \A i \in 1..Cardinality(case.roots) : queue'[i] \in [pkg : Modules!Packages, top : BOOLEAN]
          <5>1. \A q \in Modules!Packages : [pkg |-> q, top |-> TRUE] \in [pkg : Modules!Packages, top : BOOLEAN]
            OBVIOUS
          <5>2. \A i \in 1..Cardinality(case.roots) :
                   o[i] \in Modules!Packages /\ queue'[i] = [pkg |-> o[i], top |-> TRUE]
            BY <3>6, <3>7
          <5> QED BY <5>1, <5>2, ZenonT(60)
        <4>3. queue' \in [1..Cardinality(case.roots) -> [pkg : Modules!Packages, top : BOOLEAN]]
          BY <4>1, <4>2
        <4> QED BY <3>4, <4>3, SeqDef
      <3>9. \A r \in case.roots : \E i \in DOMAIN queue' : queue'[i].pkg = r /\ queue'[i].top
        <4>1. \A r \in case.roots : \E i \in DOMAIN o : o[i] = r
          BY <3>2 DEF Modules!Range
        <4> QED BY <3>6, <3>7, <4>1
      <3>10. \A i \in DOMAIN queue' : queue'[i].pkg \in case.roots /\ \A j \in 1..i : queue'[j].top
        <4>1. \A i \in DOMAIN queue' : queue'[i].pkg \in case.roots /\ queue'[i].top
          BY <3>6, <3>7
        <4>2. \A i \in DOMAIN queue' : 1..i \subseteq DOMAIN queue'
          BY <3>4, <3>7
        <4> QED BY <4>1, <4>2
      <3> QED BY <3>8, <3>9, <3>10
    <2> QED BY <2>1, <2>2 DEF Modules!LinkDependencies
  <1>7. LinksShape'
    <2>1. case' \in Snapshots /\ todo' \subseteq Modules!Packages'
      BY <1>1, <1>2 DEF LinksInv, LinksShape
    <2>2. links' = [d \in Modules!Packages' \cup {Root} |-> links'[d]]
      BY <1>1, <1>4
    <2> QED BY <1>1, <1>6, <2>1, <2>2 DEF LinksShape
  <1>8. TopLinks' /\ RootsFirst' /\ RootLinks'
    <2>1. links'[Root] = links[Root] /\ found = {} /\ found' = {}
      BY <1>2, <1>3, <1>4 DEF LinksInv, TopLinks
    <2>2. TopLinks'
      BY <1>1, <2>1 DEF LinksInv, TopLinks, Modules!NameAndVersion
    <2>3. RootsFirst'
      BY <1>1, <1>6, <2>1 DEF RootsFirst
    <2>4. RootLinks'
      BY <1>1, <1>6 DEF RootLinks, Queued
    <2> QED BY <2>2, <2>3, <2>4
  <1> QED BY <1>5, <1>7, <1>8 DEF LinksInv

LEMMA LinksTop ==
  ASSUME \A k \in Snapshots : Modules!SnapshotOK(k), LinksInv, Modules!LinkTop
  PROVE  LinksInv'
  <1> DEFINE p == Head(queue).pkg
  <1>1. /\ Modules!SnapshotOK(case) /\ case' = case /\ Modules!Packages' = Modules!Packages /\ todo' = todo
        /\ todo = {} /\ queue # <<>>
    BY DEF LinksInv, LinksShape, Modules!LinkTop, Modules!Packages
  <1>2. p \in Modules!Packages /\ Root \notin Modules!Packages
    <2> DEFINE R == [pkg : Modules!Packages, top : BOOLEAN]
    <2>1. Head(queue) \in R
      <3>1. queue \in Seq(R)
        BY DEF LinksInv, LinksShape
      <3> HIDE DEF R
      <3> QED BY <1>1, <3>1, HeadTailProperties
    <2> QED BY <1>1, <2>1 DEF Modules!SnapshotOK, Modules!Packages
  <1>3. \/ /\ links' = [links EXCEPT ![Root] = Modules!WithLinks(@, Modules!LinkTo(Modules!TopName(p), p))]
           /\ found' = found \cup {p.name}
           /\ p.name \notin found => Modules!TopName(p) = p.name
           /\ p.name \in found => Modules!TopName(p) = Modules!NameAndVersion(p) /\ Head(queue).top
           /\ \E o \in Modules!Orders(Modules!Range(Modules!Deps(p))) : queue' = Modules!Later(Tail(queue), o)
        \/ UNCHANGED <<links, found>> /\ p.name \in found /\ ~Head(queue).top /\ queue' = Tail(queue)
    BY DEF Modules!LinkTop, Modules!TopName
  <1>4. p.name \in found' /\ found \subseteq found'
    BY <1>3
  <1>5. \E more \in Seq([pkg : Modules!Packages, top : BOOLEAN]) :
           queue' = Tail(queue) \o more /\ \A i \in DOMAIN more : ~more[i].top
    <2>1. CASE queue' = Tail(queue)
      <3> DEFINE R == [pkg : Modules!Packages, top : BOOLEAN]
      <3>1. queue' \in Seq(R)
        BY <2>1, <1>1 DEF LinksInv, LinksShape
      <3>2. queue' = queue' \o <<>> /\ <<>> \in Seq(R) /\ DOMAIN <<>> = {}
        <4> HIDE DEF R
        <4> QED BY <3>1, ConcatEmptySeq, EmptySeq
      <3> QED BY <2>1, <3>2
    <2>2. CASE \E o \in Modules!Orders(Modules!Range(Modules!Deps(p))) : queue' = Modules!Later(Tail(queue), o)
      <3>1. PICK o \in Modules!Orders(Modules!Range(Modules!Deps(p))) : queue' = Modules!Later(Tail(queue), o)
        BY <2>2
      <3>2. Modules!Range(Modules!Deps(p)) \subseteq Modules!Packages
        BY <1>1, <1>2 DEF Modules!Range, Modules!Deps, Modules!Packages, Modules!SnapshotOK
      <3>3. IsFiniteSet(DOMAIN case.deps)
        BY <1>1 DEF Modules!SnapshotOK, Modules!IsFiniteSet, IsFiniteSet
      <3> DEFINE c == Cardinality(Modules!Range(Modules!Deps(p)))
                 more == [i \in DOMAIN o |-> [pkg |-> o[i], top |-> FALSE]]
      <3>4. c \in Nat
        BY <3>2, <3>3, FS_CardinalityType, FS_Subset DEF Modules!Packages
      <3>5. o \in [1..c -> Modules!Range(Modules!Deps(p))]
        <4>1. Modules!Cardinality(Modules!Range(Modules!Deps(p))) = c
          BY DEF Modules!Cardinality, Cardinality
        <4> QED BY <4>1 DEF Modules!Orders
      <3> HIDE DEF c
      <3>6. more \in Seq([pkg : Modules!Packages, top : BOOLEAN])
        <4>1. \A i \in 1..c : more[i] \in [pkg : Modules!Packages, top : BOOLEAN]
          BY <3>2, <3>5
        <4>2. more \in [1..c -> [pkg : Modules!Packages, top : BOOLEAN]]
          BY <3>5, <4>1
        <4> HIDE DEF more
        <4> QED BY <3>4, <4>2, SeqDef
      <3>7. queue' = Tail(queue) \o more /\ \A i \in DOMAIN more : ~more[i].top
        BY <3>1 DEF Modules!Later
      <3> QED BY <3>6, <3>7
    <2> QED BY <1>3, <2>1, <2>2
  <1>6. PICK more \in Seq([pkg : Modules!Packages, top : BOOLEAN]) :
           queue' = Tail(queue) \o more /\ \A i \in DOMAIN more : ~more[i].top
    BY <1>5
  <1>11. /\ queue \in Seq([pkg : Modules!Packages, top : BOOLEAN])
         /\ DOMAIN queue = 1..Len(queue) /\ Len(queue) \in Nat /\ 1 \in DOMAIN queue /\ Head(queue) = queue[1]
         /\ queue' \in Seq([pkg : Modules!Packages, top : BOOLEAN])
         /\ \A i \in DOMAIN queue' : queue'[i].top => i + 1 \in DOMAIN queue /\ queue'[i] = queue[i + 1]
         /\ \A i \in DOMAIN queue : i # 1 => i - 1 \in DOMAIN queue' /\ queue'[i - 1] = queue[i]
    <2> DEFINE R == [pkg : Modules!Packages, top : BOOLEAN]
    <2>1. queue \in Seq(R) /\ queue # <<>> /\ more \in Seq(R)
      BY <1>1, <1>6 DEF LinksInv, LinksShape
    <2> HIDE DEF R
    <2>2. /\ DOMAIN queue = 1..Len(queue) /\ Len(queue) \in Nat /\ 1 \in DOMAIN queue /\ Head(queue) = queue[1]
          /\ Tail(queue) \in Seq(R) /\ Len(Tail(queue)) = Len(queue) - 1
          /\ \A i \in 1..Len(queue) - 1 : Tail(queue)[i] = queue[i + 1]
      BY <2>1
    <2>3. /\ queue' \in Seq(R) /\ Len(queue') = Len(queue) - 1 + Len(more) /\ Len(more) \in Nat
          /\ \A i \in 1..Len(queue) - 1 : queue'[i] = queue[i + 1]
          /\ \A i \in Len(queue)..Len(queue') : queue'[i] = more[i - (Len(queue) - 1)]
      BY <1>6, <2>1, <2>2
    <2>4. ASSUME NEW i \in DOMAIN queue', queue'[i].top PROVE i + 1 \in DOMAIN queue /\ queue'[i] = queue[i + 1]
      <3>1. CASE i \in 1..Len(queue) - 1
        BY <2>2, <2>3, <3>1
      <3>2. CASE i \notin 1..Len(queue) - 1
        <4>1. i \in Len(queue)..Len(queue') /\ i - (Len(queue) - 1) \in DOMAIN more
          BY <2>1, <2>2, <2>3, <2>4, <3>2
        <4> QED BY <1>6, <2>3, <2>4, <4>1
      <3> QED BY <3>1, <3>2
    <2>5. \A i \in DOMAIN queue : i # 1 => i - 1 \in DOMAIN queue' /\ queue'[i - 1] = queue[i]
      BY <2>2, <2>3
    <2> QED BY <2>1, <2>2, <2>3, <2>4, <2>5 DEF R
  <1>7. /\ links' = [d \in Modules!Packages \cup {Root} |-> links'[d]]
        /\ \A d \in Modules!Packages : links'[d] = links[d]
    <2>1. CASE links' = [links EXCEPT ![Root] = Modules!WithLinks(@, Modules!LinkTo(Modules!TopName(p), p))]
      BY <1>2, <2>1 DEF LinksInv, LinksShape
    <2>2. CASE UNCHANGED <<links, found>>
      BY <2>2 DEF LinksInv, LinksShape
    <2> QED BY <1>3, <2>1, <2>2
  <1>8. LinksShape'
    <2>1. queue' \in Seq([pkg : Modules!Packages, top : BOOLEAN])
      BY <1>1, <1>6 DEF LinksInv, LinksShape
    <2> QED BY <1>1, <1>7, <2>1 DEF LinksInv, LinksShape
  <1>9. OwnLinks'
    <2>1. \A q \in Modules!Packages : Modules!Deps(q)' = Modules!Deps(q)
      BY <1>1 DEF Modules!Deps
    <2>2. \A q \in Modules!Packages :
             links'[q] = IF q \in todo' THEN Modules!LinkTo(q.name, q)
                         ELSE Modules!WithLinks(Modules!LinkTo(q.name, q), Modules!Deps(q))
      BY <1>1, <1>7 DEF LinksInv, OwnLinks
    <2> QED BY <1>1, <2>1, <2>2 DEF OwnLinks
  <1> DEFINE K == Modules!TopName(p)
             Links == links' = [links EXCEPT ![Root] = Modules!WithLinks(@, Modules!LinkTo(K, p))]
  <1>12. ASSUME Links
         PROVE  /\ DOMAIN links'[Root] = DOMAIN links[Root] \cup {K} /\ links'[Root][K] = p
                /\ \A n \in DOMAIN links[Root] : n # K => links'[Root][n] = links[Root][n]
    <2>1. links'[Root] = Modules!WithLinks(links[Root], Modules!LinkTo(K, p))
      BY <1>12 DEF LinksInv, LinksShape
    <2> QED BY <2>1 DEF Modules!WithLinks, Modules!LinkTo
  <1>13. \A q \in Modules!Packages :
            /\ Modules!NameAndVersion(q) # p.name /\ Modules!NameAndVersion(p) # q.name
            /\ Modules!NameAndVersion(p) = Modules!NameAndVersion(q) => p.name = q.name /\ p.version = q.version
    BY <1>1, <1>2 DEF Modules!SnapshotOK, Modules!Packages
  <1>14. \/ Links /\ found' = found \cup {p.name} /\ p.name \notin found /\ K = p.name
         \/ Links /\ found' = found /\ p.name \in found /\ K = Modules!NameAndVersion(p) /\ Head(queue).top
         \/ links' = links /\ found' = found /\ p.name \in found /\ ~Head(queue).top
    BY <1>3
  <1> HIDE DEF K, Links, p
  <1>16. \A n \in found : /\ n \in DOMAIN links[Root] /\ n \in DOMAIN links'[Root] /\ n \in found'
                          /\ links'[Root][n] = links[Root][n]
    <2>1. \A n \in found : n \in DOMAIN links[Root] /\ \E q \in Modules!Packages : n = q.name
      BY DEF LinksInv, TopLinks
    <2> QED BY <1>12, <1>13, <1>14, <2>1
  <1>17. TopLinks'
    <2>1. found' \subseteq DOMAIN links'[Root] /\ found' \subseteq {q.name : q \in Modules!Packages}
      BY <1>2, <1>12, <1>14, <1>16 DEF LinksInv, TopLinks
    <2>2. ASSUME NEW n \in DOMAIN links'[Root]
          PROVE  /\ links'[Root][n] \in Modules!Packages
                 /\ n = links'[Root][n].name \/ n = Modules!NameAndVersion(links'[Root][n])
      BY <1>2, <1>12, <1>14, <2>2 DEF LinksInv, TopLinks
    <2>3. \A q : Modules!NameAndVersion(q)' = Modules!NameAndVersion(q)
      BY DEF Modules!NameAndVersion
    <2> QED BY <1>1, <2>1, <2>2, <2>3 DEF TopLinks
  <1>18. RootsFirst'
    <2>1. ASSUME NEW i \in DOMAIN queue', queue'[i].top
          PROVE  /\ queue'[i].pkg \in case.roots /\ \A j \in 1..i : queue'[j].top
                 /\ \A n \in found' : links'[Root][n] \in case.roots
      <3>1. i + 1 \in DOMAIN queue /\ queue'[i] = queue[i + 1] /\ i \in Nat
        BY <1>11, <2>1
      <3>2. /\ queue[i + 1].pkg \in case.roots /\ \A j \in 1..i + 1 : queue[j].top
            /\ \A n \in found : links[Root][n] \in case.roots
        BY <2>1, <3>1 DEF LinksInv, RootsFirst
      <3>3. \A j \in 1..i : queue'[j].top
        <4>1. ASSUME NEW j \in 1..i PROVE queue'[j].top
          <5>1. j + 1 \in 1..i + 1 /\ j + 1 \in DOMAIN queue /\ j + 1 # 1 /\ (j + 1) - 1 = j
            BY <1>11, <3>1
          <5>2. queue'[j] = queue[j + 1]
            BY <1>11, <5>1
          <5> QED BY <3>2, <5>1, <5>2
        <4> QED BY <4>1
      <3>4. p \in case.roots
        <4>1. queue[1].top /\ 1 \in DOMAIN queue
          BY <1>11, <3>1, <3>2
        <4>2. queue[1].pkg \in case.roots
          BY <4>1 DEF LinksInv, RootsFirst
        <4> QED BY <1>11, <4>2 DEF p
      <3>5. \A n \in found' : links'[Root][n] \in case.roots
        BY <1>12, <1>14, <1>16, <3>2, <3>4
      <3> QED BY <3>1, <3>2, <3>3, <3>5
    <2> QED BY <1>1, <2>1 DEF RootsFirst
  <1>19. ASSUME NEW r \in case.roots, RootDone(r)
         PROVE  /\ r.name \in found' /\ links'[Root][r.name] \in case.roots
                /\ \E n \in {r.name, Modules!NameAndVersion(r)} \cap DOMAIN links'[Root] :
                      /\ links'[Root][n] \in case.roots
                      /\ links'[Root][n].name = r.name /\ links'[Root][n].version = r.version
    <2>1. r.name \in found' /\ links'[Root][r.name] \in case.roots
      BY <1>16, <1>19 DEF RootDone
    <2>2. PICK n \in {r.name, Modules!NameAndVersion(r)} \cap DOMAIN links[Root] :
                    /\ links[Root][n] \in case.roots
                    /\ links[Root][n].name = r.name /\ links[Root][n].version = r.version
      BY <1>19 DEF RootDone, Modules!AtTop
    <2>3. r \in Modules!Packages
      BY <1>1 DEF Modules!SnapshotOK, Modules!Packages
    <2>4. CASE links' = links \/ n # K
      BY <1>12, <1>14, <2>1, <2>2, <2>4
    <2>5. CASE links' # links /\ n = K
      <3>1. n # r.name
        BY <1>13, <1>14, <1>19, <2>3, <2>5 DEF RootDone
      <3>2. n = Modules!NameAndVersion(r) /\ K = Modules!NameAndVersion(p) /\ Head(queue).top
        BY <1>13, <1>14, <2>2, <2>3, <2>5, <3>1
      <3>3. p.name = r.name /\ p.version = r.version
        <4>1. Modules!NameAndVersion(p) = Modules!NameAndVersion(r)
          BY <2>5, <3>2
        <4> QED BY <1>13, <2>3, <4>1
      <3>4. p \in case.roots
        BY <1>11, <3>2 DEF p, LinksInv, RootsFirst
      <3> QED BY <1>12, <1>14, <2>1, <2>2, <2>5, <3>2, <3>3, <3>4
    <2> QED BY <2>4, <2>5
  <1>20. ASSUME Head(queue).top, p \in case.roots
         PROVE  /\ p.name \in found' /\ links'[Root][p.name] \in case.roots
                /\ \E n \in {p.name, Modules!NameAndVersion(p)} \cap DOMAIN links'[Root] :
                      /\ links'[Root][n] \in case.roots
                      /\ links'[Root][n].name = p.name /\ links'[Root][n].version = p.version
    <2>1. \A n \in found : links[Root][n] \in case.roots
      BY <1>11, <1>20 DEF LinksInv, RootsFirst
    <2> QED BY <1>12, <1>14, <1>16, <1>20, <2>1
  <1>21. RootLinks'
    <2>1. ASSUME NEW r \in case.roots
          PROVE  \/ /\ r.name \in found' /\ links'[Root][r.name] \in case.roots
                    /\ \E n \in {r.name, Modules!NameAndVersion(r)} \cap DOMAIN links'[Root] :
                          /\ links'[Root][n] \in case.roots
                          /\ links'[Root][n].name = r.name /\ links'[Root][n].version = r.version
                 \/ \E i \in DOMAIN queue' : queue'[i].pkg = r /\ queue'[i].top
      <3>1. CASE RootDone(r)
        BY <1>19, <3>1
      <3>2. CASE Queued(r)
        <4>1. PICK i \in DOMAIN queue : queue[i].pkg = r /\ queue[i].top
          BY <3>2 DEF Queued
        <4>2. CASE i = 1
          <5>1. r = p /\ Head(queue).top
            BY <1>11, <4>1, <4>2 DEF p
          <5> QED BY <1>20, <2>1, <5>1
        <4>3. CASE i # 1
          BY <1>11, <4>1, <4>3
        <4> QED BY <4>2, <4>3
      <3> QED BY <1>1, <3>1, <3>2 DEF LinksInv, RootLinks
    <2>2. \A r : Modules!NameAndVersion(r)' = Modules!NameAndVersion(r)
      BY DEF Modules!NameAndVersion
    <2> QED BY <1>1, <2>1, <2>2 DEF RootLinks, RootDone, Queued, Modules!AtTop
  <1> QED BY <1>8, <1>9, <1>17, <1>18, <1>21 DEF LinksInv

LEMMA LinksNext ==
  ASSUME \A k \in Snapshots : Modules!SnapshotOK(k), LinksInv, [Modules!Next]_Modules!vars
  PROVE  LinksInv'
  <1>1. CASE UNCHANGED Modules!vars
    <2>1. UNCHANGED <<case, links, todo, queue, found>>
      BY <1>1 DEF Modules!vars
    <2>2. Modules!Packages' = Modules!Packages /\ \A p \in Modules!Packages : Modules!Deps(p)' = Modules!Deps(p)
      BY <2>1 DEF Modules!Packages, Modules!Deps
    <2>3. LinksShape'
      BY <2>1, <2>2 DEF LinksInv, LinksShape
    <2>4. OwnLinks'
      BY <2>1, <2>2 DEF LinksInv, OwnLinks
    <2>5. TopLinks'
      BY <2>1, <2>2 DEF LinksInv, TopLinks, Modules!NameAndVersion
    <2>6. RootsFirst'
      BY <2>1 DEF LinksInv, RootsFirst
    <2>7. RootLinks'
      BY <2>1 DEF LinksInv, RootLinks, RootDone, Queued, Modules!AtTop, Modules!NameAndVersion
    <2> QED BY <2>3, <2>4, <2>5, <2>6, <2>7 DEF LinksInv
  <1> QED BY <1>1, LinksDependencies, LinksTop DEF Modules!Next

LEMMA LinksFind ==
  ASSUME \A k \in Snapshots : Modules!SnapshotOK(k), LinksInv
  PROVE  Modules!SameModules
  <1> SUFFICES ASSUME todo = {}, queue = <<>>
               PROVE  /\ \A p \in Modules!Packages :
                            \A n \in {q.name : q \in Modules!Packages} \cup DOMAIN Modules!Deps(p) :
                               IF n \in DOMAIN Modules!Deps(p) \cup {p.name}
                               THEN Modules!Local(p, n) = Modules!Global(p, n)
                               ELSE /\ Modules!Local(p, n) \subseteq Modules!Named(Modules!Packages, n)
                                    /\ Modules!Named(case.roots, n) # {} => Modules!Local(p, n) \cap case.roots # {}
                      /\ \A r \in case.roots : Modules!AtTop(r)
    BY DEF Modules!SameModules
  <1>1. Modules!SnapshotOK(case)
    BY DEF LinksInv, LinksShape
  <1>2. \A r \in case.roots : RootDone(r)
    BY DEF LinksInv, RootLinks, Queued
  <1>3. ASSUME NEW p \in Modules!Packages,
               NEW n \in {q.name : q \in Modules!Packages} \cup DOMAIN Modules!Deps(p)
        PROVE  IF n \in DOMAIN Modules!Deps(p) \cup {p.name}
               THEN Modules!Local(p, n) = Modules!Global(p, n)
               ELSE /\ Modules!Local(p, n) \subseteq Modules!Named(Modules!Packages, n)
                    /\ Modules!Named(case.roots, n) # {} => Modules!Local(p, n) \cap case.roots # {}
    <2>1. links[p] = Modules!WithLinks(Modules!LinkTo(p.name, p), Modules!Deps(p))
      BY DEF LinksInv, OwnLinks
    <2>2. /\ DOMAIN links[p] = {p.name} \cup DOMAIN Modules!Deps(p)
          /\ n \in DOMAIN Modules!Deps(p) => links[p][n] = Modules!Deps(p)[n]
          /\ n = p.name /\ n \notin DOMAIN Modules!Deps(p) => links[p][n] = p
      BY <2>1 DEF Modules!WithLinks, Modules!LinkTo
    <2>3. n \in DOMAIN Modules!Deps(p) \cup {p.name} => Modules!Local(p, n) = Modules!Global(p, n)
      BY <2>2 DEF Modules!Local, Modules!Global
    <2>4. CASE n \notin DOMAIN Modules!Deps(p) \cup {p.name}
      <3>1. Modules!Local(p, n) = IF n \in DOMAIN links[Root] THEN {links[Root][n]} ELSE {}
        BY <2>2, <2>4 DEF Modules!Local
      <3>2. ASSUME n \in DOMAIN links[Root] PROVE links[Root][n] \in Modules!Named(Modules!Packages, n)
        <4>1. links[Root][n] \in Modules!Packages /\ \E q \in Modules!Packages : n = q.name
          BY <2>4, <3>2 DEF LinksInv, TopLinks
        <4>2. n # Modules!NameAndVersion(links[Root][n])
          BY <1>1, <4>1 DEF Modules!SnapshotOK, Modules!Packages
        <4> QED BY <3>2, <4>1, <4>2 DEF LinksInv, TopLinks, Modules!Named
      <3>3. ASSUME NEW r \in case.roots, r.name = n
            PROVE  n \in DOMAIN links[Root] /\ links[Root][n] \in case.roots
        BY <1>2, <3>3 DEF RootDone, LinksInv, TopLinks
      <3> QED BY <2>4, <3>1, <3>2, <3>3 DEF Modules!Named
    <2> QED BY <2>3, <2>4
  <1> QED BY <1>2, <1>3 DEF RootDone

-----------------------------------------------------------------------------
(* Files: an entry of WalkDir is on the way to each file or link below the *)
(* top that is meant, until what it leads to is in the list (FoundOrOnWay);*)
(* and an entry lies in no directory that is left out (WalkShape).         *)

\* A set of numbers that has 0 and with a number the next one has them all.
LEMMA AllNumbers ==
  ASSUME NEW K, 0 \in K, \A k \in Nat : k \in K => k + 1 \in K
  PROVE  Nat \subseteq K
  <1> SUFFICES ASSUME NEW m \in Nat, m \notin K PROVE FALSE
    OBVIOUS
  <1> DEFINE Below(k) == 0..(k - 1)
             T == {Below(k) : k \in Nat \ K}
  <1>1. IsWellFoundedOn(StrictSubsetOrdering(Nat), FiniteSubsetsOf(Nat))
    BY FS_StrictSubsetOrderingWellFounded
  <1>2. T \subseteq FiniteSubsetsOf(Nat) /\ T # {}
    <2>1. \A k \in Nat : IsFiniteSet(Below(k)) /\ Below(k) \subseteq Nat
      BY FS_Interval
    <2> QED BY <2>1 DEF FiniteSubsetsOf
  <1>3. \E x \in T : \A y \in T : <<y, x>> \notin StrictSubsetOrdering(Nat)
    <2> HIDE DEF T
    <2> QED BY <1>1, <1>2, WFMin
  <1>4. PICK k \in Nat \ K : \A y \in T : <<y, Below(k)>> \notin StrictSubsetOrdering(Nat)
    BY <1>3
  <1>5. k # 0 /\ k - 1 \in Nat /\ k - 1 \notin K
    <2>1. k # 0
      OBVIOUS
    <2>2. k - 1 \in Nat /\ (k - 1) + 1 = k
      BY <2>1
    <2> QED BY <2>1, <2>2
  <1>6. Below(k - 1) \in T
    BY <1>5
  <1>7. <<Below(k - 1), Below(k)>> \in StrictSubsetOrdering(Nat)
    <2>1. Below(k - 1) \subseteq Below(k) /\ Below(k) \subseteq Nat
      BY <1>5
    <2>2. k - 1 \in Below(k) /\ k - 1 \notin Below(k - 1)
      BY <1>5
    <2> QED BY <2>1, <2>2 DEF StrictSubsetOrdering
  <1> QED BY <1>4, <1>6, <1>7

LEMMA Cut ==
  ASSUME NEW p \in Seq(STRING), NEW n \in 0..Len(p)
  PROVE  /\ SubSeq(p, 1, n) \in Seq(STRING) /\ Len(SubSeq(p, 1, n)) = n
         /\ \A i \in 1..n : SubSeq(p, 1, n)[i] = p[i]
  <1>1. \A i \in 1..n : p[i] \in STRING
    OBVIOUS
  <1> QED BY <1>1, SubSeqProperties

LEMMA SamePath ==
  ASSUME NEW p \in Seq(STRING), NEW q \in Seq(STRING), Len(p) = Len(q), \A i \in 1..Len(p) : p[i] = q[i]
  PROVE  p = q
  OBVIOUS

LEMMA StartsAt ==
  ASSUME NEW p \in Seq(STRING), NEW q \in Seq(STRING)
  PROVE  /\ Project!StartsWith(p, q) <=> Len(q) <= Len(p) /\ \A i \in 1..Len(q) : p[i] = q[i]
         /\ Project!StartsWith(p, q) <=> Len(q) <= Len(p) /\ q = SubSeq(p, 1, Len(q))
  <1>1. Project!StartsWith(p, q) <=> Len(q) <= Len(p) /\ SubSeq(q, 1, Len(q)) = SubSeq(p, 1, Len(q))
    BY DEF Project!StartsWith, Project!IsPrefix
  <1>2. SubSeq(q, 1, Len(q)) = q
    BY SubSeqFull
  <1>3. ASSUME Len(q) <= Len(p), \A i \in 1..Len(q) : p[i] = q[i] PROVE q = SubSeq(p, 1, Len(q))
    <2>1. Len(q) \in 0..Len(p)
      BY <1>3
    <2> QED BY <1>3, <2>1, Cut, SamePath
  <1>4. ASSUME Len(q) <= Len(p), q = SubSeq(p, 1, Len(q)) PROVE \A i \in 1..Len(q) : p[i] = q[i]
    <2>1. Len(q) \in 0..Len(p)
      BY <1>4
    <2> QED BY <1>4, <2>1, Cut
  <1> QED BY <1>1, <1>2, <1>3, <1>4

Along(p, f) == [i \in 0..Len(p) |-> IF i = 0 THEN <<>> ELSE Project!Enter(f[i - 1], p[i])]

LEMMA WayAlong ==
  ASSUME NEW p \in Seq(STRING)
  PROVE  \E f : f = Along(p, f) /\ Project!Canonical(p) = f[Len(p)]
  <1>1. \E f : f = Along(p, f)
    <2> DEFINE Way(k, f) == [i \in 0..k |-> IF i = 0 THEN <<>> ELSE Project!Enter(f[i - 1], p[i])]
               K == {k \in Nat : \E f : f = Way(k, f)}
    <2>1. 0 \in K
      <3>1. [i \in {0} |-> <<>>] = Way(0, [i \in {0} |-> <<>>])
        OBVIOUS
      <3> QED BY <3>1
    <2>2. ASSUME NEW k \in Nat, k \in K PROVE k + 1 \in K
      <3>1. PICK f : f = Way(k, f)
        BY <2>2
      <3> DEFINE g == [i \in 0..k + 1 |-> IF i <= k THEN f[i] ELSE Project!Enter(f[k], p[k + 1])]
      <3>2. \A i \in 0..k : g[i] = f[i] /\ f[i] = IF i = 0 THEN <<>> ELSE Project!Enter(f[i - 1], p[i])
        BY <3>1
      <3>3. ASSUME NEW i \in 0..k + 1 PROVE g[i] = IF i = 0 THEN <<>> ELSE Project!Enter(g[i - 1], p[i])
        <4>1. CASE i <= k
          <5>1. i # 0 => g[i - 1] = f[i - 1]
            BY <4>1
          <5> HIDE DEF g
          <5> QED BY <3>2, <4>1, <5>1
        <4>2. CASE i = k + 1
          <5>1. g[i - 1] = f[k] /\ g[i] = Project!Enter(f[k], p[k + 1])
            BY <4>2
          <5> HIDE DEF g
          <5> QED BY <4>2, <5>1
        <4> QED BY <4>1, <4>2
      <3>4. g = [i \in 0..k + 1 |-> g[i]]
        OBVIOUS
      <3> HIDE DEF g
      <3>5. g = Way(k + 1, g)
        BY <3>3, <3>4
      <3> QED BY <3>5
    <2>3. Len(p) \in K
      <3> HIDE DEF K
      <3> QED BY <2>1, <2>2, AllNumbers
    <2> QED BY <2>3 DEF Along
  <1> DEFINE h == CHOOSE f : f = Along(p, f)
  <1>2. h = Along(p, h)
    BY <1>1
  <1>3. Project!Canonical(p) = h[Len(p)]
    BY DEF Project!Canonical, Along
  <1> QED BY <1>2, <1>3

\* A path with no link on its way is canonical.
LEMMA Straight ==
  ASSUME NEW p \in Seq(STRING), \A n \in 1..Len(p) : SubSeq(p, 1, n) \notin Project!Links
  PROVE  Project!Canonical(p) = p
  <1>1. PICK f : f = Along(p, f) /\ Project!Canonical(p) = f[Len(p)]
    BY WayAlong
  <1> DEFINE K == {k \in Nat : k <= Len(p) => f[k] = SubSeq(p, 1, k)}
  <1>2. 0 \in K
    <2>1. f[0] = <<>>
      BY <1>1 DEF Along
    <2>2. SubSeq(p, 1, 0) = <<>>
      BY SubSeqEmpty
    <2> QED BY <2>1, <2>2
  <1>3. ASSUME NEW k \in Nat, k \in K PROVE k + 1 \in K
    <2> SUFFICES ASSUME k + 1 <= Len(p) PROVE f[k + 1] = SubSeq(p, 1, k + 1)
      OBVIOUS
    <2>1. f[k + 1] = Project!Enter(f[k], p[k + 1])
      BY <1>1 DEF Along
    <2>2. f[k] = SubSeq(p, 1, k)
      BY <1>3
    <2>3. Append(SubSeq(p, 1, k), p[k + 1]) = SubSeq(p, 1, k + 1)
      <3>1. k \in 0..Len(p) /\ k + 1 \in 0..Len(p)
        OBVIOUS
      <3>2. p[k + 1] \in STRING
        OBVIOUS
      <3> QED BY <3>1, <3>2, Cut, SamePath, AppendProperties
    <2>4. SubSeq(p, 1, k + 1) \notin Project!Links
      OBVIOUS
    <2> QED BY <2>1, <2>2, <2>3, <2>4 DEF Project!Enter
  <1>4. Len(p) \in K
    <2> HIDE DEF K
    <2> QED BY <1>2, <1>3, AllNumbers
  <1> QED BY <1>1, <1>4, SubSeqFull

\* Nothing that the case says changes.
LEMMA SameCase ==
  ASSUME case' = case
  PROVE  /\ Project!Dirs' = Project!Dirs /\ Project!Links' = Project!Links /\ Project!Include' = Project!Include
         /\ \A p : Project!Canonical(p)' = Project!Canonical(p)
         /\ Project!Given' = Project!Given /\ Project!Walked' = Project!Walked /\ Project!Meant' = Project!Meant
         /\ \A p, d : Project!InReach(p, d)' = Project!InReach(p, d)
         /\ \A p : Project!Exists(p)' = Project!Exists(p) /\ Project!IsIgnored(p)' = Project!IsIgnored(p)
  <1>1. Project!Dirs' = Project!Dirs /\ Project!Links' = Project!Links /\ Project!Include' = Project!Include
    BY DEF Project!Dirs, Project!Links, Project!Include
  <1>2. ASSUME NEW p PROVE Project!Canonical(p)' = Project!Canonical(p)
    BY DEF Project!Canonical, Project!Enter, Project!Links
  <1>3. \A p : Project!Exists(p)' = Project!Exists(p)
    BY <1>1, <1>2 DEF Project!Exists
  <1>4. Project!Ignored' = Project!Ignored
    BY <1>2, <1>3 DEF Project!Ignored
  <1>5. \A p : Project!IsIgnored(p)' = Project!IsIgnored(p)
    BY <1>4 DEF Project!IsIgnored, Project!StartsWith
  <1>6. Project!Given' = Project!Given /\ Project!Walked' = Project!Walked
    BY <1>1, <1>2 DEF Project!Given, Project!Walked
  <1>7. \A p, d : Project!InReach(p, d)' = Project!InReach(p, d)
    BY DEF Project!InReach, Project!StartsWith
  <1>8. Project!Meant' = Project!Meant
    BY <1>1, <1>2, <1>3, <1>5, <1>6, <1>7 DEF Project!Meant, Project!Name
  <1> QED BY <1>1, <1>2, <1>3, <1>5, <1>6, <1>7, <1>8

LEMMA Appended ==
  ASSUME NEW S, NEW s \in Seq(S), NEW e \in S
  PROVE  Project!Range(Append(s, e)) = Project!Range(s) \cup {e}
  <1>1. /\ DOMAIN s = 1..Len(s) /\ DOMAIN Append(s, e) = 1..Len(s) + 1
        /\ \A i \in 1..Len(s) : Append(s, e)[i] = s[i]
        /\ Append(s, e)[Len(s) + 1] = e
    BY AppendProperties
  <1> QED BY <1>1 DEF Project!Range

LEMMA FurtherUp ==
  ASSUME NEW p \in Seq(STRING), NEW q \in Seq(STRING), NEW r \in Seq(STRING),
         Project!StartsWith(p, q), Project!StartsWith(q, r)
  PROVE  Project!StartsWith(p, r)
  BY StartsAt

LEMMA NextDown ==
  ASSUME NEW p \in Seq(STRING), NEW q \in Seq(STRING), Project!StartsWith(p, q), p # q
  PROVE  /\ Len(q) < Len(p)
         /\ \E r \in Seq(STRING) : /\ r = SubSeq(p, 1, Len(q) + 1) /\ Len(r) = Len(q) + 1
                                   /\ Project!StartsWith(p, r) /\ Project!StartsWith(r, q)
                                   /\ r # <<>> /\ Project!Parent(r) = q
  <1>1. Len(q) <= Len(p) /\ \A i \in 1..Len(q) : p[i] = q[i]
    BY StartsAt
  <1>2. Len(q) < Len(p)
    BY <1>1, SamePath
  <1> DEFINE r == SubSeq(p, 1, Len(q) + 1)
  <1>3. r \in Seq(STRING) /\ Len(r) = Len(q) + 1 /\ \A i \in 1..Len(q) + 1 : r[i] = p[i]
    <2>1. Len(q) + 1 \in 0..Len(p)
      BY <1>2
    <2> QED BY <2>1, Cut
  <1> HIDE DEF r
  <1>4. Project!StartsWith(p, r) /\ Project!StartsWith(r, q)
    BY <1>1, <1>2, <1>3, StartsAt
  <1>5. Project!Parent(r) = q
    <2>1. Project!Parent(r) = SubSeq(r, 1, Len(q))
      BY <1>3 DEF Project!Parent, Project!Front
    <2> QED BY <1>4, <2>1, StartsAt, <1>3
  <1>6. r = SubSeq(p, 1, Len(q) + 1)
    BY DEF r
  <1>7. r # <<>>
    BY <1>3
  <1> QED BY <1>2, <1>3, <1>4, <1>5, <1>6, <1>7

CaseLike == \A k \in ProjectCases : Project!CaseOK(k)

LEMMA TreeFacts ==
  ASSUME CaseLike, case \in ProjectCases
  PROVE  /\ Project!Dirs \cup case.files \subseteq Seq(STRING)
         /\ <<>> \in Project!Dirs /\ Project!Dirs \cap case.files = {}
         /\ \A p \in Project!Dirs \cup case.files \cup Project!Links :
               \A n \in 0..Len(p) - 1 : SubSeq(p, 1, n) \in Project!Dirs
         /\ Project!Links \subseteq Seq(STRING)
         /\ \A p \in Project!Links : p \notin Project!Dirs \cup case.files
         /\ Project!Include \in Seq(Seq(STRING)) /\ case.exclude \subseteq Seq(STRING)
  <1>1. Project!CaseOK(case)
    BY DEF CaseLike
  <1>2. Project!Include \in Seq(Seq(STRING))
    <2> DEFINE R == Seq(STRING)
    <2>1. case.include \in Seq(R) /\ case.cwd \in R
      BY <1>1 DEF Project!CaseOK
    <2> HIDE DEF R
    <2>2. Project!Include \in Seq(R)
      BY <2>1 DEF Project!Include
    <2> QED BY <2>2 DEF R
  <1> QED BY <1>1, <1>2 DEF Project!CaseOK, Project!Dirs, Project!Links

\* The paths of the tree are canonical.
LEMMA Fixed ==
  ASSUME CaseLike, case \in ProjectCases, NEW p \in Project!Dirs \cup case.files
  PROVE  Project!Canonical(p) = p /\ Project!Exists(p)
  <1>1. ASSUME NEW n \in 1..Len(p) PROVE SubSeq(p, 1, n) \notin Project!Links
    <2>1. CASE n = Len(p)
      BY <2>1, SubSeqFull, TreeFacts
    <2>2. CASE n # Len(p)
      <3>1. n \in 0..Len(p) - 1
        BY <2>2, TreeFacts
      <3> QED BY <3>1, TreeFacts
    <2> QED BY <2>1, <2>2
  <1>2. Project!Canonical(p) = p
    BY <1>1, Straight, TreeFacts
  <1> QED BY <1>2 DEF Project!Exists

LEMMA NoLinks ==
  ASSUME Project!Links = {}, NEW p \in Seq(STRING)
  PROVE  Project!Canonical(p) = p
  BY Straight

LEMMA IgnoredBelow ==
  ASSUME CaseLike, case \in ProjectCases, NEW p \in Seq(STRING), NEW q \in Seq(STRING),
         Project!StartsWith(p, q), Project!IsIgnored(q)
  PROVE  Project!IsIgnored(p)
  <1>1. Project!Ignored \subseteq Seq(STRING)
    BY TreeFacts DEF Project!Ignored, Project!Exists
  <1> QED BY <1>1, FurtherUp DEF Project!IsIgnored

InTree(p) == p \in Project!Dirs \cup case.files
Leaves == case.files \cup Project!Links
Sought(f, d) ==
    /\ f \in Leaves /\ Wanted(Project!Name(f)) /\ Project!Exists(f)
    /\ ~Project!IsIgnored(f) /\ ~Project!IsIgnored(Project!Canonical(f)) /\ Project!InReach(f, d)
OnWay(f) == \E e \in entries : Project!StartsWith(f, e)

WalkShape ==
    /\ case \in ProjectCases /\ next \in 1..Len(Project!Include) + 1
    /\ prepared \in Seq(Seq(STRING))
    /\ entries \subseteq Project!Dirs \cup case.files \cup Project!Links
    /\ \A e \in entries : Project!InReach(e, top) /\ (e # top => ~Project!IsIgnored(Project!Parent(e)))
    /\ entries # {} => top \in Project!Dirs /\ top \in Project!Walked

\* What a directory of include has is in the list, or there is an entry still on the way to it.
FoundOrOnWay ==
    \A j \in 1..next - 1 : Project!Canonical(Project!Include[j]) \in Project!Dirs =>
        \A f \in Leaves : Sought(f, Project!Canonical(Project!Include[j])) =>
            \/ Project!Canonical(f) \in Project!Range(prepared)
            \/ top = Project!Canonical(Project!Include[j]) /\ OnWay(f)

\* Any other of include is in the list, and what is not was found by walking.
GivenTaken ==
    \A j \in 1..next - 1 : Project!Canonical(Project!Include[j]) \notin Project!Dirs =>
        Project!Include[j] \in Project!Range(prepared)
OnlyFound ==
    \A x \in Project!Range(prepared) \ Project!Given : \E e \in Project!Meant : x = Project!Canonical(e)

WalkInv == WalkShape /\ FoundOrOnWay /\ GivenTaken /\ OnlyFound

LEMMA WalkInit == ASSUME CaseLike, Project!Init PROVE WalkInv
  <1>1. case \in ProjectCases /\ next = 1 /\ entries = {} /\ prepared = <<>>
    BY DEF Project!Init
  <1>2. next \in 1..Len(Project!Include) + 1
    <2> DEFINE R == Seq(STRING)
    <2>1. Project!Include \in Seq(R)
      BY <1>1, TreeFacts
    <2> HIDE DEF R
    <2> QED BY <1>1, <2>1
  <1>3. prepared \in Seq(Seq(STRING)) /\ Project!Range(prepared) = {}
    <2> DEFINE R == Seq(STRING)
    <2>1. prepared \in Seq(R)
      <3> HIDE DEF R
      <3> QED BY <1>1
    <2> QED BY <1>1, <2>1 DEF Project!Range
  <1> QED BY <1>1, <1>2, <1>3 DEF WalkInv, WalkShape, FoundOrOnWay, GivenTaken, OnlyFound

LEMMA WalkInclude == ASSUME CaseLike, WalkInv, Project!NextInclude PROVE WalkInv'
  <1> DEFINE p == Project!Include[next]
  <1>1. /\ case' = case /\ entries = {} /\ next <= Len(Project!Include) /\ next' = next + 1
        /\ case \in ProjectCases /\ next \in 1..Len(Project!Include) + 1
        /\ prepared \in Seq(Seq(STRING))
    BY DEF Project!NextInclude, WalkInv, WalkShape
  <1>2. next \in 1..Len(Project!Include) /\ p \in Seq(STRING) /\ p \in Project!Range(Project!Include)
    <2> DEFINE R == Seq(STRING)
    <2>1. Project!Include \in Seq(R)
      BY <1>1, TreeFacts
    <2> HIDE DEF R
    <2>2. Len(Project!Include) \in Nat /\ DOMAIN Project!Include = 1..Len(Project!Include)
      BY <2>1
    <2>3. next \in 1..Len(Project!Include)
      BY <1>1, <2>2
    <2>4. p \in R
      BY <2>1, <2>3
    <2> QED BY <2>2, <2>3, <2>4 DEF R, Project!Range
  <1>3. /\ Project!Range(Append(prepared, p)) = Project!Range(prepared) \cup {p}
        /\ Append(prepared, p) \in Seq(Seq(STRING)) /\ next' \in 1..Len(Project!Include) + 1
    <2> DEFINE R == Seq(STRING)
    <2>1. prepared \in Seq(R) /\ p \in R
      BY <1>1, <1>2
    <2> HIDE DEF R
    <2>2. Project!Range(Append(prepared, p)) = Project!Range(prepared) \cup {p}
      BY <2>1, Appended
    <2>3. Append(prepared, p) \in Seq(R)
      BY <2>1, AppendProperties
    <2> QED BY <1>1, <1>2, <2>2, <2>3 DEF R
  <1>4. \/ /\ Project!Canonical(p) \in Project!Dirs /\ prepared' = prepared
           /\ top' = Project!Canonical(p) /\ entries' = {Project!Canonical(p)}
        \/ /\ Project!Canonical(p) \notin Project!Dirs /\ prepared' = Append(prepared, p)
           /\ top' = top /\ entries' = {}
    BY DEF Project!NextInclude
  <1>5. /\ prepared' \in Seq(Seq(STRING))
        /\ Project!Range(prepared') = Project!Range(prepared)
              \cup IF Project!Canonical(p) \in Project!Dirs THEN {} ELSE {p}
    BY <1>1, <1>3, <1>4
  <1>6. WalkShape'
    <2>1. ASSUME Project!Canonical(p) \in Project!Dirs
          PROVE  Project!StartsWith(Project!Canonical(p), Project!Canonical(p)) /\ Project!Canonical(p) \in Project!Walked
      <3>1. Project!Canonical(p) \in Seq(STRING)
        BY <1>1, <2>1, TreeFacts
      <3> QED BY <1>2, <2>1, <3>1, StartsAt DEF Project!Walked
    <2>2. /\ entries' \subseteq Project!Dirs \cup case.files \cup Project!Links
          /\ \A e \in entries' : e = top' /\ Project!StartsWith(e, top') /\ e \in Seq(STRING)
          /\ entries' # {} => top' \in Project!Dirs /\ top' \in Project!Walked
      BY <1>1, <1>4, <2>1, TreeFacts
    <2>3. ASSUME NEW e \in entries' PROVE Project!InReach(e, top')
      <3>1. Len(e) \in Nat /\ Len(top') + 1..Len(e) - 1 = {}
        BY <2>2
      <3> QED BY <2>2, <3>1 DEF Project!InReach
    <2>4. \A e \in entries' : (Project!InReach(e, top) /\ (e # top => ~Project!IsIgnored(Project!Parent(e))))'
      BY <2>2, <2>3 DEF Project!InReach, Project!StartsWith
    <2> QED BY <1>1, <1>3, <1>5, <2>2, <2>4, SameCase DEF WalkShape
  <1>7. FoundOrOnWay'
    <2>1. ASSUME NEW j \in 1..next' - 1, Project!Canonical(Project!Include[j]) \in Project!Dirs,
                 NEW f \in Leaves, Sought(f, Project!Canonical(Project!Include[j]))
          PROVE  \/ Project!Canonical(f) \in Project!Range(prepared')
                 \/ /\ top' = Project!Canonical(Project!Include[j])
                    /\ \E e \in entries' : Project!StartsWith(f, e)
      <3>1. CASE j = next
        <4>1. /\ entries' = {Project!Canonical(p)} /\ top' = Project!Canonical(p)
              /\ Project!StartsWith(f, Project!Canonical(p))
          BY <1>4, <2>1, <3>1 DEF Sought, Project!InReach
        <4> QED BY <3>1, <4>1
      <3>2. CASE j # next
        <4>1. j \in 1..next - 1
          BY <1>1, <1>2, <2>1, <3>2
        <4>2. Project!Canonical(f) \in Project!Range(prepared)
          BY <1>1, <2>1, <4>1 DEF WalkInv, FoundOrOnWay, OnWay
        <4> QED BY <1>5, <4>2
      <3> QED BY <3>1, <3>2
    <2>2. Leaves' = Leaves
      BY <1>1, SameCase DEF Leaves
    <2>3. \A f, d : Sought(f, d)' <=> Sought(f, d)
      BY <1>1, <2>2, SameCase DEF Sought, Project!Name
    <2> QED BY <1>1, <2>1, <2>2, <2>3, SameCase DEF FoundOrOnWay, OnWay, Project!Range, Project!StartsWith
  <1>8. GivenTaken'
    <2>1. ASSUME NEW j \in 1..next' - 1, Project!Canonical(Project!Include[j]) \notin Project!Dirs
          PROVE  Project!Include[j] \in Project!Range(prepared')
      <3>1. CASE j = next
        BY <1>5, <2>1, <3>1
      <3>2. CASE j # next
        <4>1. j \in 1..next - 1
          BY <1>1, <1>2, <2>1, <3>2
        <4> QED BY <1>5, <2>1, <4>1 DEF WalkInv, GivenTaken
      <3> QED BY <3>1, <3>2
    <2> QED BY <1>1, <2>1, SameCase DEF GivenTaken, Project!Range
  <1>9. OnlyFound'
    <2>1. ASSUME NEW f \in Project!Range(prepared'), f \notin Project!Given
          PROVE  f \in Project!Range(prepared) \ Project!Given
      BY <1>2, <1>5, <2>1 DEF Project!Given
    <2>2. \A f \in Project!Range(prepared') : f \notin Project!Given =>
             \E e \in Project!Meant : f = Project!Canonical(e)
      BY <2>1 DEF WalkInv, OnlyFound
    <2> QED BY <1>1, <2>2, SameCase DEF OnlyFound, Project!Range
  <1> QED BY <1>6, <1>7, <1>8, <1>9 DEF WalkInv

\* A file or link that is asked for is below no directory that is left out, but in one of its children.
LEMMA Descends ==
  ASSUME CaseLike, case \in ProjectCases, NEW e \in Project!Dirs, NEW f \in Leaves,
         top \in Project!Dirs, Sought(f, top), Project!StartsWith(f, e), Project!StartsWith(e, top)
  PROVE  /\ ~Project!IsIgnored(e) /\ ~Project!SkipsDir(e)
         /\ \E r \in Project!Children(e) : Project!StartsWith(f, r)
  <1>1. e \in Seq(STRING) /\ f \in Seq(STRING) /\ top \in Seq(STRING) /\ e # f
    BY TreeFacts DEF Leaves
  <1>2. Len(e) < Len(f)
    BY <1>1, NextDown
  <1>3. ~Project!IsIgnored(e)
    BY <1>1, IgnoredBelow DEF Sought
  <1>4. ~Project!SkipsDir(e)
    <2> SUFFICES ASSUME e # <<>>, Project!Name(e) \in Skipped, e # top PROVE FALSE
      BY DEF Project!SkipsDir
    <2>1. Len(top) < Len(e)
      BY <1>1, NextDown
    <2>2. f[Len(e)] = e[Len(e)]
      BY <1>1, <2>1, StartsAt
    <2>3. Len(e) \in Len(top) + 1..Len(f) - 1
      BY <1>1, <1>2, <2>1
    <2> QED BY <2>2, <2>3 DEF Sought, Project!InReach, Project!Name, Project!Last
  <1>5. PICK r \in Seq(STRING) : /\ r = SubSeq(f, 1, Len(e) + 1) /\ Len(r) = Len(e) + 1
                                 /\ Project!StartsWith(f, r) /\ Project!StartsWith(r, e)
                                 /\ r # <<>> /\ Project!Parent(r) = e
    BY <1>1, NextDown
  <1>6. InTree(r) \/ r = f
    <2>1. CASE Len(r) = Len(f)
      <3>1. r = f
        BY <1>1, <1>5, <2>1, SubSeqFull
      <3> QED BY <3>1
    <2>2. CASE Len(r) # Len(f)
      <3>1. Len(e) + 1 \in 0..Len(f) - 1
        BY <1>1, <1>2, <1>5, <2>2
      <3> QED BY <1>5, <3>1, TreeFacts DEF InTree, Leaves
    <2> QED BY <2>1, <2>2
  <1> QED BY <1>3, <1>4, <1>5, <1>6 DEF Project!Children, InTree, Leaves

\* What is in a directory that is descended into is in reach.
LEMMA Reaches ==
  ASSUME NEW e \in Seq(STRING), NEW r \in Seq(STRING), NEW t \in Seq(STRING), Project!InReach(e, t),
         e = <<>> \/ Project!Name(e) \notin Skipped \/ e = t, Project!StartsWith(r, e), Len(r) = Len(e) + 1
  PROVE  Project!InReach(r, t)
  <1>1. Project!StartsWith(e, t) /\ Project!StartsWith(r, t) /\ Len(t) <= Len(e)
    BY FurtherUp, StartsAt DEF Project!InReach
  <1>2. ASSUME NEW i \in Len(t) + 1..Len(r) - 1 PROVE r[i] \notin Skipped
    <2>1. i \in 1..Len(e) /\ r[i] = e[i]
      BY StartsAt
    <2>2. CASE i < Len(e)
      <3>1. i \in Len(t) + 1..Len(e) - 1
        BY <2>2
      <3> QED BY <2>1, <3>1 DEF Project!InReach
    <2>3. CASE i = Len(e)
      <3>1. e # t /\ e # <<>>
        BY <2>1, <2>3
      <3>2. e[Len(e)] \notin Skipped
        BY <3>1 DEF Project!Name, Project!Last
      <3> QED BY <2>1, <2>3, <3>2
    <2> QED BY <2>1, <2>2, <2>3
  <1> QED BY <1>1, <1>2 DEF Project!InReach

\* A file or link whose directory is not excluded and that does not lead to anything excluded
\* is not excluded.
LEMMA Allowed ==
  ASSUME CaseLike, case \in ProjectCases, NEW e \in Leaves, e # <<>>,
         ~Project!IsIgnored(Project!Parent(e)), ~Project!IsIgnored(Project!Canonical(e))
  PROVE  ~Project!IsIgnored(e)
  <1> SUFFICES ASSUME NEW i \in Project!Ignored, Project!StartsWith(e, i) PROVE FALSE
    BY DEF Project!IsIgnored
  <1>1. e \in Seq(STRING) /\ i \in Seq(STRING) /\ InTree(i)
    BY TreeFacts DEF Leaves, Project!Ignored, Project!Exists, InTree
  <1>2. e # i
    <2>1. CASE e \in case.files
      BY <2>1, Fixed DEF Project!IsIgnored
    <2>2. CASE e \in Project!Links
      BY <1>1, <2>2, TreeFacts DEF InTree
    <2> QED BY <2>1, <2>2 DEF Leaves
  <1>3. Len(i) < Len(e) /\ \A k \in 1..Len(i) : e[k] = i[k]
    BY <1>1, <1>2, NextDown, StartsAt
  <1>4. Project!Parent(e) = SubSeq(e, 1, Len(e) - 1) /\ Len(e) - 1 \in 0..Len(e)
    BY <1>1, <1>3 DEF Project!Parent, Project!Front
  <1>5. /\ Project!Parent(e) \in Seq(STRING) /\ Len(Project!Parent(e)) = Len(e) - 1
        /\ \A k \in 1..Len(e) - 1 : Project!Parent(e)[k] = e[k]
    BY <1>1, <1>4, Cut
  <1>6. Project!StartsWith(Project!Parent(e), i)
    BY <1>1, <1>3, <1>5, StartsAt
  <1> QED BY <1>6 DEF Project!IsIgnored

LEMMA WalkVisit == ASSUME CaseLike, WalkInv, NEW e \in entries, Project!Visit(e) PROVE WalkInv'
  <1> DEFINE c == Project!Canonical(e)
             Taken == e \notin Project!Dirs /\ Project!Exists(e) /\ ~Project!IsIgnored(c) /\ Wanted(Project!Name(e))
             Left == e \in Project!Dirs /\ ~Project!IsIgnored(c) /\ ~Project!SkipsDir(c)
  <1>1. /\ case' = case /\ next' = next /\ top' = top /\ case \in ProjectCases
        /\ top \in Project!Dirs /\ top \in Project!Walked /\ top \in Seq(STRING)
        /\ Project!InReach(e, top) /\ (e # top => ~Project!IsIgnored(Project!Parent(e)))
        /\ Project!StartsWith(e, top) /\ prepared \in Seq(Seq(STRING))
        /\ entries \subseteq Project!Dirs \cup case.files \cup Project!Links
    <2>1. /\ case' = case /\ next' = next /\ top' = top /\ case \in ProjectCases
          /\ top \in Project!Dirs /\ top \in Project!Walked
          /\ Project!InReach(e, top) /\ (e # top => ~Project!IsIgnored(Project!Parent(e)))
          /\ Project!StartsWith(e, top) /\ prepared \in Seq(Seq(STRING))
          /\ entries \subseteq Project!Dirs \cup case.files \cup Project!Links
      BY DEF Project!Visit, Project!InReach, WalkInv, WalkShape
    <2> QED BY <2>1, TreeFacts
  <1>2. /\ entries' = (entries \ {e}) \cup IF Left THEN Project!Children(e) ELSE {}
        /\ prepared' = IF Taken THEN Append(prepared, c) ELSE prepared
    BY DEF Project!Visit
  <1>3. /\ prepared' \in Seq(Seq(STRING))
        /\ Project!Range(prepared') = Project!Range(prepared) \cup IF Taken THEN {c} ELSE {}
    <2>1. CASE Taken
      <3> DEFINE R == Seq(STRING)
      <3>1. prepared \in Seq(R) /\ c \in R
        BY <1>1, <2>1, TreeFacts DEF Project!Exists
      <3> HIDE DEF R
      <3>2. Project!Range(Append(prepared, c)) = Project!Range(prepared) \cup {c}
        BY <3>1, Appended
      <3>3. Append(prepared, c) \in Seq(R)
        BY <3>1, AppendProperties
      <3>4. prepared' = Append(prepared, c)
        BY <1>2, <2>1
      <3> QED BY <2>1, <3>2, <3>3, <3>4 DEF R
    <2>2. CASE ~Taken
      <3>1. prepared' = prepared
        BY <1>2, <2>2
      <3> QED BY <1>1, <2>2, <3>1
    <2> QED BY <2>1, <2>2
  <1>4. /\ e \in Seq(STRING) /\ (InTree(e) => c = e)
        /\ c = Project!Canonical(e)
    BY <1>1, TreeFacts, Fixed DEF InTree
  <1>9. ASSUME Taken PROVE e \in Project!Meant
    <2>1. e \in Leaves /\ e # top
      BY <1>1, <1>9 DEF Leaves
    <2>2. e # <<>>
      BY <1>1, <1>9, TreeFacts
    <2> QED BY <1>1, <1>9, <2>1, <2>2, Allowed DEF Project!Meant, Leaves
  <1> HIDE DEF c, Left, Taken
  <1>5. WalkShape'
    <2>1. ASSUME Left, NEW r \in Project!Children(e)
          PROVE  /\ r \in Project!Dirs \cup case.files \cup Project!Links
                 /\ Project!InReach(r, top) /\ ~Project!IsIgnored(Project!Parent(r))
      <3>1. r \in Project!Dirs \cup case.files \cup Project!Links /\ r # <<>> /\ Project!Parent(r) = e
        BY DEF Project!Children
      <3>2. r \in Seq(STRING)
        BY <1>1, <3>1, TreeFacts
      <3>3. Project!StartsWith(r, e) /\ Len(r) = Len(e) + 1
        <4>1. e = SubSeq(r, 1, Len(r) - 1) /\ Len(r) - 1 \in 0..Len(r)
          BY <3>1, <3>2 DEF Project!Parent, Project!Front
        <4>2. Len(e) = Len(r) - 1
          BY <3>2, <4>1, Cut
        <4>3. Len(e) <= Len(r) /\ e = SubSeq(r, 1, Len(e))
          BY <3>2, <4>1, <4>2
        <4>4. Len(r) = Len(e) + 1
          BY <1>4, <3>2, <4>2
        <4> QED BY <1>4, <3>2, <4>3, <4>4, StartsAt
      <3>4. e = <<>> \/ Project!Name(e) \notin Skipped \/ e = top
        BY <1>4, <2>1 DEF Left, Project!SkipsDir, InTree
      <3>5. ~Project!IsIgnored(e)
        BY <1>4, <2>1 DEF Left, InTree
      <3> QED BY <1>1, <1>4, <3>1, <3>2, <3>3, <3>4, <3>5, Reaches
    <2>2. /\ entries' \subseteq Project!Dirs \cup case.files \cup Project!Links
          /\ \A r \in entries' : Project!InReach(r, top) /\ (r # top => ~Project!IsIgnored(Project!Parent(r)))
      BY <1>2, <2>1 DEF WalkInv, WalkShape
    <2>3. \A r \in entries' : (Project!InReach(r, top) /\ (r # top => ~Project!IsIgnored(Project!Parent(r))))'
      <3>1. \A r : Project!Parent(r)' = Project!Parent(r)
        BY DEF Project!Parent
      <3> QED BY <1>1, <2>2, <3>1, SameCase
    <2> QED BY <1>1, <1>3, <2>2, <2>3, SameCase DEF WalkShape, WalkInv
  <1>6. FoundOrOnWay'
    <2>1. ASSUME NEW j \in 1..next - 1, Project!Canonical(Project!Include[j]) \in Project!Dirs,
                 NEW f \in Leaves, Sought(f, Project!Canonical(Project!Include[j])),
                 Project!Canonical(f) \notin Project!Range(prepared')
          PROVE  /\ top = Project!Canonical(Project!Include[j])
                 /\ \E r \in entries' : Project!StartsWith(f, r)
      <3>1. Project!Canonical(f) \notin Project!Range(prepared) /\ (Taken => Project!Canonical(f) # c)
        BY <1>3, <2>1
      <3>2. top = Project!Canonical(Project!Include[j]) /\ OnWay(f)
        BY <2>1, <3>1 DEF WalkInv, FoundOrOnWay
      <3>3. PICK r \in entries : Project!StartsWith(f, r)
        BY <3>2 DEF OnWay
      <3>4. CASE r # e
        BY <1>2, <3>2, <3>3, <3>4
      <3>5. CASE r = e /\ e \in Project!Dirs
        <4>1. /\ ~Project!IsIgnored(e) /\ ~Project!SkipsDir(e)
              /\ \E q \in Project!Children(e) : Project!StartsWith(f, q)
          BY <1>1, <2>1, <3>2, <3>3, <3>5, Descends
        <4>2. Left
          BY <1>4, <3>5, <4>1 DEF Left, InTree
        <4> QED BY <1>2, <3>2, <4>1, <4>2
      <3>6. CASE r = e /\ e \notin Project!Dirs
        <4>1. f \in Seq(STRING)
          BY <1>1, TreeFacts DEF Leaves
        <4>2. e = f
          <5> SUFFICES ASSUME e # f PROVE FALSE
            OBVIOUS
          <5>1. Len(e) < Len(f)
            BY <1>4, <3>3, <3>6, <4>1, NextDown
          <5>2. e = SubSeq(f, 1, Len(e)) /\ Len(e) \in 0..Len(f) - 1
            BY <1>4, <3>3, <3>6, <4>1, <5>1, StartsAt
          <5>3. SubSeq(f, 1, Len(e)) \in Project!Dirs
            BY <1>1, <5>2, TreeFacts DEF Leaves
          <5> QED BY <3>6, <5>2, <5>3
        <4>3. Taken
          BY <1>4, <2>1, <3>6, <4>2 DEF Taken, Sought
        <4> QED BY <1>4, <3>1, <4>2, <4>3
      <3> QED BY <3>4, <3>5, <3>6
    <2>2. Leaves' = Leaves
      BY <1>1, SameCase DEF Leaves
    <2>3. \A f, d : Sought(f, d)' <=> Sought(f, d)
      BY <1>1, <2>2, SameCase DEF Sought, Project!Name
    <2> QED BY <1>1, <2>1, <2>2, <2>3, SameCase DEF FoundOrOnWay, OnWay, Project!Range, Project!StartsWith
  <1>7. GivenTaken'
    <2>1. Project!Range(prepared) \subseteq Project!Range(prepared')
      BY <1>3
    <2> QED BY <1>1, <2>1, SameCase DEF WalkInv, GivenTaken, Project!Range
  <1>8. OnlyFound'
    <2>1. \A f \in Project!Range(prepared') : f \notin Project!Given =>
             \E r \in Project!Meant : f = Project!Canonical(r)
      BY <1>3, <1>4, <1>9 DEF WalkInv, OnlyFound
    <2> QED BY <1>1, <2>1, SameCase DEF OnlyFound, Project!Range
  <1> QED BY <1>5, <1>6, <1>7, <1>8 DEF WalkInv

LEMMA WalkNext == ASSUME CaseLike, WalkInv, [Project!Next]_Project!vars PROVE WalkInv'
  <1>1. CASE UNCHANGED Project!vars
    <2>1. UNCHANGED <<case, next, top, entries, prepared>>
      BY <1>1 DEF Project!vars
    <2>2. WalkShape'
      <3>1. \A r : Project!Parent(r)' = Project!Parent(r)
        BY DEF Project!Parent
      <3> QED BY <2>1, <3>1, SameCase DEF WalkInv, WalkShape
    <2>3. FoundOrOnWay'
      <3>1. Leaves' = Leaves
        BY <2>1, SameCase DEF Leaves
      <3>2. \A f, d : Sought(f, d)' <=> Sought(f, d)
        BY <2>1, <3>1, SameCase DEF Sought, Project!Name
      <3> QED BY <2>1, <3>1, <3>2, SameCase DEF WalkInv, FoundOrOnWay, OnWay, Project!Range, Project!StartsWith
    <2>4. GivenTaken'
      BY <2>1, SameCase DEF WalkInv, GivenTaken, Project!Range
    <2>5. OnlyFound'
      BY <2>1, SameCase DEF WalkInv, OnlyFound, Project!Range
    <2> QED BY <2>2, <2>3, <2>4, <2>5 DEF WalkInv
  <1> QED BY <1>1, WalkInclude, WalkVisit DEF Project!Next

\* Where the walk has ended, the list is what the configuration says.
LEMMA Listed ==
  ASSUME CaseLike, WalkInv, Project!Done
  PROVE  /\ \A e \in Project!Meant : Project!Canonical(e) \in Project!Range(prepared)
         /\ Project!Given \subseteq Project!Range(prepared)
  <1>1. entries = {} /\ next = Len(Project!Include) + 1 /\ DOMAIN Project!Include = 1..Len(Project!Include)
    <2> DEFINE R == Seq(STRING)
    <2>1. Project!Include \in Seq(R)
      BY TreeFacts DEF WalkInv, WalkShape
    <2> HIDE DEF R
    <2>2. Len(Project!Include) \in Nat /\ DOMAIN Project!Include = 1..Len(Project!Include)
      BY <2>1
    <2> QED BY <2>2 DEF Project!Done, WalkInv, WalkShape
  <1>2. ASSUME NEW x \in Project!Range(Project!Include) PROVE \E j \in 1..next - 1 : Project!Include[j] = x
    <2>1. PICK j \in DOMAIN Project!Include : Project!Include[j] = x
      BY <1>2 DEF Project!Range
    <2>2. next - 1 = Len(Project!Include)
      BY <1>1, TreeFacts DEF WalkInv, WalkShape
    <2> QED BY <1>1, <2>1, <2>2
  <1>3. ASSUME NEW e \in Project!Meant PROVE Project!Canonical(e) \in Project!Range(prepared)
    <2>1. PICK d \in Project!Walked : e \in Leaves /\ Sought(e, d)
      BY <1>3 DEF Project!Meant, Sought, Leaves
    <2>2. PICK j \in 1..next - 1 : d = Project!Canonical(Project!Include[j]) /\ d \in Project!Dirs
      BY <1>2 DEF Project!Walked
    <2> QED BY <1>1, <2>1, <2>2 DEF WalkInv, FoundOrOnWay, OnWay
  <1>4. ASSUME NEW x \in Project!Given PROVE x \in Project!Range(prepared)
    <2>1. PICK j \in 1..next - 1 : x = Project!Include[j] /\ Project!Canonical(x) \notin Project!Dirs
      BY <1>2 DEF Project!Given
    <2> QED BY <2>1 DEF WalkInv, GivenTaken
  <1> QED BY <1>3, <1>4

LEMMA WalkFinds == ASSUME CaseLike, WalkInv PROVE Project!Collected /\ Project!Agree
  <1>0. case \in ProjectCases /\ case.files \subseteq Seq(STRING)
    BY TreeFacts DEF WalkInv, WalkShape
  <1>1. Project!Collected
    BY Listed DEF Project!Collected, WalkInv, OnlyFound
  <1>2. Project!Agree
    <2> SUFFICES ASSUME Project!Done, Project!Links = {}, NEW f \in case.files, f \notin Project!Given
                 PROVE  f \in Project!Range(prepared) <=>
                            /\ Project!MatchesSpecifier(f) /\ Wanted(Project!Name(f))
                            /\ \E i \in Project!Range(Project!Include) : Project!InReach(f, i)
      BY DEF Project!Agree
    <2>1. f \in Seq(STRING) /\ \A x \in Seq(STRING) : Project!Canonical(x) = x
      BY <1>0, NoLinks
    <2>2. /\ Project!Range(Project!Include) \subseteq Seq(STRING)
          /\ case.include # <<>> => Project!Range(Project!Include) = Project!Range(case.include)
      <3> DEFINE R == Seq(STRING)
      <3>1. Project!Include \in Seq(R)
        BY <1>0, TreeFacts
      <3> HIDE DEF R
      <3>2. Project!Range(Project!Include) \subseteq R
        BY <3>1 DEF Project!Range
      <3> QED BY <3>2 DEF R, Project!Include
    <2>3. ASSUME NEW x \in Seq(STRING), Project!StartsWith(f, x) PROVE InTree(x)
      <3>1. CASE x = f
        BY <3>1 DEF InTree
      <3>2. CASE x # f
        <4>1. Len(x) < Len(f) /\ x = SubSeq(f, 1, Len(x))
          BY <2>1, <2>3, <3>2, NextDown, StartsAt
        <4>2. Len(x) \in 0..Len(f) - 1
          BY <2>1, <4>1
        <4> QED BY <1>0, <4>1, <4>2, TreeFacts DEF InTree
      <3> QED BY <3>1, <3>2
    <2>4. Project!IsIgnored(f) <=> \E x \in case.exclude : Project!StartsWith(f, x)
      <3>1. case.exclude \subseteq Seq(STRING)
        BY <1>0, TreeFacts
      <3>2. Project!Ignored = {x \in case.exclude : InTree(x)}
        BY <2>1, <3>1 DEF Project!Ignored, Project!Exists, InTree
      <3> QED BY <2>3, <3>1, <3>2 DEF Project!IsIgnored
    <2>5. f \in Project!Range(prepared) <=> f \in Project!Meant
      <3>1. ASSUME NEW e \in Project!Meant PROVE Project!Canonical(e) = e
        BY <1>0, <2>1, <3>1 DEF Project!Meant
      <3> QED BY <1>1, <2>1, <3>1 DEF Project!Collected
    <2>6. (\E d \in Project!Walked : Project!InReach(f, d))
             <=> \E i \in Project!Range(Project!Include) : Project!InReach(f, i)
      <3>1. ASSUME NEW i \in Project!Range(Project!Include), Project!InReach(f, i)
            PROVE  i \in Project!Walked
        <4>1. i \in Seq(STRING) /\ InTree(i) /\ Project!Canonical(i) = i /\ Project!StartsWith(f, i)
          BY <2>1, <2>2, <2>3, <3>1 DEF Project!InReach
        <4>2. i \in Project!Dirs
          <5>1. i # f
            BY <1>0, <4>1, <3>1, TreeFacts DEF Project!Given
          <5>2. Len(i) < Len(f) /\ i = SubSeq(f, 1, Len(i))
            BY <2>1, <4>1, <5>1, NextDown, StartsAt
          <5>3. Len(i) \in 0..Len(f) - 1
            BY <2>1, <4>1, <5>2
          <5> QED BY <1>0, <5>2, <5>3, TreeFacts
        <4> QED BY <3>1, <4>1, <4>2 DEF Project!Walked
      <3>2. ASSUME NEW d \in Project!Walked PROVE d \in Project!Range(Project!Include)
        BY <2>1, <2>2 DEF Project!Walked
      <3> QED BY <3>1, <3>2
    <2>7. (\E i \in Project!Range(Project!Include) : Project!InReach(f, i))
             => case.include = <<>> \/ \E i \in Project!Range(case.include) : Project!StartsWith(f, i)
      BY <2>2 DEF Project!InReach
    <2>8. f \in Project!Meant <=> /\ \E d \in Project!Walked : Project!InReach(f, d)
                                   /\ Wanted(Project!Name(f)) /\ ~Project!IsIgnored(f)
      BY <1>0, <2>1, Fixed DEF Project!Meant
    <2> QED BY <2>4, <2>5, <2>6, <2>7, <2>8 DEF Project!MatchesSpecifier
  <1> QED BY <1>1, <1>2

-----------------------------------------------------------------------------
(* NodeResolve: Got are the files that were analysed.  The order in which  *)
(* they were does not matter: all that they reexport is handled or in the  *)
(* queue (NothingForgotten), and they are in every set of files that has   *)
(* what its files reexport (NothingElse).                                  *)

NodeLike == \A k \in NodeCases : Node!CaseOK(k)

NodeFiles == case.world.files
Translating == case.job = "translate"
Requested(f) == Node!Range(Node!Analysis(f).reexports)

\* The files that the requests in h mean, and the one to translate
GotBy(h) ==
    {f \in NodeFiles : f = case.file \/
        \E p \in NodeFiles, r \in h : Node!Analysis(p).ok /\ r \in Requested(p) /\ Node!Resolve(r, p) = Node!At(f)}
Got == GotBy(handled)

\* A set of files that has what its files reexport
Closed(S) ==
    case.file \in S /\ \A p \in S : \A r \in Requested(p) : \A f \in NodeFiles : Node!Resolve(r, p) = Node!At(f) => f \in S

NodeShape ==
    /\ queue \in Seq([request : UNION {Requested(p) : p \in Got}, referrer : Got])
    /\ \A i \in DOMAIN queue : queue[i].request \in Requested(queue[i].referrer)

\* All that a file reexports is handled, or in the queue.
NothingForgotten ==
    \A f \in Got : Node!Analysis(f).ok /\ \A r \in Requested(f) : r \in handled \/ \E i \in DOMAIN queue : queue[i].request = r
HandledFound ==
    \A r \in handled : \E p \in Got, f \in NodeFiles : r \in Requested(p) /\ Node!Resolve(r, p) = Node!At(f)
NothingElse == \A S \in SUBSET NodeFiles : Closed(S) => Got \subseteq S
ExportsOfGot ==
    \A n : n # Node!Default => (n \in exports <=> \E f \in Got : n \in Node!Analysis(f).exports)

\* What is declared so far: exports, each once, under its name or under one of the first numbers
\* that no other has
Declaration(d) ==
    \/ ~Node!NeedsTemporary(d.as) /\ d = Node!Constant(d.as)
    \/ Node!NeedsTemporary(d.as) /\ \E n \in 1..count : d = Node!Renamed(d.as, n)
Declarations ==
    /\ count \in Nat
    /\ \A d \in code : Declaration(d) /\ d.as \in exports \ {Node!Default}
    /\ \A d, e \in code : d.as = e.as => d = e
    /\ \A d, e \in code : Node!NeedsTemporary(d.as) /\ Node!NeedsTemporary(e.as) /\ d.id = e.id => d = e

NodeInv ==
    /\ case \in NodeCases
    /\ pc = "start" => queue = <<>> /\ handled = {} /\ exports = {} /\ count = 0
    /\ pc = "reexports" => Translating
    /\ ~Translating => Node!ResolutionSound
    /\ Translating /\ pc \notin {"reexports", "done"} => code = {}
    /\ Translating /\ pc \in {"reexports", "done"} =>
           NodeShape /\ NothingForgotten /\ HandledFound /\ NothingElse /\ ExportsOfGot /\ Declarations
    /\ pc = "reexports" /\ queue # <<>> => code = {} /\ count = 0
    /\ Translating /\ pc = "done" => queue = <<>> /\ Node!Left = {}

\* What is said of the world does not change.
LEMMA SameWorld ==
  ASSUME case' = case
  PROVE  /\ Translating' = Translating /\ NodeFiles' = NodeFiles
         /\ \A f : Node!Analysis(f)' = Node!Analysis(f) /\ Requested(f)' = Requested(f)
         /\ \A r, f : Node!Resolve(r, f)' = Node!Resolve(r, f)
         /\ \A h : GotBy(h)' = GotBy(h)
         /\ \A S : Closed(S)' = Closed(S)
         /\ \A n : Node!NeedsTemporary(n)' = Node!NeedsTemporary(n)
  <1>1. Translating' = Translating /\ NodeFiles' = NodeFiles /\ Node!World' = Node!World
    BY DEF Translating, NodeFiles, Node!World
  <1>2. ASSUME NEW f PROVE Node!Analysis(f)' = Node!Analysis(f)
    BY <1>1 DEF Node!Analysis
  <1>3. ASSUME NEW f PROVE Requested(f)' = Requested(f)
    BY <1>2 DEF Requested, Node!Range
  <1>5. ASSUME NEW r, NEW f PROVE Node!Resolve(r, f)' = Node!Resolve(r, f)
    BY <1>1 DEF Node!Resolve, Node!Probe, Node!IsFile, Node!IsDir, Node!DirAt, Node!Known, Node!Folder, Node!HasJson, Node!NoJson,
        Node!Json, Node!FromExports, Node!MainOf, Node!Single, Node!Join, Node!Path, Node!Index, Node!WithJs, Node!At,
        Node!Error, Node!Panic, Node!None
  <1>6. ASSUME NEW h PROVE GotBy(h)' = GotBy(h)
    BY <1>1, <1>2, <1>3, <1>5 DEF GotBy, Node!At
  <1>7. ASSUME NEW S PROVE Closed(S)' = Closed(S)
    BY <1>1, <1>3, <1>5 DEF Closed, Node!At
  <1>8. ASSUME NEW n PROVE Node!NeedsTemporary(n)' = Node!NeedsTemporary(n)
    BY <1>1 DEF Node!NeedsTemporary, Node!Reserved
  <1> QED BY <1>1, <1>2, <1>3, <1>5, <1>6, <1>7, <1>8

\* A reexport is resolved to a path, or not at all.
LEMMA ResolveForms ==
  ASSUME NEW r, NEW p, Node!Resolve(r, p) # Node!Panic, Node!Resolve(r, p) # Node!Error
  PROVE  \E f : Node!Resolve(r, p) = Node!At(f)
  <1>1. ASSUME NEW q PROVE Node!Probe(q) = Node!Error \/ \E f : Node!Probe(q) = Node!At(f)
    BY DEF Node!Probe
  <1>2. ASSUME NEW k PROVE \E f : Node!MainOf(k) = Node!At(f)
    BY DEF Node!MainOf
  <1>3. ASSUME NEW k, NEW s PROVE Node!FromExports(k, s) = Node!Error \/ \E f : Node!FromExports(k, s) = Node!At(f)
    BY DEF Node!FromExports
  <1> QED BY <1>1, <1>2, <1>3 DEF Node!Resolve

LEMMA PathOf == \A f : Node!At(f).kind = "path" /\ Node!At(f).path = f
  BY DEF Node!At

\* What files mean by one request is one file.
LEMMA Agree ==
  ASSUME NodeLike, case \in NodeCases, Translating, NEW p \in NodeFiles, NEW q \in NodeFiles,
         Node!Analysis(p).ok, Node!Analysis(q).ok, NEW r, r \in Requested(p), r \in Requested(q)
  PROVE  Node!Resolve(r, p) = Node!Resolve(r, q)
  <1>1. ASSUME NEW f, f.ext = <<"json">> PROVE Requested(f) = {}
    BY <1>1 DEF Requested, Node!Analysis, Node!Range
  <1>2. p.ext # <<"json">> /\ q.ext # <<"json">>
    BY <1>1
  <1>3. Node!CaseOK(case)
    BY DEF NodeLike
  <1>4. r.kind = "relative" => p.dir = q.dir
    BY <1>2, <1>3 DEF Node!CaseOK, Translating, NodeFiles, Requested, Node!Analysis, Node!World
  <1>5. r.kind = "relative" => Node!Join(r, p) = Node!Join(r, q)
    BY <1>4 DEF Node!Join
  <1> QED BY <1>5 DEF Node!Resolve

\* What an analysis finds
LEMMA Analyses ==
  ASSUME NodeLike, case \in NodeCases, Translating, NEW f \in NodeFiles, Node!Analysis(f).ok
  PROVE  Node!Analysis(f).reexports \in Seq(Requested(f))
  <1>1. Node!CaseOK(case)
    BY DEF NodeLike
  <1>2. CASE f.ext = <<"json">>
    BY <1>2 DEF Node!Analysis
  <1>3. CASE f.ext # <<"json">>
    <2>1. /\ Node!Analysis(f) = case.world.modules[f] /\ Requested(f) = Node!Range(case.world.modules[f].reexports)
          /\ case.world.modules[f].ok
      BY <1>3 DEF Node!Analysis, Node!World, Requested
    <2>2. case.world.modules[f].reexports \in Seq(Node!Range(case.world.modules[f].reexports))
      BY <1>1, <1>3, <2>1 DEF Node!CaseOK, Translating, NodeFiles
    <2> QED BY <2>1, <2>2
  <1> QED BY <1>2, <1>3

\* A resolution says what is loaded, as far as it names a file.
Declares == Node!Declares(case.spec)
Sound(r) ==
    case.referrer.dir # Node!Data /\ r.kind \in {"esm", "cjs"} /\ "path" \in DOMAIN r =>
        /\ Node!IsFile(r.path) \/ (case.job # "import" /\ Declares)
        /\ case.job # "bin" /\ case.types => r.path.ext = <<"d", "ts">>

Nowhere(r) == r = Node!Error \/ r = Node!Nothing
Somewhere(r) == \E f : r = Node!At(f)

LEMMA KindsOf ==
  /\ Node!Error.kind = "error" /\ Node!Nothing.kind = "nothing"
  /\ \A f : Node!At(f) = [kind |-> "path", path |-> f]
  /\ \A f : Node!KindOf(f) \in {"esm", "cjs", "error"}
  /\ \A f : Node!Resolved(f) = Node!Error
            \/ (Node!KindOf(f) \in {"esm", "cjs"} /\ Node!Resolved(f) = [kind |-> Node!KindOf(f), path |-> f])
  <1>1. ASSUME NEW f PROVE Node!KindOf(f) \in {"esm", "cjs", "error"}
    BY DEF Node!KindOf
  <1> QED BY <1>1 DEF Node!Error, Node!Nothing, Node!At, Node!Resolved

\* What a package is looked up for; the main module that is found is there.
LEMMA PackagesResolve ==
  ASSUME NEW spec
  PROVE  /\ Nowhere(Node!PackageResolve(spec)) \/ Somewhere(Node!PackageResolve(spec))
         /\ \A types : \/ Nowhere(Node!ConfigResolve(spec, types))
                       \/ \E f : Node!ConfigResolve(spec, types) = Node!At(f) /\ (Node!IsFile(f) \/ Node!Declares(spec))
  <1>1. ASSUME NEW k PROVE Nowhere(Node!LegacyMain(k)) \/ \E f : Node!LegacyMain(k) = Node!At(f) /\ Node!IsFile(f)
    BY DEF Node!LegacyMain, Nowhere
  <1>2. ASSUME NEW k, NEW s PROVE Nowhere(Node!FromExports(k, s)) \/ Somewhere(Node!FromExports(k, s))
    BY DEF Node!FromExports, Nowhere, Somewhere
  <1>3. ASSUME NEW f PROVE Somewhere(Node!At(f))
    BY DEF Somewhere
  <1>4. Nowhere(Node!Error)
    BY DEF Nowhere
  <1>5. Nowhere(Node!PackageResolve(spec)) \/ Somewhere(Node!PackageResolve(spec))
    BY <1>1, <1>2, <1>3, <1>4 DEF Node!PackageResolve, Somewhere
  <1>6. ASSUME NEW types
        PROVE  \/ Nowhere(Node!ConfigResolve(spec, types))
               \/ \E f : Node!ConfigResolve(spec, types) = Node!At(f) /\ (Node!IsFile(f) \/ Node!Declares(spec))
    <2>1. CASE Node!Json(Node!Folder(spec)).exports # <<>>
      BY <1>1, <1>2, <2>1 DEF Node!ConfigResolve, Node!Declares, Somewhere
    <2>2. CASE Node!Json(Node!Folder(spec)).exports = <<>> /\ spec.sub = Node!None
      BY <1>1, <2>2 DEF Node!ConfigResolve
    <2>3. CASE Node!Json(Node!Folder(spec)).exports = <<>> /\ spec.sub # Node!None
      BY <2>3 DEF Node!ConfigResolve, Node!Declares
    <2> QED BY <2>1, <2>2, <2>3
  <1> QED BY <1>5, <1>6

LEMMA DeclarationOf ==
  ASSUME NEW f
  PROVE  \/ Nowhere(Node!Declaration(f))
         \/ \E d : Node!Declaration(f) = Node!At(d) /\ (d = f \/ Node!IsFile(d)) /\ d.ext = <<"d", "ts">>
  BY DEF Node!Declaration, Node!Path, Nowhere

\* What is finished is what was found, or a declaration that is there.
Finishes(r, types, f) ==
    /\ Node!KindOf(f) \in {"esm", "cjs"} /\ Node!Unfinished(r, types) = [kind |-> Node!KindOf(f), path |-> f]
    /\ r = Node!At(f) \/ Node!IsFile(f)
    /\ types => f.ext = <<"d", "ts">>

LEMMA Finished ==
  ASSUME NEW r, NEW types, Nowhere(r) \/ Somewhere(r)
  PROVE  Nowhere(Node!Unfinished(r, types)) \/ \E f : Finishes(r, types, f)
  <1>1. CASE Nowhere(r)
    BY <1>1, KindsOf DEF Nowhere, Node!Unfinished, Node!ForTypes
  <1>2. ASSUME NEW f, r = Node!At(f)
        PROVE  \/ Nowhere(Node!ForTypes(r, types))
               \/ \E d : /\ Node!ForTypes(r, types) = Node!At(d) /\ (d = f \/ Node!IsFile(d))
                         /\ types => d.ext = <<"d", "ts">>
    <2>1. r.path = f /\ r.kind = "path"
      BY <1>2, KindsOf
    <2> QED BY <1>2, <2>1, DeclarationOf DEF Node!ForTypes
  <1>3. CASE Somewhere(r)
    <2>1. PICK f : r = Node!At(f)
      BY <1>3 DEF Somewhere
    <2>2. CASE Nowhere(Node!ForTypes(r, types))
      BY <2>2, KindsOf DEF Nowhere, Node!Unfinished
    <2>3. ASSUME NEW d, Node!ForTypes(r, types) = Node!At(d), d = f \/ Node!IsFile(d), types => d.ext = <<"d", "ts">>
          PROVE  Nowhere(Node!Unfinished(r, types)) \/ Finishes(r, types, d)
      <3>1. Node!Unfinished(r, types) = Node!Resolved(d)
        BY <2>3, KindsOf DEF Node!Unfinished
      <3> QED BY <2>1, <2>3, <3>1, KindsOf DEF Nowhere, Finishes
    <2> QED BY <1>2, <2>1, <2>2, <2>3
  <1> QED BY <1>1, <1>3

LEMMA NowhereSound == \A r : Nowhere(r) => Sound(r)
  BY KindsOf DEF Nowhere, Sound

\* A path with its kind is sound if it is a file, or left to others.
LEMMA PathSound ==
  ASSUME NEW kind, NEW f, Node!IsFile(f) \/ (case.job # "import" /\ Declares),
         case.job # "bin" /\ case.types => f.ext = <<"d", "ts">>
  PROVE  Sound([kind |-> kind, path |-> f])
  BY DEF Sound

\* node_resolve
LEMMA ImportSound ==
  ASSUME case.job = "import" PROVE Sound(Node!NodeResolve(case.spec, case.referrer, case.types))
  <1> DEFINE spec == case.spec
             referrer == case.referrer
             types == case.types
             r == Node!ModuleResolve(spec, referrer, types)
             x == Node!NodeResolve(spec, referrer, types)
  <1>1. Nowhere(r) \/ Somewhere(r)
    <2>1. ASSUME NEW f PROVE Somewhere(Node!At(f)) /\ Nowhere(Node!Error)
      BY DEF Somewhere, Nowhere
    <2>2. ASSUME NEW f PROVE Nowhere(Node!Declaration(f)) \/ Somewhere(Node!Declaration(f))
      BY DeclarationOf DEF Somewhere
    <2> QED BY <2>1, <2>2, PackagesResolve DEF Node!ModuleResolve
  <1> DEFINE t == Node!Finalize(r)
  <1>2. Nowhere(t) \/ \E f : t = Node!At(f) /\ Node!IsFile(f)
    BY <1>1, KindsOf DEF Node!Finalize, Nowhere, Somewhere
  <1>3. Sound(Node!Unfinished(t, types))
    <2>1. Nowhere(t) \/ Somewhere(t)
      BY <1>2 DEF Somewhere
    <2> HIDE DEF t
    <2>2. Nowhere(Node!Unfinished(t, types)) \/ \E f : Finishes(t, types, f)
      BY <2>1, Finished
    <2>3. ASSUME NEW f, Finishes(t, types, f) PROVE Sound(Node!Unfinished(t, types))
      <3>1. Node!IsFile(f)
        BY <1>2, <2>3, KindsOf DEF Nowhere, Finishes
      <3>2. Sound([kind |-> Node!KindOf(f), path |-> f])
        BY <2>3, <3>1, PathSound DEF Finishes
      <3> QED BY <2>3, <3>2 DEF Finishes
    <2> QED BY <2>2, <2>3, NowhereSound
  <1>4. Sound([kind |-> "builtin"]) /\ Sound([kind |-> "esm"]) /\ Sound(Node!Error)
        /\ (referrer.dir = Node!Data => \A f : Sound([kind |-> "esm", path |-> f]))
    BY KindsOf DEF Sound
  <1> HIDE DEF t, r
  <1>5. x = [kind |-> "builtin"] \/ x = [kind |-> "esm"] \/ x = Node!Error \/ x = Node!Unfinished(t, types)
        \/ (referrer.dir = Node!Data /\ x = [kind |-> "esm", path |-> spec.path])
    BY DEF Node!NodeResolve, r, t
  <1> QED BY <1>3, <1>4, <1>5

\* node_resolve_npm_reference
LEMMA NpmSound ==
  ASSUME case.job = "npm" PROVE Sound(Node!NpmReference(case.spec, case.types))
  <1> DEFINE r == Node!ConfigResolve(case.spec, case.types)
             x == Node!Unfinished(r, case.types)
  <1>1. Nowhere(r) \/ \E f : r = Node!At(f) /\ (Node!IsFile(f) \/ Declares)
    BY PackagesResolve DEF Declares
  <1>2. Nowhere(r) \/ Somewhere(r)
    BY <1>1 DEF Somewhere
  <1>x. Node!NpmReference(case.spec, case.types) = x \/ Node!NpmReference(case.spec, case.types) = Node!Error
    BY DEF Node!NpmReference
  <1> HIDE DEF r
  <1>3. Nowhere(x) \/ \E f : Finishes(r, case.types, f)
    BY <1>2, Finished
  <1>4. ASSUME NEW f, Finishes(r, case.types, f) PROVE Sound(x)
    <2>1. Node!IsFile(f) \/ Declares
      BY <1>1, <1>4, KindsOf DEF Nowhere, Finishes
    <2>2. Sound([kind |-> Node!KindOf(f), path |-> f])
      BY <1>4, <2>1, PathSound DEF Finishes
    <2> QED BY <1>4, <2>2 DEF Finishes
  <1> HIDE DEF x
  <1>5. Sound(x) /\ Sound(Node!Error)
    BY <1>3, <1>4, NowhereSound DEF Nowhere
  <1> QED BY <1>5, <1>x

\* node_resolve_binary_export: bin names what is resolved.
LEMMA BinSound ==
  ASSUME case.job = "bin" PROVE Sound(Node!BinExport(case.spec, case.bin))
  <1>1. \A r : Sound(r)
    BY DEF Sound, Declares, Node!Declares
  <1> QED BY <1>1

LEMMA ResolutionStep ==
  ASSUME NodeLike, case \in NodeCases, Node!ResolveOne PROVE Node!ResolutionSound'
  <1> DEFINE x == CASE case.job = "import" -> Node!NodeResolve(case.spec, case.referrer, case.types)
                    [] case.job = "npm"    -> Node!NpmReference(case.spec, case.types)
                    [] case.job = "bin"    -> Node!BinExport(case.spec, case.bin)
  <1>1. case' = case /\ code' = {x} /\ case.job \in {"import", "npm", "bin"}
    BY DEF Node!ResolveOne, NodeLike, Node!CaseOK
  <1>2. Sound(x)
    BY <1>1, ImportSound, NpmSound, BinSound
  <1> HIDE DEF x
  <1>3. \A r \in code' : Sound(r)
    BY <1>1, <1>2
  <1>4. (\A f : Node!IsFile(f)' = Node!IsFile(f)) /\ Node!Declares(case.spec)' = Node!Declares(case.spec)
    BY <1>1 DEF Node!IsFile, Node!World, Node!Declares, Node!Json, Node!HasJson, Node!NoJson, Node!Folder, Node!None
  <1> QED BY <1>1, <1>3, <1>4 DEF Sound, Declares, Node!Data, Node!ResolutionSound

LEMMA NodeInit == ASSUME Node!Init PROVE NodeInv
  BY DEF Node!Init, NodeInv, Node!ResolutionSound

LEMMA GotFacts ==
  ASSUME case \in NodeCases, NodeLike, Translating, NEW h
  PROVE  case.file \in NodeFiles /\ case.file \in GotBy(h) /\ GotBy(h) \subseteq NodeFiles /\ IsFiniteSet(NodeFiles)
  <1>1. case.file \in NodeFiles /\ Node!IsFiniteSet(NodeFiles)
    BY DEF NodeLike, Node!CaseOK, Translating, NodeFiles
  <1>2. IsFiniteSet(NodeFiles)
    BY <1>1 DEF IsFiniteSet, Node!IsFiniteSet
  <1> QED BY <1>1, <1>2 DEF GotBy

LEMMA Elements == ASSUME NEW R, NEW s \in Seq(R) PROVE \A i \in DOMAIN s : s[i] \in R
  OBVIOUS

\* The requests of a file, as they are put into the queue
LEMMA RequestsOf ==
  ASSUME NEW f, Node!Analysis(f).reexports \in Seq(Requested(f))
  PROVE  /\ Node!Requests(Node!Analysis(f), f) \in Seq([request : Requested(f), referrer : {f}])
         /\ \A r \in Requested(f) : \E i \in DOMAIN Node!Requests(Node!Analysis(f), f) :
               Node!Requests(Node!Analysis(f), f)[i].request = r
  <1> DEFINE s == Node!Analysis(f).reexports
             q == Node!Requests(Node!Analysis(f), f)
             R == [request : Requested(f), referrer : {f}]
  <1>1. s \in Seq(Requested(f)) /\ Len(s) \in Nat /\ DOMAIN s = 1..Len(s) /\ \A i \in 1..Len(s) : s[i] \in Requested(f)
    OBVIOUS
  <1>2. q = [i \in DOMAIN s |-> [request |-> s[i], referrer |-> f]]
    BY DEF Node!Requests
  <1>3. \A r \in Requested(f) : \E i \in DOMAIN s : s[i] = r
    BY DEF Requested, Node!Range
  <1> HIDE DEF s, q
  <1>4. q \in [1..Len(s) -> R]
    BY <1>1, <1>2
  <1>5. q \in Seq(R)
    <2> HIDE DEF R
    <2> QED BY <1>1, <1>4, SeqDef
  <1>6. \A i \in DOMAIN s : i \in DOMAIN q /\ q[i].request = s[i]
    BY <1>2
  <1> QED BY <1>3, <1>5, <1>6 DEF q

\* The first step takes the file itself.
LEMMA StartInv ==
  ASSUME NodeLike, NodeInv, Node!StartTranslation PROVE NodeInv'
  <1> DEFINE a == Node!Analysis(case.file)
  <1>1. /\ case \in NodeCases /\ case' = case /\ Translating /\ handled = {} /\ exports = {} /\ queue = <<>>
        /\ handled' = {} /\ code' = {} /\ count' = 0
    BY DEF Node!StartTranslation, NodeInv, Translating
  <1>2. Translating' /\ case' \in NodeCases
    BY <1>1, SameWorld
  <1>3. CASE ~a.ok
    BY <1>1, <1>2, <1>3 DEF Node!StartTranslation, NodeInv
  <1>4. CASE a.ok
    <2>1. queue' = Node!Requests(a, case.file) /\ exports' = a.exports /\ pc' = "reexports"
      BY <1>4 DEF Node!StartTranslation
    <2>2. GotBy({}) = {case.file} /\ case.file \in NodeFiles
      BY <1>1, GotFacts DEF GotBy
    <2>3. Got' = {case.file}
      BY <1>1, <2>2, SameWorld DEF Got
    <2>4. a.reexports \in Seq(Requested(case.file))
      BY <1>1, <1>4, <2>2, Analyses
    <2>5. /\ queue' \in Seq([request : Requested(case.file), referrer : {case.file}])
          /\ \A r \in Requested(case.file) : \E i \in DOMAIN queue' : queue'[i].request = r
      BY <2>1, <2>4, RequestsOf
    <2>6. \A f : Requested(f)' = Requested(f) /\ Node!Analysis(f)' = Node!Analysis(f)
      BY <1>1, SameWorld
    <2>7. UNION {Requested(p) : p \in Got}' = Requested(case.file)
      BY <2>3, <2>6
    <2>8. NodeShape'
      <3>1. queue' \in Seq([request : UNION {Requested(p) : p \in Got}', referrer : Got'])
        BY <2>3, <2>5, <2>7
      <3>2. \A i \in DOMAIN queue' : queue'[i].request \in Requested(queue'[i].referrer)
        <4>1. \A i \in DOMAIN queue' : queue'[i] \in [request : Requested(case.file), referrer : {case.file}]
          BY <2>5, Elements
        <4> QED BY <4>1
      <3> QED BY <2>6, <3>1, <3>2 DEF NodeShape
    <2>9. NothingForgotten' /\ HandledFound'
      BY <1>1, <1>4, <2>3, <2>5, <2>6 DEF NothingForgotten, HandledFound
    <2>10. NothingElse'
      BY <1>1, <2>3, SameWorld DEF NothingElse, Closed
    <2>11. ExportsOfGot'
      <3>1. \A n : n \in exports' <=> \E f \in Got' : n \in Node!Analysis(f)'.exports
        BY <2>1, <2>3, <2>6
      <3> QED BY <3>1 DEF ExportsOfGot
    <2>12. Declarations'
      BY <1>1 DEF Declarations
    <2> QED BY <1>1, <1>2, <2>1, <2>8, <2>9, <2>10, <2>11, <2>12 DEF NodeInv
  <1> QED BY <1>3, <1>4

\* The head of the queue and the rest
LEMMA HeadOfQueue ==
  ASSUME NodeShape, queue # <<>>
  PROVE  /\ Head(queue).referrer \in Got /\ Head(queue).request \in Requested(Head(queue).referrer)
         /\ Tail(queue) \in Seq([request : UNION {Requested(p) : p \in Got}, referrer : Got])
         /\ \A i \in DOMAIN Tail(queue) : Tail(queue)[i].request \in Requested(Tail(queue)[i].referrer)
         /\ \A i \in DOMAIN queue : queue[i] = Head(queue) \/ \E j \in DOMAIN Tail(queue) : Tail(queue)[j] = queue[i]
  <1> DEFINE R == [request : UNION {Requested(p) : p \in Got}, referrer : Got]
  <1>0. \A x \in R : x.referrer \in Got
    OBVIOUS
  <1>1. queue \in Seq(R) /\ \A i \in DOMAIN queue : queue[i].request \in Requested(queue[i].referrer)
    BY DEF NodeShape
  <1> HIDE DEF R
  <1>2. /\ Len(queue) \in Nat \ {0} /\ DOMAIN queue = 1..Len(queue) /\ Head(queue) = queue[1] /\ 1 \in DOMAIN queue
        /\ Tail(queue) \in Seq(R) /\ DOMAIN Tail(queue) = 1..Len(queue) - 1
        /\ \A i \in 1..Len(queue) - 1 : Tail(queue)[i] = queue[i + 1]
    BY <1>1, HeadTailProperties
  <1>3. queue[1] \in R
    BY <1>1, <1>2
  <1>4. \A i \in DOMAIN Tail(queue) : i + 1 \in DOMAIN queue /\ Tail(queue)[i] = queue[i + 1]
    BY <1>2
  <1>5. \A i \in DOMAIN queue : i = 1 \/ (i - 1 \in DOMAIN Tail(queue) /\ Tail(queue)[i - 1] = queue[i])
    BY <1>2
  <1> QED BY <1>0, <1>1, <1>2, <1>3, <1>4, <1>5 DEF R

\* A request that was handled before is passed by.
LEMMA SkipInv ==
  ASSUME NodeLike, NodeInv, Node!Skip PROVE NodeInv'
  <1>1. /\ case \in NodeCases /\ Translating /\ pc = "reexports" /\ queue # <<>> /\ Head(queue).request \in handled
        /\ queue' = Tail(queue) /\ UNCHANGED <<case, pc, handled, exports, count, code>>
        /\ NodeShape /\ NothingForgotten /\ HandledFound /\ NothingElse /\ ExportsOfGot /\ code = {} /\ count = 0
    BY DEF Node!Skip, Node!HandledAlready, NodeInv
  <1>2. Translating' /\ Got' = Got /\ NodeFiles' = NodeFiles
    BY <1>1, SameWorld DEF Got
  <1>3. \A f : Requested(f)' = Requested(f) /\ Node!Analysis(f)' = Node!Analysis(f)
    BY <1>1, SameWorld
  <1>4. \A r, f : Node!Resolve(r, f)' = Node!Resolve(r, f)
    BY <1>1, SameWorld
  <1>5. NodeShape'
    <2>1. /\ Tail(queue) \in Seq([request : UNION {Requested(p) : p \in Got}, referrer : Got])
          /\ \A i \in DOMAIN Tail(queue) : Tail(queue)[i].request \in Requested(Tail(queue)[i].referrer)
      BY <1>1, HeadOfQueue
    <2>2. UNION {Requested(p) : p \in Got}' = UNION {Requested(p) : p \in Got}
      BY <1>2, <1>3
    <2> QED BY <1>1, <1>2, <1>3, <2>1, <2>2 DEF NodeShape
  <1>6. NothingForgotten'
    <2> SUFFICES ASSUME NEW f \in Got, NEW r \in Requested(f)
                 PROVE  Node!Analysis(f).ok /\ (r \in handled' \/ \E i \in DOMAIN queue' : queue'[i].request = r)
      BY <1>1, <1>2, <1>3 DEF NothingForgotten
    <2>1. Node!Analysis(f).ok /\ (r \in handled \/ \E i \in DOMAIN queue : queue[i].request = r)
      BY <1>1 DEF NothingForgotten
    <2>2. \A i \in DOMAIN queue : queue[i] = Head(queue) \/ \E j \in DOMAIN Tail(queue) : Tail(queue)[j] = queue[i]
      BY <1>1, HeadOfQueue
    <2> QED BY <1>1, <2>1, <2>2
  <1>7. HandledFound' /\ NothingElse'
    <2>1. HandledFound'
      BY <1>1, <1>2, <1>3, <1>4 DEF HandledFound, Node!At
    <2>2. \A S : Closed(S)' = Closed(S)
      BY <1>1, SameWorld
    <2>3. NothingElse'
      BY <1>1, <1>2, <2>2 DEF NothingElse
    <2> QED BY <2>1, <2>3
  <1>8. ExportsOfGot'
    BY <1>1, <1>2, <1>3 DEF ExportsOfGot, Node!Default
  <1>9. Declarations'
    BY <1>1 DEF Declarations
  <1> QED BY <1>1, <1>2, <1>5, <1>6, <1>7, <1>8, <1>9 DEF NodeInv

\* With a request, the file that it means comes to the files.
LEMMA GotMore ==
  ASSUME NodeLike, case \in NodeCases, Translating, NEW h, NEW p \in NodeFiles, NEW r \in Requested(p),
         Node!Analysis(p).ok, NEW x \in NodeFiles, Node!Resolve(r, p) = Node!At(x)
  PROVE  GotBy(h \cup {r}) = GotBy(h) \cup {x}
  <1>1. ASSUME NEW f \in GotBy(h \cup {r}) PROVE f \in GotBy(h) \cup {x}
    <2>1. CASE f = case.file
      BY <2>1, GotFacts
    <2>2. CASE f # case.file
      <3>1. PICK q \in NodeFiles, s \in h \cup {r} :
                Node!Analysis(q).ok /\ s \in Requested(q) /\ Node!Resolve(s, q) = Node!At(f)
        BY <1>1, <2>2 DEF GotBy
      <3>2. CASE s \in h
        BY <1>1, <3>1, <3>2 DEF GotBy
      <3>3. CASE s = r
        <4>1. Node!Resolve(r, q) = Node!Resolve(r, p)
          BY <3>1, <3>3, Agree
        <4>2. f = x
          BY <3>1, <3>3, <4>1, PathOf
        <4> QED BY <4>2
      <3> QED BY <3>1, <3>2, <3>3
    <2> QED BY <2>1, <2>2
  <1>2. GotBy(h) \subseteq GotBy(h \cup {r}) /\ x \in GotBy(h \cup {r})
    BY DEF GotBy
  <1> QED BY <1>1, <1>2

\* A sequence with the elements of two others
MadeOf(s, t, u) ==
    /\ \A i \in DOMAIN u : (\E j \in DOMAIN s : u[i] = s[j]) \/ \E j \in DOMAIN t : u[i] = t[j]
    /\ \A j \in DOMAIN s : \E i \in DOMAIN u : u[i] = s[j]
    /\ \A j \in DOMAIN t : \E i \in DOMAIN u : u[i] = t[j]

\* Two sequences after each other
LEMMA InEither ==
  ASSUME NEW R, NEW s \in Seq(R), NEW t \in Seq(R)
  PROVE  s \o t \in Seq(R) /\ MadeOf(s, t, s \o t)
  <1>1. /\ s \o t \in Seq(R) /\ Len(s \o t) = Len(s) + Len(t) /\ Len(s) \in Nat /\ Len(t) \in Nat
        /\ DOMAIN (s \o t) = 1..Len(s) + Len(t) /\ DOMAIN s = 1..Len(s) /\ DOMAIN t = 1..Len(t)
        /\ \A i \in 1..Len(s) + Len(t) : (s \o t)[i] = IF i <= Len(s) THEN s[i] ELSE t[i - Len(s)]
    BY ConcatProperties
  <1>2. ASSUME NEW i \in DOMAIN (s \o t)
        PROVE  (\E j \in DOMAIN s : (s \o t)[i] = s[j]) \/ \E j \in DOMAIN t : (s \o t)[i] = t[j]
    <2>1. CASE i <= Len(s)
      BY <1>1, <2>1
    <2>2. CASE ~(i <= Len(s))
      <3>1. i - Len(s) \in DOMAIN t /\ (s \o t)[i] = t[i - Len(s)]
        BY <1>1, <2>2
      <3> QED BY <3>1
    <2> QED BY <2>1, <2>2
  <1>3. ASSUME NEW j \in DOMAIN s PROVE \E i \in DOMAIN (s \o t) : (s \o t)[i] = s[j]
    BY <1>1
  <1>4. ASSUME NEW j \in DOMAIN t PROVE \E i \in DOMAIN (s \o t) : (s \o t)[i] = t[j]
    <2>1. Len(s) + j \in DOMAIN (s \o t) /\ ~(Len(s) + j <= Len(s)) /\ (Len(s) + j) - Len(s) = j
      BY <1>1
    <2>2. (s \o t)[Len(s) + j] = t[j]
      BY <1>1, <2>1
    <2> QED BY <2>1, <2>2
  <1> QED BY <1>1, <1>2, <1>3, <1>4 DEF MadeOf

LEMMA LargerSet == ASSUME NEW A, NEW B, A \subseteq B, NEW s \in Seq(A) PROVE s \in Seq(B)
  OBVIOUS

\* A request is resolved, its file analysed, and what that reexports comes into the queue.
HandleState(r, p, x) ==
    /\ case \in NodeCases /\ Translating /\ NodeShape /\ NothingForgotten /\ HandledFound /\ NothingElse /\ ExportsOfGot
    /\ p \in Got /\ r \in Requested(p) /\ Node!Analysis(p).ok
    /\ x \in NodeFiles /\ Node!Resolve(r, p) = Node!At(x) /\ Node!Analysis(x).ok
    /\ queue # <<>> /\ Head(queue).request = r
    /\ case' = case /\ handled' = handled \cup {r} /\ queue' = Tail(queue) \o Node!Requests(Node!Analysis(x), x)
    /\ exports' = exports \cup (Node!Analysis(x).exports \ {Node!Default})

LEMMA HandleGot ==
  ASSUME NodeLike, NEW r, NEW p, NEW x, HandleState(r, p, x)
  PROVE  /\ Got' = Got \cup {x} /\ Got \subseteq NodeFiles /\ p \in NodeFiles /\ NodeFiles' = NodeFiles
         /\ \A f : Requested(f)' = Requested(f) /\ Node!Analysis(f)' = Node!Analysis(f)
         /\ \A s, f : Node!Resolve(s, f)' = Node!Resolve(s, f)
         /\ \A S : Closed(S)' = Closed(S)
         /\ Node!Analysis(x).reexports \in Seq(Requested(x))
  <1>1. Got \subseteq NodeFiles /\ p \in NodeFiles
    BY DEF HandleState, Got, GotBy
  <1>2. GotBy(handled \cup {r}) = GotBy(handled) \cup {x}
    <2>1. /\ case \in NodeCases /\ Translating /\ r \in Requested(p) /\ Node!Analysis(p).ok
          /\ x \in NodeFiles /\ Node!Resolve(r, p) = Node!At(x)
      BY DEF HandleState
    <2> QED BY <1>1, <2>1, GotMore
  <1>3. Got' = GotBy(handled \cup {r})
    <2>1. case' = case /\ handled' = handled \cup {r}
      BY DEF HandleState
    <2>2. GotBy(handled \cup {r})' = GotBy(handled \cup {r})'
      OBVIOUS
    <2>3. \A h : GotBy(h)' = GotBy(h)
      BY <2>1, SameWorld
    <2>4. \A h : h = handled' => GotBy(h)' = Got'
      BY DEF Got, GotBy
    <2> QED BY <2>1, <2>3, <2>4
  <1>4. /\ NodeFiles' = NodeFiles
        /\ \A f : Requested(f)' = Requested(f) /\ Node!Analysis(f)' = Node!Analysis(f)
        /\ \A s, f : Node!Resolve(s, f)' = Node!Resolve(s, f)
        /\ \A S : Closed(S)' = Closed(S)
    BY SameWorld DEF HandleState
  <1>5. Node!Analysis(x).reexports \in Seq(Requested(x))
    BY Analyses DEF HandleState
  <1> QED BY <1>1, <1>2, <1>3, <1>4, <1>5 DEF Got

LEMMA HandleQueue ==
  ASSUME NodeLike, NEW r, NEW p, NEW x, HandleState(r, p, x)
  PROVE  NodeShape' /\ NothingForgotten'
  <1> DEFINE q == Node!Requests(Node!Analysis(x), x)
             R == [request : UNION {Requested(f) : f \in Got \cup {x}}, referrer : Got \cup {x}]
  <1>1. /\ Got' = Got \cup {x}
        /\ \A f : Requested(f)' = Requested(f) /\ Node!Analysis(f)' = Node!Analysis(f)
        /\ Node!Analysis(x).reexports \in Seq(Requested(x))
    BY HandleGot
  <1>2. /\ Tail(queue) \in Seq([request : UNION {Requested(f) : f \in Got}, referrer : Got])
        /\ \A i \in DOMAIN Tail(queue) : Tail(queue)[i].request \in Requested(Tail(queue)[i].referrer)
        /\ \A i \in DOMAIN queue : queue[i] = Head(queue) \/ \E j \in DOMAIN Tail(queue) : Tail(queue)[j] = queue[i]
    BY HeadOfQueue DEF HandleState
  <1>3. q \in Seq([request : Requested(x), referrer : {x}]) /\ \A s \in Requested(x) : \E i \in DOMAIN q : q[i].request = s
    BY <1>1, RequestsOf
  <1>4. \A i \in DOMAIN q : q[i].request \in Requested(q[i].referrer)
    <2> HIDE DEF q
    <2>1. \A i \in DOMAIN q : q[i] \in [request : Requested(x), referrer : {x}]
      BY <1>3, Elements
    <2> QED BY <2>1
  <1>5. queue' = Tail(queue) \o q
    BY DEF HandleState
  <1> HIDE DEF q
  <1>6. Tail(queue) \in Seq(R) /\ q \in Seq(R)
    <2>1. [request : UNION {Requested(f) : f \in Got}, referrer : Got] \subseteq R
      OBVIOUS
    <2>2. [request : Requested(x), referrer : {x}] \subseteq R
      OBVIOUS
    <2> HIDE DEF R
    <2> QED BY <1>2, <1>3, <2>1, <2>2, LargerSet
  <1> HIDE DEF R
  <1>10. Tail(queue) \o q \in Seq(R) /\ MadeOf(Tail(queue), q, Tail(queue) \o q)
    BY <1>6, InEither
  <1>7. /\ queue' \in Seq(R)
        /\ \A i \in DOMAIN queue' : (\E j \in DOMAIN Tail(queue) : queue'[i] = Tail(queue)[j]) \/ \E j \in DOMAIN q : queue'[i] = q[j]
        /\ \A j \in DOMAIN Tail(queue) : \E i \in DOMAIN queue' : queue'[i] = Tail(queue)[j]
        /\ \A j \in DOMAIN q : \E i \in DOMAIN queue' : queue'[i] = q[j]
    BY <1>5, <1>10 DEF MadeOf
  <1>8. NodeShape'
    <2>1. R = [request : UNION {Requested(f) : f \in Got}', referrer : Got']
      BY <1>1 DEF R
    <2>2. \A i \in DOMAIN queue' : queue'[i].request \in Requested(queue'[i].referrer)
      BY <1>2, <1>4, <1>7
    <2> QED BY <1>1, <1>7, <2>1, <2>2 DEF NodeShape
  <1>9. NothingForgotten'
    <2> SUFFICES ASSUME NEW f \in Got \cup {x}, NEW s \in Requested(f)
                 PROVE  Node!Analysis(f).ok /\ (s \in handled' \/ \E i \in DOMAIN queue' : queue'[i].request = s)
      <3>1. \A f \in Got' : Requested(f)' = Requested(f) /\ Node!Analysis(f)' = Node!Analysis(f)
        BY <1>1
      <3>2. \A f \in Got \cup {x} : Node!Analysis(f).ok
        BY DEF HandleState, NothingForgotten
      <3> QED BY <1>1, <3>1, <3>2 DEF NothingForgotten
    <2>1. CASE f \in Got
      <3>1. Node!Analysis(f).ok /\ (s \in handled \/ \E i \in DOMAIN queue : queue[i].request = s)
        BY <2>1 DEF HandleState, NothingForgotten
      <3>2. handled \subseteq handled' /\ Head(queue).request \in handled'
        BY DEF HandleState
      <3> QED BY <1>2, <1>7, <3>1, <3>2
    <2>2. CASE f = x
      <3>1. Node!Analysis(x).ok
        BY DEF HandleState
      <3> QED BY <1>3, <1>7, <2>2, <3>1
    <2> QED BY <2>1, <2>2
  <1> QED BY <1>8, <1>9

LEMMA HandleFiles ==
  ASSUME NodeLike, NEW r, NEW p, NEW x, HandleState(r, p, x)
  PROVE  HandledFound' /\ NothingElse' /\ ExportsOfGot'
  <1>1. /\ Got' = Got \cup {x} /\ Got \subseteq NodeFiles /\ p \in NodeFiles /\ NodeFiles' = NodeFiles
        /\ \A f : Requested(f)' = Requested(f) /\ Node!Analysis(f)' = Node!Analysis(f)
        /\ \A s, f : Node!Resolve(s, f)' = Node!Resolve(s, f)
        /\ \A S : Closed(S)' = Closed(S)
    BY HandleGot
  <1>2. HandledFound'
    <2> SUFFICES ASSUME NEW s \in handled \cup {r}
                 PROVE  \E y \in Got \cup {x}, f \in NodeFiles : s \in Requested(y) /\ Node!Resolve(s, y) = Node!At(f)
      <3>1. handled' = handled \cup {r}
        BY DEF HandleState
      <3>2. \A f : Node!At(f)' = Node!At(f)
        BY DEF Node!At
      <3> QED BY <1>1, <3>1, <3>2 DEF HandledFound
    <2>1. CASE s \in handled
      BY <2>1 DEF HandleState, HandledFound
    <2>2. CASE s = r
      BY <2>2 DEF HandleState
    <2> QED BY <2>1, <2>2
  <1>3. NothingElse'
    <2> SUFFICES ASSUME NEW S \in SUBSET NodeFiles, Closed(S) PROVE Got \cup {x} \subseteq S
      BY <1>1 DEF NothingElse
    <2>1. Got \subseteq S /\ p \in S
      BY DEF HandleState, NothingElse
    <2>2. x \in S
      BY <2>1 DEF HandleState, Closed
    <2> QED BY <2>1, <2>2
  <1>4. ExportsOfGot'
    <2> DEFINE e == Node!Analysis(x).exports
    <2>1. exports' = exports \cup (e \ {Node!Default}) /\ ExportsOfGot
      BY DEF HandleState
    <2>3. \A n : n # Node!Default => (n \in exports' <=> \E f \in Got' : n \in Node!Analysis(f)'.exports)
      <3>1. \A n : n # Node!Default => (n \in exports <=> \E f \in Got : n \in Node!Analysis(f).exports)
        BY <2>1 DEF ExportsOfGot
      <3>2. \A f : Node!Analysis(f)'.exports = Node!Analysis(f).exports
        BY <1>1
      <3>3. Got' = Got \cup {x}
        BY <1>1
      <3> QED BY <2>1, <3>1, <3>2, <3>3
    <2> QED BY <2>3 DEF ExportsOfGot, Node!Default
  <1> QED BY <1>2, <1>3, <1>4

LEMMA HandleInv ==
  ASSUME NodeLike, NodeInv, Node!Handle PROVE NodeInv'
  <1> DEFINE first == Head(queue)
             r == first.request
             meant == Node!Resolve(r, first.referrer)
  <1>1. /\ case \in NodeCases /\ Translating /\ pc = "reexports" /\ queue # <<>>
        /\ handled' = handled \cup {r} /\ UNCHANGED <<case, count, code>>
        /\ NodeShape /\ NothingForgotten /\ HandledFound /\ NothingElse /\ ExportsOfGot /\ code = {} /\ count = 0
    BY DEF Node!Handle, NodeInv
  <1>2. Translating'
    BY <1>1, SameWorld
  <1>3. CASE pc' \in {"panicked", "failed"}
    BY <1>1, <1>2, <1>3 DEF NodeInv
  <1>4. CASE pc' \notin {"panicked", "failed"}
    <2>1. /\ meant # Node!Panic /\ meant # Node!Error /\ Node!IsFile(meant.path) /\ Node!Analysis(meant.path).ok
          /\ queue' = Tail(queue) \o Node!Requests(Node!Analysis(meant.path), meant.path)
          /\ exports' = exports \cup (Node!Analysis(meant.path).exports \ {Node!Default})
          /\ pc' = pc
      BY <1>4 DEF Node!Handle
    <2>2. PICK x : meant = Node!At(x)
      BY <2>1, ResolveForms
    <2>3. meant.path = x
      BY <2>2, PathOf
    <2>4. x \in NodeFiles
      BY <2>1, <2>3 DEF Node!IsFile, NodeFiles, Node!World
    <2>5. first.referrer \in Got /\ r \in Requested(first.referrer)
      BY <1>1, HeadOfQueue
    <2>6. Node!Analysis(first.referrer).ok
      BY <1>1, <2>5 DEF NothingForgotten
    <2>7. HandleState(r, first.referrer, x)
      BY <1>1, <2>1, <2>2, <2>3, <2>4, <2>5, <2>6 DEF HandleState
    <2> HIDE DEF first, r, meant
    <2>8. NodeShape' /\ NothingForgotten' /\ HandledFound' /\ NothingElse' /\ ExportsOfGot'
      BY <2>7, HandleQueue, HandleFiles
    <2>9. Declarations'
      BY <1>1 DEF Declarations
    <2> QED BY <1>1, <1>2, <2>1, <2>8, <2>9 DEF NodeInv
  <1> QED BY <1>3, <1>4

\* Nothing is said of the files while the names of the exports are declared.
LEMMA FilesStay ==
  ASSUME UNCHANGED <<case, queue, handled, exports>>,
         NodeShape, NothingForgotten, HandledFound, NothingElse, ExportsOfGot
  PROVE  NodeShape' /\ NothingForgotten' /\ HandledFound' /\ NothingElse' /\ ExportsOfGot'
  <1>1. /\ NodeFiles' = NodeFiles /\ \A f : Requested(f)' = Requested(f) /\ Node!Analysis(f)' = Node!Analysis(f)
        /\ \A s, f : Node!Resolve(s, f)' = Node!Resolve(s, f) /\ \A S : Closed(S)' = Closed(S)
    BY SameWorld
  <1>2. Got' = Got
    BY SameWorld DEF Got
  <1>3. UNION {Requested(p) : p \in Got}' = UNION {Requested(p) : p \in Got}
    BY <1>1, <1>2
  <1>4. NodeShape' /\ NothingForgotten'
    BY <1>1, <1>2, <1>3 DEF NodeShape, NothingForgotten
  <1>5. HandledFound' /\ NothingElse'
    BY <1>1, <1>2 DEF HandledFound, NothingElse, Node!At
  <1>6. ExportsOfGot'
    BY <1>1, <1>2 DEF ExportsOfGot, Node!Default
  <1> QED BY <1>4, <1>5, <1>6

\* What is declared is declared still when more is counted.
LEMMA StillDeclared ==
  ASSUME case' = case, count \in Nat, count' \in Nat, count <= count', NEW d, Declaration(d)
  PROVE  Declaration(d)'
  <1>1. Node!NeedsTemporary(d.as)' = Node!NeedsTemporary(d.as)
    BY SameWorld
  <1>2. 1..count \subseteq 1..count'
    OBVIOUS
  <1> QED BY <1>1, <1>2 DEF Declaration, Node!Constant, Node!Renamed, Node!Temporary

\* The next export comes with its own name or with the next number.
LEMMA AddInv == ASSUME NodeLike, NodeInv, Node!AddExport PROVE NodeInv'
  <1>1. /\ case \in NodeCases /\ Translating /\ pc = "reexports" /\ queue = <<>>
        /\ UNCHANGED <<case, pc, queue, handled, exports>>
        /\ NodeShape /\ NothingForgotten /\ HandledFound /\ NothingElse /\ ExportsOfGot /\ Declarations
    BY DEF Node!AddExport, NodeInv
  <1>2. PICK name \in Node!Left :
            IF Node!NeedsTemporary(name)
            THEN count' = count + 1 /\ code' = code \cup {Node!Renamed(name, count + 1)}
            ELSE code' = code \cup {Node!Constant(name)} /\ count' = count
    BY DEF Node!AddExport
  <1>3. count \in Nat /\ count' \in Nat /\ count <= count'
    BY <1>1, <1>2 DEF Declarations
  <1>4. name \in exports /\ name # Node!Default /\ \A d \in code : d.as # name
    BY <1>2 DEF Node!Left, Node!Exported
  <1>5. \A n : Node!NeedsTemporary(n)' = Node!NeedsTemporary(n)
    BY <1>1, SameWorld
  <1>6. PICK new : /\ code' = code \cup {new} /\ new.as = name
                   /\ \/ Node!NeedsTemporary(name) /\ count' = count + 1 /\ new = Node!Renamed(name, count + 1)
                      \/ ~Node!NeedsTemporary(name) /\ new = Node!Constant(name)
    BY <1>2 DEF Node!Renamed, Node!Constant
  <1>7. Declaration(new)'
    <2>1. CASE Node!NeedsTemporary(name)
      <3>1. count + 1 \in 1..count' /\ new = Node!Renamed(name, count + 1)
        BY <1>3, <1>6, <2>1
      <3> QED BY <1>5, <1>6, <2>1, <3>1 DEF Declaration, Node!Renamed, Node!Temporary
    <2>2. CASE ~Node!NeedsTemporary(name)
      BY <1>5, <1>6, <2>2 DEF Declaration, Node!Constant
    <2> QED BY <2>1, <2>2
  <1>8. ASSUME NEW d \in code, Node!NeedsTemporary(d.as), Node!NeedsTemporary(name) PROVE d.id # new.id
    <2>1. PICK n \in 1..count : d = Node!Renamed(d.as, n)
      BY <1>1, <1>8 DEF Declarations, Declaration
    <2>2. d.id = Node!Temporary(n) /\ new.id = Node!Temporary(count + 1) /\ n # count + 1
      BY <1>3, <1>6, <1>8, <2>1 DEF Node!Renamed
    <2> QED BY <2>2 DEF Node!Temporary
  <1>9. Declarations'
    <2>1. \A d \in code' : Declaration(d)'
      <3>1. \A d \in code : Declaration(d)
        BY <1>1 DEF Declarations
      <3> QED BY <1>1, <1>3, <1>6, <1>7, <3>1, StillDeclared
    <2>2. \A d \in code' : d.as \in exports' \ {Node!Default}
      BY <1>1, <1>4, <1>6 DEF Declarations
    <2>3. \A d, e \in code' : d.as = e.as => d = e
      BY <1>1, <1>4, <1>6 DEF Declarations
    <2>4. \A d, e \in code' : Node!NeedsTemporary(d.as) /\ Node!NeedsTemporary(e.as) /\ d.id = e.id => d = e
      BY <1>1, <1>6, <1>8 DEF Declarations
    <2> QED BY <1>3, <1>5, <2>1, <2>2, <2>3, <2>4 DEF Declarations, Node!Default
  <1>10. NodeShape' /\ NothingForgotten' /\ HandledFound' /\ NothingElse' /\ ExportsOfGot'
    BY <1>1, FilesStay
  <1>11. Translating'
    BY <1>1, SameWorld
  <1> QED BY <1>1, <1>9, <1>10, <1>11 DEF NodeInv

LEMMA DeclarationsStay ==
  ASSUME UNCHANGED <<case, exports, count, code>>, Declarations PROVE Declarations'
  <1>1. \A n : Node!NeedsTemporary(n)' = Node!NeedsTemporary(n)
    BY SameWorld
  <1>2. \A d : Declaration(d)' = Declaration(d)
    BY <1>1 DEF Declaration, Node!Constant, Node!Renamed, Node!Temporary
  <1> QED BY <1>1, <1>2 DEF Declarations, Node!Default

LEMMA NodeNext == ASSUME NodeLike, NodeInv, [Node!Next]_Node!vars PROVE NodeInv'
  <1>1. CASE Node!ResolveOne
    <2>1. case' = case /\ case \in NodeCases /\ pc' = "done" /\ ~Translating
      BY <1>1 DEF Node!ResolveOne, NodeInv, Translating
    <2>2. ~Translating' /\ Node!ResolutionSound'
      BY <1>1, <2>1, SameWorld, ResolutionStep
    <2> QED BY <2>1, <2>2 DEF NodeInv
  <1>2. CASE Node!Finish
    <2>1. /\ case \in NodeCases /\ Translating /\ pc = "reexports" /\ queue = <<>> /\ pc' = "done" /\ Node!Left = {}
          /\ UNCHANGED <<case, queue, handled, exports, count, code>>
          /\ NodeShape /\ NothingForgotten /\ HandledFound /\ NothingElse /\ ExportsOfGot /\ Declarations
      BY <1>2 DEF Node!Finish, NodeInv
    <2>2. NodeShape' /\ NothingForgotten' /\ HandledFound' /\ NothingElse' /\ ExportsOfGot' /\ Declarations'
      BY <2>1, FilesStay, DeclarationsStay
    <2>3. Translating' /\ Node!Left' = {}
      BY <2>1, SameWorld DEF Node!Left, Node!Exported, Node!Default
    <2> QED BY <2>1, <2>2, <2>3 DEF NodeInv
  <1>3. CASE UNCHANGED Node!vars
    <2>1. UNCHANGED <<case, pc, queue, handled, exports, count, code>>
      BY <1>3 DEF Node!vars
    <2>2. Node!ResolutionSound => Node!ResolutionSound'
      <3>1. (\A f : Node!IsFile(f)' = Node!IsFile(f)) /\ Node!Declares(case.spec)' = Node!Declares(case.spec)
        BY <2>1 DEF Node!IsFile, Node!World, Node!Declares, Node!Json, Node!HasJson, Node!NoJson, Node!Folder, Node!None
      <3> QED BY <2>1, <3>1 DEF Node!ResolutionSound, Node!Data
    <2>3. Translating' = Translating /\ Node!Left' = Node!Left
      BY <2>1, SameWorld DEF Node!Left, Node!Exported, Node!Default
    <2>4. ASSUME NodeShape, NothingForgotten, HandledFound, NothingElse, ExportsOfGot, Declarations
          PROVE  NodeShape' /\ NothingForgotten' /\ HandledFound' /\ NothingElse' /\ ExportsOfGot' /\ Declarations'
      BY <2>1, <2>4, FilesStay, DeclarationsStay
    <2> QED BY <2>1, <2>2, <2>3, <2>4 DEF NodeInv
  <1> QED BY <1>1, <1>2, <1>3, StartInv, SkipInv, HandleInv, AddInv DEF Node!Next

\* What a file leads to is what its requests mean.
LEMMA FromFile ==
  ASSUME NEW p
  PROVE  \A f : f \in Node!FilesFrom(p) <=> \E r \in Requested(p) : Node!Resolve(r, p) = Node!At(f)
  <1>1. Node!FilesFrom(p) = {Node!Resolve(r, p).path : r \in {q \in Requested(p) : Node!Resolve(q, p).kind = "path"}}
    BY DEF Node!FilesFrom, Requested, Node!Range, Node!ToSet
  <1>2. ASSUME NEW r, Node!Resolve(r, p).kind = "path" PROVE \E f : Node!Resolve(r, p) = Node!At(f)
    <2>1. Node!Panic.kind = "panic" /\ Node!Error.kind = "error"
      BY DEF Node!Panic, Node!Error
    <2> QED BY <1>2, <2>1, ResolveForms
  <1>3. ASSUME NEW f, f \in Node!FilesFrom(p) PROVE \E r \in Requested(p) : Node!Resolve(r, p) = Node!At(f)
    <2>1. PICK r \in Requested(p) : Node!Resolve(r, p).kind = "path" /\ f = Node!Resolve(r, p).path
      BY <1>1, <1>3
    <2>2. PICK g : Node!Resolve(r, p) = Node!At(g)
      BY <1>2, <2>1
    <2>3. f = g
      BY <2>1, <2>2, PathOf
    <2> QED BY <2>2, <2>3
  <1>4. ASSUME NEW f, NEW r \in Requested(p), Node!Resolve(r, p) = Node!At(f) PROVE f \in Node!FilesFrom(p)
    <2>1. Node!Resolve(r, p).kind = "path" /\ Node!Resolve(r, p).path = f
      BY <1>4, PathOf
    <2> QED BY <1>1, <2>1
  <1> QED BY <1>3, <1>4

\* When all requests are handled, the files that were analysed lead to no others.
LEMMA AllHandled ==
  ASSUME NodeLike, NodeInv, Translating, pc = "done", NEW p \in Got
  PROVE  Node!FilesFrom(p) \subseteq Got
  <1> SUFFICES ASSUME NEW f, NEW r \in Requested(p), Node!Resolve(r, p) = Node!At(f) PROVE f \in Got
    BY FromFile
  <1>1. case \in NodeCases /\ queue = <<>> /\ NothingForgotten /\ HandledFound
    BY DEF NodeInv
  <1>2. Node!Analysis(p).ok /\ r \in handled
    BY <1>1 DEF NothingForgotten
  <1>3. PICK q \in Got, g \in NodeFiles : r \in Requested(q) /\ Node!Resolve(r, q) = Node!At(g)
    BY <1>1, <1>2 DEF HandledFound
  <1>4. p \in NodeFiles /\ q \in NodeFiles /\ Node!Analysis(q).ok
    BY <1>1, <1>3 DEF NothingForgotten, Got, GotBy
  <1>5. Node!Resolve(r, p) = Node!Resolve(r, q)
    BY <1>1, <1>2, <1>3, <1>4, Agree
  <1>6. f = g
    <2>1. Node!At(f) = Node!At(g)
      BY <1>3, <1>5
    <2>2. Node!At(f).path = f /\ Node!At(g).path = g
      BY PathOf
    <2> QED BY <2>1, <2>2
  <1> QED BY <1>2, <1>3, <1>4, <1>6 DEF Got, GotBy

\* How many files there are
Size == Node!Cardinality(NodeFiles)

LEMMA SizeOf ==
  ASSUME case \in NodeCases, NodeLike, Translating
  PROVE  Size = Cardinality(NodeFiles) /\ Size \in Nat
  <1>1. Size = Cardinality(NodeFiles)
    BY DEF Size, Cardinality, Node!Cardinality
  <1>2. IsFiniteSet(NodeFiles)
    BY GotFacts
  <1> QED BY <1>1, <1>2, FS_CardinalityType

\* The files within n steps are what their definition says, for any n.
WithinOf(g, n) == IF n = 0 THEN {case.file} ELSE g[n - 1] \cup UNION {Node!FilesFrom(p) : p \in g[n - 1]}

LEMMA ReachSteps ==
  ASSUME Size \in Nat
  PROVE  \A n \in 0..Size : Node!Reach[n] = WithinOf(Node!Reach, n)
  <1> DEFINE K == {k \in Nat : \E g : g = [n \in 0..k |-> WithinOf(g, n)]}
  <1>1. 0 \in K
    <2> DEFINE g == [n \in 0..0 |-> {case.file}]
    <2>1. g = [n \in 0..0 |-> WithinOf(g, n)]
      BY DEF WithinOf
    <2> QED BY <2>1
  <1>2. ASSUME NEW k \in Nat, k \in K PROVE k + 1 \in K
    <2>1. PICK g : g = [n \in 0..k |-> WithinOf(g, n)]
      BY <1>2
    <2> DEFINE h == [n \in 0..(k + 1) |-> WithinOf(g, n)]
    <2>2. ASSUME NEW n \in 0..k PROVE h[n] = g[n]
      <3>1. n \in 0..(k + 1)
        OBVIOUS
      <3> QED BY <2>1, <3>1
    <2>3. ASSUME NEW n \in 0..(k + 1) PROVE WithinOf(g, n) = WithinOf(h, n)
      <3>1. ASSUME n # 0 PROVE n - 1 \in 0..k
        BY <3>1
      <3>2. n # 0 => g[n - 1] = h[n - 1]
        <4> HIDE DEF h
        <4> QED BY <2>2, <3>1
      <3> HIDE DEF h
      <3> QED BY <3>2 DEF WithinOf
    <2>4. h = [n \in 0..(k + 1) |-> WithinOf(h, n)]
      BY <2>3
    <2> HIDE DEF h
    <2> QED BY <2>4
  <1>3. Size \in K
    <2> HIDE DEF K
    <2> QED BY <1>1, <1>2, AllNumbers
  <1> DEFINE R == CHOOSE g : g = [n \in 0..Size |-> WithinOf(g, n)]
  <1>4. R = [n \in 0..Size |-> WithinOf(R, n)]
    BY <1>3
  <1>5. Node!Reach = R
    BY DEF Node!Reach, WithinOf, Size, NodeFiles, Node!World
  <1> HIDE DEF R
  <1>6. \A n \in 0..Size : R[n] = WithinOf(R, n)
    BY <1>4
  <1> QED BY <1>5, <1>6

\* What was analysed is what the module reexports in as many steps as there are files: as long
\* as a step leads to a file that is new, there is one more.
LEMMA ReachIsGot ==
  ASSUME NodeLike, NodeInv, Translating, pc = "done"
  PROVE  Node!Reach[Size] = Got
  <1> DEFINE W(n) == Node!Reach[n]
             Still(n) == \A p \in W(n) : Node!FilesFrom(p) \subseteq W(n)
  <1>1. case \in NodeCases /\ NothingElse
    BY DEF NodeInv
  <1>2. Size \in Nat /\ Size = Cardinality(NodeFiles) /\ IsFiniteSet(NodeFiles)
    BY <1>1, SizeOf, GotFacts
  <1>3. case.file \in Got /\ Got \subseteq NodeFiles
    BY <1>1, GotFacts DEF Got
  <1>4. W(0) = {case.file}
    <2>1. 0 \in 0..Size /\ WithinOf(Node!Reach, 0) = {case.file}
      BY <1>2 DEF WithinOf
    <2> QED BY <1>2, <2>1, ReachSteps
  <1>5. ASSUME NEW k \in Nat, k + 1 <= Size
        PROVE  W(k + 1) = W(k) \cup UNION {Node!FilesFrom(p) : p \in W(k)}
    <2>1. k + 1 \in 0..Size /\ k + 1 # 0 /\ (k + 1) - 1 = k
      BY <1>2, <1>5
    <2>2. Node!Reach[k + 1] = WithinOf(Node!Reach, k + 1)
      BY <1>2, <2>1, ReachSteps
    <2> QED BY <2>1, <2>2 DEF WithinOf
  <1> HIDE DEF W
  <1>6. Size <= Size => W(Size) \subseteq Got /\ case.file \in W(Size)
    <2> DEFINE K == {k \in Nat : k <= Size => W(k) \subseteq Got /\ case.file \in W(k)}
    <2>1. 0 \in K
      BY <1>3, <1>4
    <2>2. ASSUME NEW k \in Nat, k \in K PROVE k + 1 \in K
      <3> SUFFICES ASSUME k + 1 <= Size PROVE W(k + 1) \subseteq Got /\ case.file \in W(k + 1)
        OBVIOUS
      <3>1. W(k) \subseteq Got /\ case.file \in W(k)
        BY <1>2, <2>2
      <3>2. \A p \in W(k) : Node!FilesFrom(p) \subseteq Got
        BY <3>1, AllHandled
      <3> QED BY <1>5, <3>1, <3>2
    <2>3. Nat \subseteq K
      <3> HIDE DEF K
      <3> QED BY <2>1, <2>2, AllNumbers
    <2> QED BY <1>2, <2>3
  <1>7. W(Size) \subseteq Got /\ case.file \in W(Size)
    BY <1>2, <1>6
  <1>8. ASSUME NEW k \in Nat, k <= Size
        PROVE  W(k) \subseteq Got /\ (Still(k) \/ Cardinality(W(k)) > k)
    <2> DEFINE K == {j \in Nat : j <= Size => W(j) \subseteq Got /\ (Still(j) \/ Cardinality(W(j)) > j)}
    <2>1. 0 \in K
      <3>1. Cardinality(W(0)) = 1
        BY <1>4, FS_Singleton
      <3> QED BY <1>3, <1>4, <3>1
    <2>2. ASSUME NEW j \in Nat, j \in K PROVE j + 1 \in K
      <3> SUFFICES ASSUME j + 1 <= Size PROVE W(j + 1) \subseteq Got /\ (Still(j + 1) \/ Cardinality(W(j + 1)) > j + 1)
        OBVIOUS
      <3>1. W(j) \subseteq Got /\ (Still(j) \/ Cardinality(W(j)) > j)
        BY <1>2, <2>2
      <3>2. W(j + 1) = W(j) \cup UNION {Node!FilesFrom(p) : p \in W(j)}
        BY <1>5
      <3>3. W(j + 1) \subseteq Got
        <4>1. \A p \in W(j) : Node!FilesFrom(p) \subseteq Got
          BY <3>1, AllHandled
        <4> QED BY <3>1, <3>2, <4>1
      <3>4. CASE Still(j)
        <4>1. W(j + 1) = W(j)
          BY <3>2, <3>4
        <4> QED BY <3>3, <3>4, <4>1
      <3>5. CASE ~Still(j)
        <4>1. Cardinality(W(j)) > j /\ W(j) \subseteq W(j + 1) /\ W(j) # W(j + 1)
          BY <3>1, <3>2, <3>5
        <4>2. IsFiniteSet(W(j)) /\ IsFiniteSet(W(j + 1))
          BY <1>2, <1>3, <3>1, <3>3, FS_Subset
        <4>3. Cardinality(W(j)) <= Cardinality(W(j + 1)) /\ Cardinality(W(j)) # Cardinality(W(j + 1))
          BY <4>1, <4>2, FS_Subset
        <4>4. Cardinality(W(j)) \in Nat /\ Cardinality(W(j + 1)) \in Nat
          BY <4>2, FS_CardinalityType
        <4> QED BY <3>3, <4>1, <4>3, <4>4
      <3> QED BY <3>4, <3>5
    <2>3. Nat \subseteq K
      <3> HIDE DEF K
      <3> QED BY <2>1, <2>2, AllNumbers
    <2> QED BY <1>8, <2>3
  <1>9. Still(Size)
    <2>1. Cardinality(W(Size)) <= Size
      <3>1. W(Size) \in SUBSET NodeFiles
        BY <1>3, <1>7
      <3> QED BY <1>2, <3>1, FS_Subset
    <2>2. Cardinality(W(Size)) \in Nat
      <3>1. IsFiniteSet(W(Size))
        BY <1>2, <1>3, <1>7, FS_Subset
      <3> QED BY <3>1, FS_CardinalityType
    <2> QED BY <1>2, <1>8, <2>1, <2>2
  <1>10. Closed(W(Size))
    BY <1>7, <1>9, FromFile DEF Closed
  <1>11. Got \subseteq W(Size)
    BY <1>1, <1>3, <1>7, <1>10 DEF NothingElse
  <1> QED BY <1>7, <1>11 DEF W

\* Two declarations of one identifier would need an export with the name of a temporary.
LEMMA OneOfEach == ASSUME Declarations PROVE Node!DeclaredOnce
  <1> SUFFICES ASSUME exports \cap (Node!Around \cup {Node!Temporary(n) : n \in 1..count}) = {}
               PROVE  /\ \A d, e \in code : d.id = e.id => d = e
                      /\ \A d \in code : d.id \notin Node!Around
    BY DEF Node!DeclaredOnce
  <1>1. \A d \in code : Declaration(d) /\ d.as \in exports
    BY DEF Declarations
  <1>2. ASSUME NEW d \in code, ~Node!NeedsTemporary(d.as) PROVE d.id = d.as /\ d.id \in exports
    <2>1. d = Node!Constant(d.as)
      BY <1>1, <1>2 DEF Declaration
    <2>2. d.id = d.as
      BY <2>1 DEF Node!Constant
    <2> QED BY <1>1, <2>2
  <1>3. ASSUME NEW d \in code, Node!NeedsTemporary(d.as) PROVE \E n \in 1..count : d.id = Node!Temporary(n)
    <2>1. PICK n \in 1..count : d = Node!Renamed(d.as, n)
      BY <1>1, <1>3 DEF Declaration
    <2>2. d.id = Node!Temporary(n)
      BY <2>1 DEF Node!Renamed
    <2> QED BY <2>2
  <1>4. \A n : Node!Temporary(n) \notin Node!Around
    BY DEF Node!Temporary, Node!Around
  <1>5. ASSUME NEW d \in code, NEW e \in code, d.id = e.id, ~Node!NeedsTemporary(d.as) PROVE d = e
    <2>1. CASE Node!NeedsTemporary(e.as)
      BY <1>2, <1>3, <1>5, <2>1
    <2>2. CASE ~Node!NeedsTemporary(e.as)
      <3>1. d.as = e.as
        BY <1>2, <1>5, <2>2
      <3> QED BY <3>1 DEF Declarations
    <2> QED BY <2>1, <2>2
  <1>6. ASSUME NEW d \in code, NEW e \in code, d.id = e.id PROVE d = e
    <2>1. CASE Node!NeedsTemporary(d.as) /\ Node!NeedsTemporary(e.as)
      BY <1>6, <2>1 DEF Declarations
    <2> QED BY <1>5, <1>6, <2>1
  <1>7. ASSUME NEW d \in code PROVE d.id \notin Node!Around
    BY <1>2, <1>3, <1>4
  <1> QED BY <1>6, <1>7

LEMMA NodeFinds == ASSUME NodeLike, NodeInv, part = "node" PROVE NodeSound
  <1>1. CASE ~Translating
    <2>1. Node!ResolutionSound
      BY <1>1 DEF NodeInv
    <2> QED BY <1>1, <2>1 DEF Translating, NodeSound, Node!ReexportsComplete, Node!DeclaredOnce
  <1>2. CASE Translating
    <2>1. Node!ResolutionSound
      BY <1>2 DEF Translating, Node!ResolutionSound
    <2>2. Node!DeclaredOnce
      <3>1. CASE pc \in {"reexports", "done"}
        BY <1>2, <3>1, OneOfEach DEF NodeInv
      <3>2. CASE pc \notin {"reexports", "done"}
        <4>1. code = {}
          BY <1>2, <3>2 DEF NodeInv
        <4> QED BY <4>1 DEF Node!DeclaredOnce
      <3> QED BY <3>1, <3>2
    <2>3. CASE pc # "done"
      BY <2>1, <2>2, <2>3 DEF NodeSound, Node!ReexportsComplete
    <2>4. CASE pc = "done"
      <3> DEFINE names == exports \ {Node!Default}
      <3>1. ExportsOfGot /\ Declarations /\ Node!Left = {}
        BY <1>2, <2>4 DEF NodeInv
      <3>2. Node!Exported = names
        BY <3>1 DEF Node!Left, Node!Exported, Declarations
      <3>4. Node!Reach[Node!Cardinality(Node!World.files)] = Got
        BY <1>2, <2>4, ReachIsGot DEF Size, NodeFiles, Node!World
      <3>5. names = (UNION {Node!Analysis(p).exports : p \in Got}) \ {Node!Default}
        <4> DEFINE A(p) == Node!Analysis(p).exports
        <4>1. \A n : n # Node!Default => (n \in exports <=> \E p \in Got : n \in A(p))
          BY <3>1 DEF ExportsOfGot
        <4>2. \A n : n \in names <=> n \in exports /\ n # Node!Default
          OBVIOUS
        <4> HIDE DEF names, A
        <4> DEFINE U == UNION {A(p) : p \in Got}
        <4>3. \A n : n \in U <=> \E p \in Got : n \in A(p)
          OBVIOUS
        <4> HIDE DEF U
        <4>4. names = U \ {Node!Default}
          BY <4>1, <4>2, <4>3
        <4> QED BY <4>4 DEF U, A
      <3>6. Node!ReexportsComplete
        BY <3>2, <3>4, <3>5 DEF Node!ReexportsComplete
      <3> QED BY <2>1, <2>2, <3>6 DEF NodeSound
    <2> QED BY <2>3, <2>4
  <1> QED BY <1>1, <1>2

-----------------------------------------------------------------------------
(* Npm                                                                     *)

\* A step of the whole is a step of the part, or leaves the part alone.
LEMMA PartSteps ==
  ASSUME [Next]_vars
  PROVE  /\ part' = part
         /\ part = "registry" => [Registry!Next]_Registry!vars
         /\ part = "resolution" => [Resolution!Next]_Resolution!vars
         /\ part = "folders" => [Folders!Next]_Folders!vars
         /\ part = "names" => [Names!Next]_Names!vars
         /\ part = "modules" => [Modules!Next]_Modules!vars
         /\ part = "node" => [Node!Next]_Node!vars
         /\ part = "project" => [Project!Next]_Project!vars
  <1>1. part' = part
    BY DEF Next, vars
  <1>2. part = "registry" => [Registry!Next]_Registry!vars
    BY DEF Next, vars, OnlyRegistry, Registry!vars, Registry!cache
  <1>3. part = "resolution" => [Resolution!Next]_Resolution!vars
    BY DEF Next, vars, OnlyResolution, Resolution!vars
  <1>4. part = "folders" => [Folders!Next]_Folders!vars
    BY DEF Next, vars, OnlyFolders, Folders!vars
  <1>5. part = "modules" => [Modules!Next]_Modules!vars
    BY DEF Next, vars, OnlyModules, Modules!vars
  <1>6. part = "project" => [Project!Next]_Project!vars
    BY DEF Next, vars, OnlyProject, Project!vars
  <1>7. part = "node" => [Node!Next]_Node!vars
    BY DEF Next, vars, OnlyNode, Node!vars
  <1>8. part = "names" => [Names!Next]_Names!vars
    BY DEF Next, vars, OnlyNames, Names!vars
  <1> QED BY <1>1, <1>2, <1>3, <1>4, <1>5, <1>6, <1>7, <1>8

\* The initial states of the whole are those of the part.
LEMMA PartInits ==
  ASSUME Init
  PROVE  /\ part = "registry" => Registry!Init
         /\ part = "resolution" => Resolution!Init
         /\ part = "folders" => Folders!Init
         /\ part = "names" => Names!Init
         /\ part = "modules" => Modules!Init
         /\ part = "node" => Node!Init
         /\ part = "project" => Project!Init
  BY DEF Init

(* SameInfo and OrderlyReloadIsFresh of NpmRegistry: a batch that has      *)
(* cached its packages is told the same of each of them whenever it asks,  *)
(* whoever else calls.  Where only batches call, each asks for a package   *)
(* once and no request has failed, a program that reloads has nothing in   *)
(* memory from before it began; otherwise it can have, since a package     *)
(* counts as reloaded before it is (maybe_package_info of npm/registry.rs  *)
(* and clear_memory_cache).                                                *)
THEOREM InfoIsSound == ASSUME Registry!ConstantsOK PROVE Spec => []InfoSound
  <1> DEFINE I == part = "registry" => InfoInv /\ FreshInv
  <1>1. Init => I
    BY PartInits, InfoInit, InitFresh
  <1>2. I /\ [Next]_vars => I'
    <2> SUFFICES ASSUME I, [Next]_vars PROVE I'
      OBVIOUS
    <2>1. part' = part /\ (part = "registry" => [Registry!Next]_Registry!vars)
      BY PartSteps
    <2> QED BY <2>1, InfoNext, NextFresh
  <1>3. I => InfoSound
    BY DEF InfoInv, FreshInv, AllFresh, Fresh, InfoSound, Registry!OrderlyReloadIsFresh,
           Registry!ReloadIsFresh
  <1> HIDE DEF I
  <1> QED BY <1>1, <1>2, <1>3, PTL DEF Spec

(* A task that fails or panics while it has the permit of update_queue     *)
(* passes it on, and nobody else loses his turn (npm/resolution/mod.rs).   *)
THEOREM PermitIsPassedOn == Spec => []PermitPassedOn
  <1> DEFINE I == part = "resolution" => Solve!PermitInv
  <1>1. Init => I
    BY PartInits, SameResolution, Solve!PermitInit
  <1>2. I /\ [Next]_vars => I'
    <2> SUFFICES ASSUME I, [Next]_vars PROVE I'
      OBVIOUS
    <2>1. part' = part /\ (part = "resolution" => [Solve!Next]_Solve!vars)
      BY PartSteps, SameResolution
    <2> QED BY <2>1, Solve!PermitNext
  <1>3. I => PermitPassedOn
    BY SameSnapshots, Solve!PermitHolds DEF PermitPassedOn
  <1> HIDE DEF I
  <1> QED BY <1>1, <1>2, <1>3, PTL DEF Spec

(* SnapshotWhole, AddedResolve and LockfileLoads of NpmResolution for any  *)
(* tasks, registry and lockfile: whatever resolutions, requirements of     *)
(* package.json and failed requests come between, the snapshot that is     *)
(* read has no dangling identifiers and leads to versions that were asked  *)
(* for, what add_package_reqs has added resolves, and the lockfile names   *)
(* nothing that it does not have (npm/resolution/mod.rs, graph.rs).        *)
THEOREM SnapshotIsSound ==
  ASSUME \A k \in TaskCases : Resolution!CaseOK(k)
  PROVE  Spec => []SnapshotSound
  <1> DEFINE I == part = "resolution" => Solve!PermitInv /\ Solve!SnapshotInv
  <1>0. \A k \in TaskCases : Solve!CaseOK(k)
    BY SameLocks
  <1>1. Init => I
    <2> SUFFICES ASSUME Init, part = "resolution" PROVE Solve!PermitInv /\ Solve!SnapshotInv
      OBVIOUS
    <2>1. Solve!Init
      BY PartInits, SameResolution
    <2> QED BY <1>0, <2>1, Solve!PermitInit, Solve!SnapshotInit
  <1>2. I /\ [Next]_vars => I'
    <2> SUFFICES ASSUME I, [Next]_vars PROVE I'
      OBVIOUS
    <2>1. part' = part /\ (part = "resolution" => [Solve!Next]_Solve!vars)
      BY PartSteps, SameResolution
    <2> QED BY <1>0, <2>1, Solve!PermitNext, Solve!SnapshotNext
  <1>3. I => SnapshotSound
    BY SameSnapshots, Solve!SnapshotHolds DEF SnapshotSound
  <1> HIDE DEF I
  <1> QED BY <1>1, <1>2, <1>3, PTL DEF Spec

(* IdentifiersReadBack and FoldersApart of NpmNames for any names,         *)
(* versions and identifiers, however deep the peers of an identifier are:  *)
(* from_serialized reads what as_serialized writes in the lockfile, a      *)
(* module of the global cache is found to be of the package whose folder   *)
(* it is in, and no two packages or copies have a folder in common         *)
(* (npm/resolution/mod.rs, npm/cache.rs, npm/resolvers/local.rs).          *)
THEOREM NamesAreSound == ASSUME Names!ConstantsOK PROVE Spec => []NamesSound
  <1> DEFINE I == part = "names" => Texts!Kept
  <1>0. Texts!ConstantsOK
    BY SameNames
  <1>1. Init => I
    BY PartInits, SameNames, Texts!KeptInit
  <1>2. I /\ [Next]_vars => I'
    <2> SUFFICES ASSUME I, [Next]_vars PROVE I'
      OBVIOUS
    <2>1. part' = part /\ (part = "names" => [Texts!Next]_Texts!vars)
      BY PartSteps, SameNameSteps
    <2> QED BY <1>0, <2>1, Texts!KeptNext
  <1>3. I => NamesSound
    BY <1>0, SameNames, Texts!KeptHolds DEF NamesSound
  <1> HIDE DEF I
  <1> QED BY <1>1, <1>2, <1>3, PTL DEF Spec

(* CacheWhole, ModulesWhole and OncePerRun of NpmFiles, in the cases of    *)
(* Stands.  Of programs that are at work one at a time: a folder without   *)
(* .deno_sync_lock is whole, so is one with .initialized but where it is   *)
(* written again.  Of programs that fill the global cache at once, and are *)
(* not killed at it: the folder of a package is whole when none of them is *)
(* at it any more.  And nothing is downloaded twice in a run (npm/cache.rs,*)
(* npm/tarball.rs and npm/resolvers/local.rs).  Nothing is said of kills   *)
(* between a folder and its lock file or while a folder is removed, nor of *)
(* copies made while another program fills the cache.                      *)
THEOREM FoldersAreSound ==
  ASSUME Folders!ConstantsOK, \A k \in FolderCases : Folders!Stands(k)
  PROVE  Spec => []FoldersSound
  <1> DEFINE I == part = "folders" => Whole!CaseInv
  <1>0. Whole!CasesOK
    BY SameFolders DEF Whole!CasesOK
  <1>1. Init => I
    BY <1>0, PartInits, SameFolderNext, Whole!CaseInit
  <1>2. I /\ [Next]_vars => I'
    <2> SUFFICES ASSUME I, [Next]_vars PROVE I'
      OBVIOUS
    <2>1. part' = part /\ (part = "folders" => [Folders!Next]_Folders!vars)
      BY PartSteps
    <2> QED BY <1>0, <2>1, SameFolderNext, Whole!CaseNext
  <1>3. I => FoldersSound
    BY <1>0, SameWhole, Whole!CaseSound DEF FoldersSound
  <1> HIDE DEF I
  <1> QED BY <1>1, <1>2, <1>3, PTL DEF Spec

(* DoneWhole of NpmFiles, in the cases of Stands: when cache_packages      *)
(* returns without an error, all packages and copies are whole and in      *)
(* place, or, in node_modules, about to be written again; where programs   *)
(* fill the global cache at once, a package is whole or another of them is *)
(* still at it.                                                            *)
THEOREM DoneIsWhole ==
  ASSUME Folders!ConstantsOK, \A k \in FolderCases : Folders!Stands(k)
  PROVE  Spec => DoneWhole
  <1> DEFINE I == part = "folders" => Whole!CaseInv
  <1>0. Whole!CasesOK
    BY SameFolders DEF Whole!CasesOK
  <1>1. Init => I
    BY <1>0, PartInits, SameFolderNext, Whole!CaseInit
  <1>2. I /\ [Next]_vars => I'
    <2> SUFFICES ASSUME I, [Next]_vars PROVE I'
      OBVIOUS
    <2>1. part' = part /\ (part = "folders" => [Folders!Next]_Folders!vars)
      BY PartSteps
    <2> QED BY <1>0, <2>1, SameFolderNext, Whole!CaseNext
  <1>3. I /\ [Next]_vars => [part = "folders" => Folders!DoneStep]_vars
    <2> SUFFICES ASSUME I, [Next]_vars, part = "folders", vars' # vars PROVE Folders!DoneStep
      OBVIOUS
    <2>1. [Whole!Next]_Whole!vars
      BY PartSteps, SameFolderNext
    <2>2. [Whole!DoneStep]_Whole!vars
      BY <1>0, <2>1, Whole!CaseDone
    <2>3. CASE Whole!DoneStep
      BY <2>3, SameWhole
    <2>4. CASE UNCHANGED Whole!vars
      <3>1. program' = program
        BY <2>4 DEF Whole!vars
      <3> QED BY <3>1 DEF Folders!DoneStep
    <2> QED BY <2>2, <2>3, <2>4
  <1> HIDE DEF I
  <1> QED BY <1>1, <1>2, <1>3, PTL DEF Spec, DoneWhole

(* ResolutionSound, ReexportsComplete and DeclaredOnce of NodeResolve: a   *)
(* file that an import or an npm reference means is there, but where a     *)
(* package.json or the reference names it and nobody looks; the            *)
(* translation of a CommonJS module exports what the files it reexports in *)
(* any number of steps export, each under an identifier of its own unless  *)
(* an export is called like one of the translation's, for any files and    *)
(* packages and requests of which no two mean different files by one text  *)
(* (node_resolve and translate_cjs_to_esm of node/mod.rs).                 *)
THEOREM NodeIsSound ==
  ASSUME \A k \in NodeCases : Node!CaseOK(k)
  PROVE  Spec => []NodeSound
  <1> DEFINE I == part = "node" => NodeInv
  <1>0. NodeLike
    BY DEF NodeLike
  <1>1. Init => I
    BY <1>0, PartInits, NodeInit
  <1>2. I /\ [Next]_vars => I'
    <2> SUFFICES ASSUME I, [Next]_vars PROVE I'
      OBVIOUS
    <2>1. part' = part /\ (part = "node" => [Node!Next]_Node!vars)
      BY PartSteps
    <2> QED BY <1>0, <2>1, NodeNext
  <1>3. I => NodeSound
    BY <1>0, NodeFinds DEF NodeSound
  <1> HIDE DEF I
  <1> QED BY <1>1, <1>2, <1>3, PTL DEF Spec

(* SameModules of NpmModules: with links and without, a package finds the  *)
(* same package for each of its dependencies and for its own name; of the  *)
(* packages of any other name it finds a root if one has it, and each root *)
(* is at the top; for any order in which the links are made and any        *)
(* snapshot in which no package depends on one of its own name (steps 3    *)
(* and 4 of sync_resolution_with_fs, and resolve_package_from_package).    *)
THEOREM ModulesAreSame ==
  ASSUME \A k \in Snapshots : Modules!SnapshotOK(k)
  PROVE  Spec => []SameModules
  <1> DEFINE I == part = "modules" => LinksInv
  <1>1. Init => I
    BY PartInits, LinksInit
  <1>2. I /\ [Next]_vars => I'
    <2> SUFFICES ASSUME I, [Next]_vars PROVE I'
      OBVIOUS
    <2>1. part' = part /\ (part = "modules" => [Modules!Next]_Modules!vars)
      BY PartSteps
    <2> QED BY <2>1, LinksNext
  <1>3. I => SameModules
    BY LinksFind DEF SameModules
  <1> HIDE DEF I
  <1> QED BY <1>1, <1>2, <1>3, PTL DEF Spec

(* Collected and Agree of Files: the list is what include names itself and *)
(* what the wanted files and links in reach of its directories lead to, no *)
(* more and no less; without symlinks it has the files that match, are     *)
(* wanted and in reach, whatever the tree, the configuration and the order *)
(* of WalkDir (collect_specifiers of util/fs.rs and matches_specifier of   *)
(* args/config_file.rs).                                                   *)
THEOREM FilesAreFound ==
  ASSUME \A k \in ProjectCases : Project!CaseOK(k)
  PROVE  Spec => []FilesFound
  <1> DEFINE I == part = "project" => WalkInv
  <1>0. CaseLike
    BY DEF CaseLike
  <1>1. Init => I
    BY <1>0, PartInits, WalkInit
  <1>2. I /\ [Next]_vars => I'
    <2> SUFFICES ASSUME I, [Next]_vars PROVE I'
      OBVIOUS
    <2>1. part' = part /\ (part = "project" => [Project!Next]_Project!vars)
      BY PartSteps
    <2> QED BY <1>0, <2>1, WalkNext
  <1>3. I => FilesFound
    BY <1>0, WalkFinds DEF FilesFound
  <1> HIDE DEF I
  <1> QED BY <1>1, <1>2, <1>3, PTL DEF Spec

=============================================================================
