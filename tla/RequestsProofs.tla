--------------------------- MODULE RequestsProofs ---------------------------
(***************************************************************************)
(* What TLAPS proves of the way of a request (Requests): the properties of *)
(* its three parts, each from an invariant of that part.                   *)
(*                                                                         *)
(*   Server       The list of main workers is rotated and an accept costs  *)
(*                its worker a turn.  ServerInv says of every state, with  *)
(*                the accept in progress, how far the shares of two places *)
(*                of the list may be apart (Spread).                       *)
(*   MainWorker   Keeps!Inv of MainWorkerProofs.                           *)
(*   RequestBody  BodyInv: what was got, what is in the channel and what   *)
(*                is still to be written are one body (Continues), and the *)
(*                channel's slots are used before anybody waits            *)
(*                (FillsFirst).                                            *)
(***************************************************************************)
EXTENDS Requests, Sequences, FiniteSetTheorems, TLAPS

-----------------------------------------------------------------------------
(* Server                                                                  *)

\* The finite sets of Server and their sizes are those of the library.
LEMMA SameSets ==
  /\ \A S : Server!IsFiniteSet(S) <=> IsFiniteSet(S)
  /\ \A S : Server!Cardinality(S) = Cardinality(S)
  <1>1. \A S : Server!IsFiniteSet(S) <=> IsFiniteSet(S)
    BY DEF IsFiniteSet, Server!IsFiniteSet
  <1>2. \A S : Server!Cardinality(S) = Cardinality(S)
    BY DEF Cardinality, Server!Cardinality
  <1> QED BY <1>1, <1>2

\* The connections m has, with the accept in progress
Given(m) == Server!Served(m) + (IF accept = m THEN 1 ELSE 0)

Places == 1..Len(MainWorkers)

Listed ==
    /\ txs \in [Places -> Server!Main]
    /\ \A m \in Server!Main : \E i \in Places : txs[i] = m
    /\ \A c \in Conn : conn[c] = "new" => owner[c] = None

Spread ==
    \A i, j \in Places : i < j =>
        /\ Given(txs[i]) <= Given(txs[j]) + errors
        /\ Given(txs[j]) <= Given(txs[i]) + 1 + errors

LastChosen == accept # None => accept = txs[Len(MainWorkers)]

ServerInv == Server!TypeOK /\ Listed /\ Server!Balanced /\ (server = "up" => Spread /\ LastChosen)

\* What the constants of Server are.
LEMMA ServerSizes ==
  ASSUME Server!ConstantsOK
  PROVE  /\ Len(MainWorkers) \in Nat /\ Len(MainWorkers) >= 1 /\ Places # {}
         /\ MainWorkers \in [Places -> Server!Main] /\ MaxErrors \in Nat /\ IsFiniteSet(Conn)
         /\ None \notin Server!Main
         /\ \A m \in Server!Main : \E i \in Places : MainWorkers[i] = m
  BY SameSets DEF Server!ConstantsOK, Places, Server!Main, Server!ToSet

\* A list that is rotated
LEMMA RotatedList ==
  ASSUME Server!ConstantsOK, NEW s \in Seq(Server!Main), Len(s) = Len(MainWorkers)
  PROVE  /\ Server!Rotated(s) \in Seq(Server!Main) /\ Len(Server!Rotated(s)) = Len(s)
         /\ \A i \in Places : Server!Rotated(s)[i] = IF i < Len(s) THEN s[i + 1] ELSE s[1]
         /\ Server!IsInjective(s) => Server!IsInjective(Server!Rotated(s))
  <1>1. Len(s) >= 1 /\ s # <<>> /\ Head(s) = s[1] /\ Head(s) \in Server!Main
    BY ServerSizes
  <1>2. /\ Tail(s) \in Seq(Server!Main) /\ Len(Tail(s)) = Len(s) - 1
        /\ \A i \in 1..(Len(s) - 1) : Tail(s)[i] = s[i + 1]
    BY <1>1
  <1>3. Server!Rotated(s) \in Seq(Server!Main) /\ Len(Server!Rotated(s)) = Len(s)
    BY <1>1, <1>2 DEF Server!Rotated
  <1>4. ASSUME NEW i \in Places PROVE Server!Rotated(s)[i] = IF i < Len(s) THEN s[i + 1] ELSE s[1]
    BY <1>1, <1>2 DEF Server!Rotated, Places
  <1>5. ASSUME Server!IsInjective(s), NEW i \in Places, NEW j \in Places, Server!Rotated(s)[i] = Server!Rotated(s)[j]
        PROVE  i = j
    <2>1. \A k, l \in Places : s[k] = s[l] => k = l
      BY <1>5 DEF Server!IsInjective, Places
    <2>2. i \in Nat /\ j \in Nat /\ i <= Len(s) /\ j <= Len(s) /\ i >= 1 /\ j >= 1 /\ Len(s) \in Nat
      BY DEF Places
    <2>3. (i < Len(s) => i + 1 \in Places) /\ (j < Len(s) => j + 1 \in Places) /\ 1 \in Places
      BY <1>1, <2>2 DEF Places
    <2> QED BY <1>4, <1>5, <2>1, <2>2, <2>3
  <1>6. DOMAIN Server!Rotated(s) = Places
    BY <1>3 DEF Places
  <1>7. Server!IsInjective(s) => Server!IsInjective(Server!Rotated(s))
    BY <1>5, <1>6 DEF Server!IsInjective
  <1> QED BY <1>3, <1>4, <1>7

\* How many connections a main worker has
LEMMA ServedNat ==
  ASSUME Server!ConstantsOK, NEW m PROVE Server!Served(m) \in Nat /\ Given(m) \in Nat
  <1>1. IsFiniteSet({c \in Conn : owner[c] = m})
    BY ServerSizes, FS_Subset
  <1> QED BY <1>1, SameSets, FS_CardinalityType DEF Server!Served, Given

\* A main worker gets one connection more.
LEMMA ServedMore ==
  ASSUME Server!ConstantsOK, NEW c \in Conn, NEW a \in Server!Main, owner \in [Conn -> Server!Main \cup {None}],
         owner[c] = None, owner' = [owner EXCEPT ![c] = a]
  PROVE  \A m \in Server!Main : Server!Served(m)' = IF m = a THEN Server!Served(m) + 1 ELSE Server!Served(m)
  <1> SUFFICES ASSUME NEW m \in Server!Main
               PROVE  Server!Served(m)' = IF m = a THEN Server!Served(m) + 1 ELSE Server!Served(m)
    OBVIOUS
  <1> DEFINE S == {d \in Conn : owner[d] = m}
             T == {d \in Conn : owner'[d] = m}
  <1>1. c \notin S /\ IsFiniteSet(S)
    BY ServerSizes, FS_Subset
  <1>2. CASE m = a
    <2>1. T = S \cup {c}
      BY <1>2
    <2> QED BY <1>1, <1>2, <2>1, SameSets, FS_AddElement DEF Server!Served
  <1>3. CASE m # a
    <2>1. T = S
      BY <1>1, <1>3
    <2> QED BY <1>3, <2>1 DEF Server!Served
  <1> QED BY <1>2, <1>3

\* At first the list is as it was given and nobody has a connection.
LEMMA ServerInitInv == ASSUME Server!ConstantsOK, Server!Init PROVE ServerInv
  <1>1. Server!TypeOK
    BY ServerSizes DEF Server!ConstantsOK, Server!Init, Server!TypeOK
  <1>2. Listed
    BY ServerSizes DEF Server!Init, Listed
  <1>3. \A m \in Server!Main : Server!Served(m) = 0 /\ Given(m) = 0
    <2>1. \A m \in Server!Main : {c \in Conn : owner[c] = m} = {} /\ accept # m
      BY ServerSizes DEF Server!Init
    <2> QED BY <2>1, SameSets, FS_EmptySet DEF Server!Served, Given
  <1>4. \A i \in Places : txs[i] \in Server!Main
    BY <1>2 DEF Listed
  <1>5. errors = 0 /\ accept = None
    BY DEF Server!Init
  <1> QED BY <1>1, <1>2, <1>3, <1>4, <1>5 DEF ServerInv, Server!Balanced, Spread, LastChosen

\* Steps that leave the list, the owners and the accepts
LEMMA ServerQuietStep ==
  ASSUME Server!ConstantsOK, ServerInv, UNCHANGED <<txs, accept, errors, owner>>,
         server' = server, running' \subseteq running,
         conn' \in [Conn -> {"new", "idle", "closed"} \cup Server!RequestStage],
         \A c \in Conn : conn'[c] = "new" => conn[c] = "new"
  PROVE  ServerInv'
  <1>1. Server!TypeOK'
    BY DEF ServerInv, Server!TypeOK
  <1>2. Listed'
    BY DEF ServerInv, Listed
  <1>3. \A m : Server!Served(m)' = Server!Served(m) /\ Given(m)' = Given(m)
    BY DEF Server!Served, Given
  <1> QED BY <1>1, <1>2, <1>3 DEF ServerInv, Server!Balanced, Spread, LastChosen

\* The loop chooses the main worker of the next connection.
LEMMA ChooseInv == ASSUME Server!ConstantsOK, ServerInv, Server!Choose PROVE ServerInv'
  <1> DEFINE L == Len(MainWorkers)
  <1>1. /\ server = "up" /\ accept = None /\ accept' = Head(txs) /\ txs' = Server!Rotated(txs)
        /\ UNCHANGED <<server, errors, owner, conn, running>>
    BY DEF Server!Choose
  <1>2. txs \in Seq(Server!Main) /\ Len(txs) = L /\ Server!IsInjective(txs) /\ errors \in Nat
    BY ServerSizes DEF ServerInv, Server!TypeOK
  <1>3. /\ txs' \in Seq(Server!Main) /\ Len(txs') = L /\ Server!IsInjective(txs')
        /\ \A i \in Places : txs'[i] = IF i < L THEN txs[i + 1] ELSE txs[1]
    BY <1>1, <1>2, RotatedList
  <1>4. L \in Nat /\ L >= 1 /\ L \in Places /\ 1 \in Places /\ Head(txs) = txs[1] /\ txs[1] \in Server!Main
    BY <1>2, ServerSizes DEF Places
  <1>5. Server!TypeOK'
    BY <1>1, <1>3, <1>4 DEF ServerInv, Server!TypeOK
  <1>6. txs' \in [Places -> Server!Main] /\ txs \in [Places -> Server!Main]
    BY <1>2, <1>3 DEF Places
  <1>7. ASSUME NEW m \in Server!Main PROVE \E i \in Places : txs'[i] = m
    <2>1. PICK k \in Places : txs[k] = m
      BY DEF ServerInv, Listed
    <2>2. CASE k = 1
      BY <1>3, <1>4, <2>1, <2>2
    <2>3. CASE k # 1
      <3>1. k - 1 \in Places /\ k - 1 < L /\ (k - 1) + 1 = k
        BY <1>4, <2>3 DEF Places
      <3>2. txs'[k - 1] = txs[k]
        BY <1>3, <3>1
      <3> QED BY <2>1, <3>1, <3>2
    <2> QED BY <2>2, <2>3
  <1>8. Listed'
    BY <1>1, <1>6, <1>7 DEF ServerInv, Listed
  <1>9. PICK h \in Server!Main : h = txs[1]
    BY <1>4
  <1>10. \A m \in Server!Main : Server!Served(m)' = Server!Served(m) /\ Server!Served(m) \in Nat
    BY <1>1, ServedNat DEF Server!Served
  <1>11. \A m \in Server!Main : Given(m)' = IF m = h THEN Given(m) + 1 ELSE Given(m)
    BY <1>1, <1>4, <1>9, <1>10, ServerSizes DEF Given
  <1>12. Spread'
    <2> SUFFICES ASSUME NEW i \in Places, NEW j \in Places, i < j
                 PROVE  /\ (Given(txs[i]) <= Given(txs[j]) + errors)'
                        /\ (Given(txs[j]) <= Given(txs[i]) + 1 + errors)'
      BY DEF Spread
    <2>1. PICK a \in Server!Main, b \in Server!Main : a = txs'[i] /\ b = txs'[j]
      BY <1>6
    <2>2. Given(a)' = Given(txs[i])' /\ Given(b)' = Given(txs[j])'
      BY <2>1 DEF Given, Server!Served
    <2>3. i + 1 \in Places /\ i < L /\ i + 1 > 1 /\ j <= L /\ i \in Nat /\ j \in Nat
      BY <1>4 DEF Places
    <2>4. a = txs[i + 1] /\ a # h
      BY <1>2, <1>3, <1>4, <1>9, <2>1, <2>3 DEF Server!IsInjective, Places
    <2>5. Given(a) \in Nat /\ Given(b) \in Nat /\ errors' = errors
      BY <1>1, ServedNat
    <2>6. CASE j = L
      <3>1. b = h
        BY <1>3, <1>9, <2>1, <2>6
      <3>2. Given(h) <= Given(a) + errors /\ Given(a) <= Given(h) + 1 + errors
        BY <1>1, <1>4, <1>9, <2>3, <2>4 DEF ServerInv, Spread
      <3>3. Given(a)' = Given(a) /\ Given(b)' = Given(b) + 1
        BY <1>11, <2>4, <3>1
      <3>4. Given(a)' <= Given(b)' + errors' /\ Given(b)' <= Given(a)' + 1 + errors'
        BY <1>2, <2>5, <3>1, <3>2, <3>3
      <3> QED BY <2>2, <3>4
    <2>7. CASE j # L
      <3>1. j + 1 \in Places /\ j < L /\ i + 1 < j + 1
        BY <1>4, <2>3, <2>7 DEF Places
      <3>2. b = txs[j + 1] /\ b # h
        BY <1>2, <1>3, <1>4, <1>9, <2>1, <2>3, <3>1 DEF Server!IsInjective, Places
      <3>3. Given(a) <= Given(b) + errors /\ Given(b) <= Given(a) + 1 + errors
        BY <1>1, <2>3, <2>4, <3>1, <3>2 DEF ServerInv, Spread
      <3>4. Given(a)' = Given(a) /\ Given(b)' = Given(b)
        BY <1>11, <2>4, <3>2
      <3>5. Given(a)' <= Given(b)' + errors' /\ Given(b)' <= Given(a)' + 1 + errors'
        BY <2>5, <3>3, <3>4
      <3> QED BY <2>2, <3>5
    <2> QED BY <2>6, <2>7
  <1>13. LastChosen'
    BY <1>1, <1>3, <1>4 DEF LastChosen
  <1> QED BY <1>1, <1>5, <1>8, <1>10, <1>12, <1>13 DEF ServerInv, Server!Balanced

\* A step that changes nobody's share, or takes an accept back as a failure
LEMMA SharesKept ==
  ASSUME Server!ConstantsOK, ServerInv, server = "up", txs' = txs, accept' = None,
         errors' \in Nat,
         \A m \in Server!Main : Given(m)' \in Nat /\
             \/ Given(m)' = Given(m) /\ errors' >= errors
             \/ m = accept /\ Given(m) = Given(m)' + 1 /\ errors' = errors + 1
  PROVE  (Spread /\ LastChosen)'
  <1>1. txs \in [Places -> Server!Main] /\ errors \in Nat
    BY ServerSizes DEF ServerInv, Listed, Server!TypeOK
  <1>2. ASSUME NEW i \in Places, NEW j \in Places, i < j
        PROVE  /\ (Given(txs[i]) <= Given(txs[j]) + errors)'
               /\ (Given(txs[j]) <= Given(txs[i]) + 1 + errors)'
    <2>1. PICK a \in Server!Main, b \in Server!Main : a = txs[i] /\ b = txs[j]
      BY <1>1
    <2>2. Given(a)' = Given(txs[i])' /\ Given(b)' = Given(txs[j])'
      BY <2>1 DEF Given, Server!Served
    <2>3. Given(a) \in Nat /\ Given(b) \in Nat
      BY ServedNat
    <2>4. Given(a) <= Given(b) + errors /\ Given(b) <= Given(a) + 1 + errors
      BY <1>2, <2>1 DEF ServerInv, Spread
    <2>5. a # b
      <3>1. Server!IsInjective(txs) /\ Len(txs) = Len(MainWorkers) /\ Len(MainWorkers) \in Nat
        BY ServerSizes DEF ServerInv, Server!TypeOK
      <3> QED BY <1>2, <2>1, <3>1 DEF Server!IsInjective, Places
    <2>6. Given(a)' <= Given(b)' + errors' /\ Given(b)' <= Given(a)' + 1 + errors'
      BY <1>1, <2>3, <2>4, <2>5
    <2> QED BY <2>2, <2>6
  <1> QED BY <1>2 DEF Spread, LastChosen

\* A connection gets the main worker that was chosen.
LEMMA AcceptInv == ASSUME Server!ConstantsOK, ServerInv, NEW c \in Conn, Server!Accept(c) PROVE ServerInv'
  <1>1. /\ server = "up" /\ accept # None /\ conn[c] = "new"
        /\ conn' = [conn EXCEPT ![c] = "idle"] /\ owner' = [owner EXCEPT ![c] = accept]
        /\ accept' = None /\ UNCHANGED <<server, txs, errors, running>>
    BY DEF Server!Accept
  <1>2. /\ owner \in [Conn -> Server!Main \cup {None}] /\ accept \in Server!Main /\ owner[c] = None /\ errors \in Nat
        /\ conn \in [Conn -> {"new", "idle", "closed"} \cup Server!RequestStage]
    <2>1. /\ accept \in Server!Main /\ owner \in [Conn -> Server!Main \cup {None}]
          /\ conn \in [Conn -> {"new", "idle", "closed"} \cup Server!RequestStage]
      BY <1>1 DEF ServerInv, Server!TypeOK
    <2>2. owner[c] = None
      BY <1>1 DEF ServerInv, Listed
    <2>3. errors \in Nat
      BY ServerSizes DEF ServerInv, Server!TypeOK
    <2> QED BY <2>1, <2>2, <2>3
  <1>3. PICK a \in Server!Main : a = accept
    BY <1>2
  <1>4. \A m \in Server!Main : Server!Served(m)' = IF m = a THEN Server!Served(m) + 1 ELSE Server!Served(m)
    BY <1>1, <1>2, <1>3, ServedMore
  <1>5. \A m \in Server!Main : Given(m)' = Given(m) /\ Given(m) \in Nat
    BY <1>1, <1>3, <1>4, ServerSizes, ServedNat DEF Given
  <1>6. Server!TypeOK'
    BY <1>1, <1>2 DEF ServerInv, Server!TypeOK
  <1>7. Listed'
    <2>1. \A d \in Conn : conn'[d] = "new" => conn[d] = "new" /\ owner'[d] = owner[d]
      BY <1>1, <1>2
    <2> QED BY <1>1, <2>1 DEF ServerInv, Listed
  <1>8. (Spread /\ LastChosen)'
    BY <1>1, <1>2, <1>5, SharesKept
  <1>9. Server!Balanced'
    <2>1. \A m, n \in Server!Main : (Server!Served(m) <= Server!Served(n) + 1 + errors)'
      <3> SUFFICES ASSUME NEW m \in Server!Main, NEW n \in Server!Main PROVE (Server!Served(m) <= Server!Served(n) + 1 + errors)'
        OBVIOUS
      <3>1. Server!Served(m)' \in Nat /\ Server!Served(n)' \in Nat
        BY <1>4, ServedNat
      <3>2. Given(m)' = Server!Served(m)' /\ Given(n)' = Server!Served(n)'
        BY <1>1, <1>2, <3>1, ServerSizes DEF Given
      <3>3. PICK i \in Places, j \in Places : txs[i] = m /\ txs[j] = n
        BY DEF ServerInv, Listed
      <3>4. Given(m) <= Given(n) + 1 + errors
        <4>1. i \in Nat /\ j \in Nat
          BY DEF Places
        <4>2. Given(m) \in Nat /\ Given(n) \in Nat
          BY ServedNat
        <4>3. CASE i = j
          BY <1>2, <3>3, <4>2, <4>3
        <4>4. CASE i < j \/ j < i
          BY <1>1, <1>2, <3>3, <4>2, <4>4 DEF ServerInv, Spread
        <4> QED BY <4>1, <4>3, <4>4
      <3> QED BY <1>1, <1>5, <3>2, <3>4
    <2> QED BY <2>1 DEF Server!Balanced
  <1> QED BY <1>1, <1>6, <1>7, <1>8, <1>9 DEF ServerInv

\* A failing accept costs the chosen main worker its turn.
LEMMA FailsInv == ASSUME Server!ConstantsOK, ServerInv, Server!AcceptFails PROVE ServerInv'
  <1>1. /\ server = "up" /\ accept # None /\ errors < MaxErrors /\ errors' = errors + 1 /\ accept' = None
        /\ UNCHANGED <<server, txs, owner, conn, running>>
    BY DEF Server!AcceptFails
  <1>2. errors \in Nat /\ MaxErrors \in Nat
    BY ServerSizes DEF ServerInv, Server!TypeOK
  <1>3. Server!TypeOK'
    BY <1>1, <1>2, ServerSizes DEF ServerInv, Server!TypeOK
  <1>4. Listed'
    BY <1>1 DEF ServerInv, Listed
  <1>5. \A m \in Server!Main : Server!Served(m)' = Server!Served(m) /\ Server!Served(m) \in Nat /\ Given(m) \in Nat
    BY <1>1, ServedNat DEF Server!Served
  <1>6. \A m \in Server!Main : Given(m)' = Server!Served(m) /\ Given(m) = Server!Served(m) + (IF accept = m THEN 1 ELSE 0)
    BY <1>1, <1>5, ServerSizes DEF Given
  <1>7. \A m \in Server!Main : Given(m)' \in Nat /\
           \/ Given(m)' = Given(m) /\ errors' >= errors
           \/ m = accept /\ Given(m) = Given(m)' + 1 /\ errors' = errors + 1
    BY <1>1, <1>2, <1>5, <1>6
  <1>8. (Spread /\ LastChosen)'
    BY <1>1, <1>2, <1>7, SharesKept
  <1>9. Server!Balanced'
    BY <1>1, <1>2, <1>5 DEF ServerInv, Server!Balanced
  <1> QED BY <1>1, <1>3, <1>4, <1>8, <1>9 DEF ServerInv

\* Ctrl-C
LEMMA CtrlCInv == ASSUME Server!ConstantsOK, ServerInv, Server!CtrlC PROVE ServerInv'
  <1>1. /\ server' = "stopped" /\ accept' = None /\ running' = {}
        /\ conn' = [c \in Conn |-> IF conn[c] = "new" THEN "new" ELSE "closed"]
        /\ UNCHANGED <<txs, errors, owner>>
    BY DEF Server!CtrlC
  <1>2. Server!TypeOK'
    BY <1>1 DEF ServerInv, Server!TypeOK
  <1>3. Listed'
    BY <1>1 DEF ServerInv, Listed
  <1>4. Server!Balanced'
    BY <1>1 DEF ServerInv, Server!Balanced, Server!Served
  <1> QED BY <1>1, <1>2, <1>3, <1>4 DEF ServerInv

\* A request moves on.
LEMMA MovedInv ==
  ASSUME Server!ConstantsOK, ServerInv, NEW c \in Conn, NEW from, NEW to \in {"idle", "closed"} \cup Server!RequestStage,
         Server!Moved(c, from, to)
  PROVE  ServerInv'
  <1>1. /\ conn' = [conn EXCEPT ![c] = to]
        /\ UNCHANGED <<server, txs, accept, errors, owner, running>>
    BY DEF Server!Moved
  <1>2. conn \in [Conn -> {"new", "idle", "closed"} \cup Server!RequestStage]
    BY DEF ServerInv, Server!TypeOK
  <1>3. to # "new"
    BY DEF Server!RequestStage
  <1>4. /\ conn' \in [Conn -> {"new", "idle", "closed"} \cup Server!RequestStage]
        /\ \A d \in Conn : conn'[d] = "new" => conn[d] = "new"
    BY <1>1, <1>2, <1>3
  <1> QED BY <1>1, <1>4, ServerQuietStep

\* Every step of Server keeps ServerInv.
LEMMA ServerNextInv == ASSUME Server!ConstantsOK, ServerInv, [Server!Next]_Server!vars PROVE ServerInv'
  <1>1. conn \in [Conn -> {"new", "idle", "closed"} \cup Server!RequestStage]
    BY DEF ServerInv, Server!TypeOK
  <1>2. CASE UNCHANGED Server!vars
    BY <1>1, <1>2, ServerQuietStep DEF Server!vars
  <1>3. ASSUME NEW c \in Conn, Server!Reject(c) PROVE ServerInv'
    BY <1>2, <1>3 DEF Server!Reject
  <1>4. ASSUME NEW c \in Conn, Server!Forward(c) PROVE ServerInv'
    BY <1>4, MovedInv DEF Server!Forward, Server!RequestStage
  <1>5. ASSUME NEW c \in Conn, Server!ClientCloses(c) PROVE ServerInv'
    BY <1>5, MovedInv DEF Server!ClientCloses
  <1>6. ASSUME NEW c \in Conn, Server!ConnStep(c) PROVE ServerInv'
    <2>1. CASE Server!Dispatch(c)
      BY <2>1, MovedInv DEF Server!Dispatch, Server!RequestStage
    <2>2. CASE Server!Respond(c)
      BY <2>2, MovedInv DEF Server!Respond, Server!RequestStage
    <2>3. CASE Server!Return(c)
      BY <2>3, MovedInv DEF Server!Return
    <2> QED BY <1>6, <2>1, <2>2, <2>3 DEF Server!ConnStep
  <1>7. ASSUME NEW m \in Server!Main, Server!MainEnds(m) PROVE ServerInv'
    <2>1. /\ running' = running \ {m} /\ UNCHANGED <<server, txs, accept, errors, owner>>
          /\ conn' = [c \in Conn |-> IF owner[c] = m /\ conn[c] = "offered" THEN "broken" ELSE conn[c]]
      BY <1>7 DEF Server!MainEnds
    <2>2. /\ conn' \in [Conn -> {"new", "idle", "closed"} \cup Server!RequestStage]
          /\ \A c \in Conn : conn'[c] = "new" => conn[c] = "new"
      BY <1>1, <2>1 DEF Server!RequestStage
    <2> QED BY <2>1, <2>2, ServerQuietStep
  <1>8. CASE Server!Stopped
    BY <1>2, <1>8 DEF Server!Stopped
  <1> QED BY <1>2, <1>3, <1>4, <1>5, <1>6, <1>7, <1>8, ChooseInv, FailsInv, CtrlCInv, AcceptInv DEF Server!Next

\* So it holds at every step.
LEMMA ServerSpecInv == ASSUME Server!ConstantsOK PROVE Server!Spec => []ServerInv
  <1>1. Server!Init => ServerInv
    BY ServerInitInv
  <1>2. ServerInv /\ [Server!Next]_Server!vars => ServerInv'
    BY ServerNextInv
  <1> QED BY <1>1, <1>2, PTL DEF Server!Spec

(* The list of main workers always is a rearrangement of the one the        *)
(* server was started with, and every variable has its type.               *)
THEOREM ServerTypeCorrect == ASSUME Server!ConstantsOK PROVE Server!Spec => []Server!TypeOK
  <1>1. ServerInv => Server!TypeOK
    BY DEF ServerInv
  <1> QED BY <1>1, ServerSpecInv, PTL

(* Connections are spread evenly by listen, whatever accepts fail and      *)
(* whichever main workers end.                                             *)
THEOREM ServerBalanced == ASSUME Server!ConstantsOK PROVE Server!Spec => []Server!Balanced
  <1>1. ServerInv => Server!Balanced
    BY DEF ServerInv
  <1> QED BY <1>1, ServerSpecInv, PTL

-----------------------------------------------------------------------------
(* RequestBody                                                             *)

Positions == 1..Len(channel)

\* The channel continues what the user worker has got.
Continues ==
    conn \in {"none", "reading"} =>
        \A i \in Positions :
            IF channel[i] = EndOfBody THEN i = Len(channel) /\ Len(got) + i = length + 1
            ELSE channel[i] = Len(got) + i

\* The pipe fills the channel before anyone reads from it.
FillsFirst ==
    /\ fetch \in {"idle", "piping"} => /\ conn = "none" /\ written = Len(channel)
                                       /\ \A i \in Positions : channel[i] # EndOfBody
    /\ fetch = "piped" => conn = "none"
    /\ conn = "none" => got = <<>>
    /\ conn \in {"none", "reading"} => ~shutdown

BodyInv == Body!TypeOK /\ Continues /\ FillsFirst /\ Body!BodyWhole

\* At first nothing is on its way.
LEMMA BodyInitInv == Body!ConstantsOK /\ Body!Init => BodyInv
  <1> SUFFICES ASSUME Body!ConstantsOK, Body!Init PROVE BodyInv
    OBVIOUS
  <1>1. length \in Nat
    BY DEF Body!ConstantsOK, Body!Init
  <1>2. channel = <<>> /\ got = <<>> /\ Len(channel) = 0 /\ Positions = {}
    BY DEF Body!Init, Positions
  <1>3. <<>> \in Seq((1..length) \cup {EndOfBody}) /\ <<>> \in Seq(1..length)
    OBVIOUS
  <1>4. 0 <= Capacity /\ 0 \in 0..length /\ 0 \in 0..0
    BY <1>1 DEF Body!ConstantsOK
  <1>5. channel \in Seq((1..length) \cup {EndOfBody}) /\ Len(channel) <= Capacity /\ got \in Seq(1..length)
    BY <1>2, <1>3, <1>4
  <1>6. Body!TypeOK
    BY <1>4, <1>5 DEF Body!Init, Body!TypeOK, Body!FetchState
  <1>7. got = [i \in 1..Len(got) |-> i]
    BY <1>2
  <1> QED BY <1>2, <1>6, <1>7 DEF Body!Init, BodyInv, Continues, FillsFirst, Body!BodyWhole

\* What every state of the program is like.
LEMMA BodyTyped ==
  ASSUME Body!ConstantsOK, BodyInv
  PROVE  /\ length \in Nat /\ arrived \in Nat /\ written \in Nat /\ arrived <= length
         /\ written <= arrived
         /\ channel \in Seq((1..length) \cup {EndOfBody}) /\ Len(channel) \in Nat
         /\ got \in Seq(1..length) /\ Len(got) \in Nat
         /\ EndOfBody \notin Nat /\ Capacity \in Nat
  BY DEF Body!ConstantsOK, BodyInv, Body!TypeOK

\* Steps of the client, and of fetch, that leave the channel and what was got.
LEMMA BodyQuietStep ==
  ASSUME Body!ConstantsOK, BodyInv, Body!TypeOK', UNCHANGED <<length, channel, got>>,
         \/ UNCHANGED <<fetch, conn, written, shutdown>>
         \/ /\ conn' \in {conn, "broken"} /\ UNCHANGED shutdown
            /\ fetch' \notin {"idle", "piping"} /\ (fetch' = "piped" => conn' = "none")
  PROVE  BodyInv'
  BY DEF BodyInv, Continues, FillsFirst, Body!BodyWhole, Positions

LEMMA BodyNextInv == Body!ConstantsOK /\ BodyInv /\ [Body!Next]_Body!vars => BodyInv'
  <1> SUFFICES ASSUME Body!ConstantsOK, BodyInv, [Body!Next]_Body!vars PROVE BodyInv'
    OBVIOUS
  <1> USE BodyTyped
  <1>0. Body!TypeOK
    BY DEF BodyInv
  <1>1. CASE UNCHANGED Body!vars
    BY <1>1 DEF Body!vars, Body!clientVars, Body!streamVars, BodyInv, Body!TypeOK, Continues, FillsFirst, Body!BodyWhole,
                Positions
  <1>2. CASE Body!ClientSends
    <2>1. Body!TypeOK'
      BY <1>0, <1>2 DEF Body!ClientSends, Body!streamVars, Body!TypeOK
    <2> QED BY <1>2, <2>1, BodyQuietStep DEF Body!ClientSends, Body!streamVars
  <1>3. CASE Body!ClientGoes
    <2>1. Body!TypeOK'
      BY <1>0, <1>3 DEF Body!ClientGoes, Body!streamVars, Body!TypeOK
    <2> QED BY <1>3, <2>1, BodyQuietStep DEF Body!ClientGoes, Body!streamVars
  <1>4. CASE Body!Build
    <2>1. Body!TypeOK'
      BY <1>0, <1>4 DEF Body!Build, Body!clientVars, Body!TypeOK, Body!FetchState, Body!HasBody
    <2> QED BY <1>4, <2>1 DEF Body!Build, Body!clientVars, BodyInv, Continues, FillsFirst, Body!BodyWhole, Positions
  <1>5. CASE Body!Write
    <2>1. /\ channel' = Append(channel, written + 1) /\ written' = written + 1
          /\ written + 1 \in 1..length /\ Len(channel) < Capacity /\ written < arrived
          /\ fetch = "piping" /\ fetch' = fetch
          /\ UNCHANGED <<Body!clientVars, sender, receiver, shutdown, conn, got, request>>
      BY <1>5 DEF Body!Write, Body!HasRoom, Body!clientVars
    <2>2. channel' \in Seq((1..length) \cup {EndOfBody}) /\ Len(channel') = Len(channel) + 1
      BY <2>1
    <2>3. Body!TypeOK'
      BY <1>0, <2>1, <2>2 DEF Body!clientVars, Body!TypeOK
    <2>4. conn = "none" /\ written = Len(channel) /\ got = <<>>
          /\ \A i \in Positions : channel[i] # EndOfBody
      BY <2>1 DEF BodyInv, FillsFirst
    <2>5. ASSUME NEW i \in Positions' PROVE channel'[i] = i
      <3>1. CASE i \in Positions
        <4>1. channel'[i] = channel[i]
          BY <2>1, <3>1 DEF Positions
        <4>2. channel[i] = Len(got) + i
          BY <2>4, <3>1 DEF BodyInv, Continues
        <4> QED BY <2>4, <3>1, <4>1, <4>2 DEF Positions
      <3>2. CASE i = Len(channel) + 1
        BY <2>1, <2>4, <3>2
      <3> QED BY <2>2, <3>1, <3>2 DEF Positions
    <2>6. Continues' /\ FillsFirst'
      BY <2>1, <2>2, <2>4, <2>5 DEF Continues, FillsFirst, Positions, BodyInv, Body!clientVars
    <2> QED BY <2>1, <2>3, <2>6 DEF BodyInv, Body!BodyWhole, Body!clientVars
  <1>6. CASE Body!PipeEnds
    <2>1. /\ fetch = "piping" /\ fetch' = "piped" /\ written = length
          /\ sender' = FALSE
          /\ UNCHANGED <<Body!clientVars, written, receiver, shutdown, conn, got, request>>
      BY <1>6 DEF Body!PipeEnds
    <2>2. conn = "none" /\ written = Len(channel) /\ got = <<>> /\ Len(got) = 0
          /\ \A i \in Positions : channel[i] # EndOfBody
      BY <2>1 DEF BodyInv, FillsFirst
    <2>3. CASE channel' = channel
      <3>1. Body!TypeOK'
        BY <1>0, <2>1, <2>3 DEF Body!TypeOK, Body!clientVars, Body!FetchState
      <3> QED BY <2>1, <2>2, <2>3, <3>1, BodyQuietStep DEF Body!clientVars
    <2>4. CASE Body!HasRoom /\ channel' = Append(channel, EndOfBody)
      <3>1. channel' \in Seq((1..length) \cup {EndOfBody}) /\ Len(channel') = Len(channel) + 1
            /\ Len(channel') <= Capacity
        BY <2>4 DEF Body!HasRoom
      <3>2. Body!TypeOK'
        BY <1>0, <2>1, <3>1 DEF Body!TypeOK, Body!clientVars, Body!FetchState
      <3>3. ASSUME NEW i \in Positions'
            PROVE  IF channel'[i] = EndOfBody THEN i = Len(channel') /\ Len(got) + i = length + 1
                   ELSE channel'[i] = Len(got) + i
        <4>1. CASE i \in Positions
          <5>1. channel'[i] = channel[i]
            BY <2>4, <4>1 DEF Positions
          <5>2. channel[i] # EndOfBody /\ channel[i] = Len(got) + i
            BY <2>2, <4>1 DEF BodyInv, Continues
          <5> QED BY <5>1, <5>2
        <4>2. CASE i = Len(channel) + 1
          BY <2>1, <2>2, <2>4, <3>1, <4>2
        <4> QED BY <3>1, <4>1, <4>2 DEF Positions
      <3>4. Continues' /\ FillsFirst'
        BY <2>1, <2>2, <3>3 DEF Continues, FillsFirst, BodyInv, Body!clientVars
      <3> QED BY <2>1, <3>2, <3>4 DEF BodyInv, Body!BodyWhole, Body!clientVars
    <2> QED BY <1>6, <2>3, <2>4 DEF Body!PipeEnds
  <1>7. CASE Body!PipeFails
    <2>1. Body!TypeOK'
      BY <1>0, <1>7 DEF Body!PipeFails, Body!TypeOK, Body!clientVars, Body!FetchState
    <2> QED BY <1>7, <2>1, BodyQuietStep DEF Body!PipeFails, Body!clientVars
  <1>8. CASE Body!FetchSend
    <2>1. /\ fetch = "piped" /\ fetch' \in {"sent", "failed"} /\ request' = FALSE
          /\ UNCHANGED <<Body!clientVars, written, sender, shutdown, got>>
      BY <1>8 DEF Body!FetchSend
    <2>2. conn = "none" /\ got = <<>> /\ Len(got) = 0 /\ ~shutdown
      BY <2>1 DEF BodyInv, FillsFirst
    <2>3. CASE /\ conn' = IF Body!HasBody THEN "reading" ELSE "complete"
               /\ UNCHANGED <<channel, receiver>>
      <3>1. Body!TypeOK'
        BY <1>0, <2>1, <2>3 DEF Body!TypeOK, Body!clientVars, Body!FetchState
      <3>2. Continues' /\ FillsFirst'
        BY <2>1, <2>2, <2>3 DEF BodyInv, Continues, FillsFirst, Body!clientVars, Positions
      <3>3. ~Body!HasBody => Len(got) = length
        BY <2>2 DEF Body!HasBody
      <3> QED BY <2>1, <2>3, <3>1, <3>2, <3>3 DEF BodyInv, Body!BodyWhole, Body!clientVars
    <2>4. CASE channel' = <<>> /\ receiver' = FALSE /\ UNCHANGED conn
      <3>1. <<>> \in Seq((1..length) \cup {EndOfBody}) /\ Len(<<>>) = 0 /\ 0 <= Capacity
        OBVIOUS
      <3>2. Body!TypeOK'
        BY <1>0, <2>1, <2>4, <3>1 DEF Body!TypeOK, Body!clientVars, Body!FetchState
      <3>3. Continues'
        BY <2>1, <2>4, <3>1 DEF Continues, Positions
      <3>4. fetch' = "failed"
        BY <1>8, <2>2, <2>4 DEF Body!FetchSend
      <3>5. FillsFirst' /\ Body!BodyWhole'
        BY <2>1, <2>2, <2>4, <3>4 DEF BodyInv, FillsFirst, Body!BodyWhole, Body!clientVars
      <3> QED BY <3>2, <3>3, <3>5 DEF BodyInv
    <2> QED BY <1>8, <2>3, <2>4 DEF Body!FetchSend
  <1>9. CASE Body!SendFails
    <2>1. Body!TypeOK'
      BY <1>0, <1>9 DEF Body!SendFails, Body!TypeOK, Body!clientVars, Body!streamVars, Body!FetchState
    <2> QED BY <1>9, <2>1, BodyQuietStep DEF Body!SendFails, Body!clientVars, Body!streamVars
  <1>10. CASE Body!PollNext
    <2>1. /\ conn = "reading" /\ UNCHANGED <<Body!clientVars, fetch, written, sender, request>>
      BY <1>10 DEF Body!PollNext
    <2>2. ~shutdown /\ fetch \notin {"idle", "piping", "piped"}
      BY <2>1 DEF BodyInv, FillsFirst
    <2>3. \A i \in Positions :
             IF channel[i] = EndOfBody THEN i = Len(channel) /\ Len(got) + i = length + 1
             ELSE channel[i] = Len(got) + i
      BY <2>1 DEF BodyInv, Continues
    <2>4. ASSUME channel # <<>>
          PROVE  /\ 1 \in Positions /\ Head(channel) = channel[1]
                 /\ Tail(channel) \in Seq((1..length) \cup {EndOfBody})
                 /\ Len(Tail(channel)) = Len(channel) - 1
                 /\ \A i \in 1..Len(Tail(channel)) : Tail(channel)[i] = channel[i + 1]
      BY <2>4 DEF Positions
    <2>5. CASE /\ channel # <<>> /\ Head(channel) = EndOfBody /\ channel' = Tail(channel)
               /\ shutdown' = TRUE /\ conn' = "complete" /\ UNCHANGED <<got, receiver>>
      <3>1. Body!TypeOK'
        BY <1>0, <2>1, <2>4, <2>5 DEF Body!TypeOK, Body!clientVars
      <3>2. Len(got) + 1 = length + 1
        BY <2>3, <2>4, <2>5
      <3>3. Continues' /\ FillsFirst'
        BY <2>1, <2>2, <2>5 DEF Continues, FillsFirst
      <3>4. Body!BodyWhole'
        BY <2>1, <2>5, <3>2 DEF BodyInv, Body!BodyWhole, Body!clientVars
      <3> QED BY <3>1, <3>3, <3>4 DEF BodyInv
    <2>6. CASE /\ channel # <<>> /\ Head(channel) # EndOfBody /\ channel' = Tail(channel)
               /\ got' = Append(got, Head(channel)) /\ UNCHANGED shutdown
               /\ IF framing = "content-length" /\ Len(got) + 1 = length
                  THEN conn' = "complete" /\ receiver' = FALSE
                  ELSE UNCHANGED <<conn, receiver>>
      <3>1. Head(channel) = Len(got) + 1 /\ Head(channel) \in 1..length
        BY <2>3, <2>4, <2>6
      <3>2. /\ got' \in Seq(1..length) /\ Len(got') = Len(got) + 1
            /\ got' = [i \in 1..Len(got') |-> i]
        <4>1. got' \in Seq(1..length) /\ Len(got') = Len(got) + 1
          BY <2>6, <3>1
        <4>2. got = [i \in 1..Len(got) |-> i]
          BY DEF BodyInv, Body!BodyWhole
        <4>3. \A i \in 1..Len(got') : got'[i] = i
          <5>1. ASSUME NEW i \in 1..Len(got') PROVE got'[i] = i
            <6>1. CASE i \in 1..Len(got)
              BY <2>6, <4>2, <6>1
            <6>2. CASE i = Len(got) + 1
              BY <2>6, <3>1, <6>2
            <6> QED BY <4>1, <6>1, <6>2
          <5> QED BY <5>1
        <4>4. got' = [i \in 1..Len(got') |-> got'[i]]
          BY <4>1
        <4> QED BY <4>1, <4>3, <4>4
      <3>3. Body!TypeOK'
        <4>1. channel' \in Seq((1..length) \cup {EndOfBody}) /\ Len(channel') <= Capacity
          BY <1>0, <2>4, <2>6 DEF Body!TypeOK
        <4>2. conn' \in {"reading", "complete"}
          BY <2>1, <2>6
        <4>3. receiver' \in BOOLEAN
          BY <1>0, <2>6 DEF Body!TypeOK
        <4> QED BY <1>0, <2>1, <2>6, <3>2, <4>1, <4>2, <4>3 DEF Body!TypeOK, Body!clientVars
      <3>4. ASSUME NEW i \in Positions'
            PROVE  IF channel'[i] = EndOfBody
                   THEN i = Len(channel') /\ Len(got') + i = length + 1
                   ELSE channel'[i] = Len(got') + i
        <4>1. i + 1 \in Positions /\ channel'[i] = channel[i + 1] /\ i \in Nat
          BY <2>4, <2>6 DEF Positions
        <4>2. IF channel[i + 1] = EndOfBody
              THEN i + 1 = Len(channel) /\ Len(got) + (i + 1) = length + 1
              ELSE channel[i + 1] = Len(got) + (i + 1)
          BY <2>3, <4>1
        <4>3. Len(channel') = Len(channel) - 1 /\ Len(got') = Len(got) + 1
          BY <2>4, <2>6, <3>2
        <4>4. Len(got) + (i + 1) = Len(got') + i
          BY <4>1, <4>3
        <4>5. CASE channel[i + 1] = EndOfBody
          <5>1. i + 1 = Len(channel) /\ Len(got') + i = length + 1
            BY <4>2, <4>4, <4>5
          <5>2. i = Len(channel')
            BY <4>1, <4>3, <5>1
          <5> QED BY <4>1, <4>5, <5>1, <5>2
        <4>6. CASE channel[i + 1] # EndOfBody
          BY <4>1, <4>2, <4>4, <4>6
        <4> QED BY <4>5, <4>6
      <3>5. Continues' /\ FillsFirst'
        BY <2>1, <2>2, <2>6, <3>4 DEF BodyInv, Continues, FillsFirst, Body!clientVars
      <3>6. Body!BodyWhole'
        BY <2>1, <2>6, <3>2 DEF Body!BodyWhole, Body!clientVars
      <3> QED BY <3>3, <3>5, <3>6 DEF BodyInv
    <2>7. CASE Body!Ends /\ UNCHANGED <<channel, shutdown, got, receiver>>
      <3>1. conn' = "broken"
        BY <2>2, <2>7 DEF Body!Ends
      <3>2. Body!TypeOK'
        BY <1>0, <2>1, <2>7, <3>1 DEF Body!TypeOK, Body!clientVars
      <3> QED BY <2>1, <2>2, <2>7, <3>1, <3>2, BodyQuietStep DEF Body!clientVars
    <2> QED BY <1>10, <2>5, <2>6, <2>7 DEF Body!PollNext
  <1>11. CASE Body!Answer \/ Body!WorkerGoes
    <2>1. /\ fetch' \in {"answered", "failed"} /\ channel' = <<>> /\ receiver' = FALSE
          /\ conn \in {"reading", "complete"} /\ conn' = IF conn = "reading" THEN "broken" ELSE conn
          /\ UNCHANGED <<Body!clientVars, written, sender, shutdown, got, request>>
      BY <1>11 DEF Body!Answer, Body!WorkerGoes
    <2>2. <<>> \in Seq((1..length) \cup {EndOfBody}) /\ Len(<<>>) = 0 /\ 0 <= Capacity
      OBVIOUS
    <2>3. Body!TypeOK'
      BY <1>0, <2>1, <2>2 DEF Body!TypeOK, Body!clientVars, Body!FetchState
    <2>4. Continues' /\ FillsFirst' /\ Body!BodyWhole'
      BY <2>1 DEF BodyInv, Continues, FillsFirst, Body!BodyWhole, Body!clientVars
    <2> QED BY <2>3, <2>4 DEF BodyInv
  <1> QED BY <1>1, <1>2, <1>3, <1>4, <1>5, <1>6, <1>7, <1>8, <1>9, <1>10, <1>11 DEF Body!Next, Body!Step

\* BodyInv holds at every step.
LEMMA BodySpecInv == ASSUME Body!ConstantsOK PROVE Body!Spec => []BodyInv
  <1>1. Body!Init => BodyInv
    BY BodyInitInv
  <1>2. BodyInv /\ [Body!Next]_Body!vars => BodyInv'
    BY BodyNextInv
  <1> QED BY <1>1, <1>2, PTL DEF Body!Spec

(* The variables keep their types; in particular the channel never holds   *)
(* more than its capacity and no chunk gets there before the client sent   *)
(* it (MpscByteStream of sb_workers/lib.rs, UserWorker.fetch).             *)
THEOREM BodyTypeCorrect == ASSUME Body!ConstantsOK PROVE Body!Spec => []Body!TypeOK
  <1>1. BodyInv => Body!TypeOK
    BY DEF BodyInv
  <1> QED BY <1>1, BodySpecInv, PTL

(* Whatever client, sink and worker do, a body gets to the user worker in  *)
(* order and without gaps, and one that looks complete to it is            *)
(* (poll_next of sb_core/util/mpsc).                                       *)
THEOREM BodyWholeAlways == ASSUME Body!ConstantsOK PROVE Body!Spec => []Body!BodyWhole
  <1>1. BodyInv => Body!BodyWhole
    BY DEF BodyInv
  <1> QED BY <1>1, BodySpecInv, PTL

-----------------------------------------------------------------------------
(* MainWorker: the proofs are those of MainWorkerProofs, about the same    *)
(* definitions.                                                            *)

Keeps == INSTANCE MainWorkerProofs

\* Sets and sequences
LEMMA SameFinite ==
  /\ \A S : Main!IsFiniteSet(S) <=> Keeps!IsFiniteSet(S)
  /\ \A S : Main!Cardinality(S) = Keeps!Cardinality(S)
  /\ \A s : Main!ToSet(s) = Keeps!ToSet(s)
  /\ \A f : Main!IsInjective(f) <=> Keeps!IsInjective(f)
  <1>1. \A S : Main!IsFiniteSet(S) <=> Keeps!IsFiniteSet(S)
    BY DEF Main!IsFiniteSet, Keeps!IsFiniteSet
  <1>2. \A S : Main!Cardinality(S) = Keeps!Cardinality(S)
    BY DEF Main!Cardinality, Keeps!Cardinality
  <1>3. \A s : Main!ToSet(s) = Keeps!ToSet(s)
    BY DEF Main!ToSet, Keeps!ToSet
  <1>4. \A f : Main!IsInjective(f) <=> Keeps!IsInjective(f)
    BY DEF Main!IsInjective, Keeps!IsInjective
  <1> QED BY <1>1, <1>2, <1>3, <1>4

\* The sequences the actions make
LEMMA SameSequences ==
  /\ \A S : Main!SetToSeq(S) = Keeps!SetToSeq(S)
  /\ \A S, j : Main!Nth(S, j) = Keeps!Nth(S, j)
  /\ \A k, s : Main!Others(k, s) = Keeps!Others(k, s)
  /\ \A s : Main!Rotate(s) = Keeps!Rotate(s)
  <1>1. ASSUME NEW S PROVE Main!SetToSeq(S) = Keeps!SetToSeq(S)
    BY DEF Main!SetToSeq, Keeps!SetToSeq, Main!Cardinality, Keeps!Cardinality,
           Main!IsInjective, Keeps!IsInjective
  <1>2. ASSUME NEW S, NEW j PROVE Main!Nth(S, j) = Keeps!Nth(S, j)
    BY DEF Main!Nth, Keeps!Nth, Main!Cardinality, Keeps!Cardinality
  <1>3. ASSUME NEW k, NEW s PROVE Main!Others(k, s) = Keeps!Others(k, s)
    BY <1>2, SameFinite DEF Main!Others, Keeps!Others
  <1>4. ASSUME NEW s PROVE Main!Rotate(s) = Keeps!Rotate(s)
    BY DEF Main!Rotate, Keeps!Rotate
  <1> QED BY <1>1, <1>2, <1>3, <1>4

\* Operations and their states
LEMMA SameOps ==
  /\ Main!Add = Keeps!Add /\ Main!Op = Keeps!Op /\ Main!Usage = Keeps!Usage
  /\ Main!AddPc = Keeps!AddPc /\ Main!CallPc = Keeps!CallPc /\ Main!Ended = Keeps!Ended
  BY DEF Main!Add, Keeps!Add, Main!Op, Keeps!Op, Main!Usage, Keeps!Usage, Main!AddPc, Keeps!AddPc,
         Main!CallPc, Keeps!CallPc, Main!Ended, Keeps!Ended

\* The constants have to be the same.
LEMMA SameMain == Main!ConstantsOK <=> Keeps!ConstantsOK
  BY SameFinite, SameOps DEF Main!ConstantsOK, Keeps!ConstantsOK

\* What the actions read
LEMMA SameValues ==
  /\ \A p : Main!Workers(p) = Keeps!Workers(p)
  /\ Main!Unused = Keeps!Unused /\ Main!Adds = Keeps!Adds
  /\ \A o : Main!Holding(o) <=> Keeps!Holding(o)
  /\ Main!Fresh = Keeps!Fresh
  /\ Main!Initialized <=> Keeps!Initialized
  /\ \A a : Main!LastOne(a) <=> Keeps!LastOne(a)
  /\ \A c : Main!Exclusive(c) <=> Keeps!Exclusive(c)
  <1>1. \A p : Main!Workers(p) = Keeps!Workers(p)
    BY DEF Main!Workers, Keeps!Workers
  <1>2. /\ Main!Unused = Keeps!Unused /\ Main!Adds = Keeps!Adds
        /\ \A o : Main!Holding(o) <=> Keeps!Holding(o)
        /\ Main!Initialized <=> Keeps!Initialized
        /\ \A a : Main!LastOne(a) <=> Keeps!LastOne(a)
        /\ \A c : Main!Exclusive(c) <=> Keeps!Exclusive(c)
    BY DEF Main!Unused, Keeps!Unused, Main!Adds, Keeps!Adds, Main!Holding, Keeps!Holding,
           Main!Initialized, Keeps!Initialized, Main!LastOne, Keeps!LastOne,
           Main!Exclusive, Keeps!Exclusive
  <1>3. Main!Fresh = Keeps!Fresh
    BY DEF Main!Fresh, Keeps!Fresh, Main!Holding, Keeps!Holding, Main!Op, Keeps!Op, Main!Add, Keeps!Add
  <1> QED BY <1>1, <1>2, <1>3

\* The properties, and the initial states
LEMMA SameTypes ==
  /\ Main!TypeOK <=> Keeps!TypeOK
  /\ Main!NoDuplicateKeys <=> Keeps!NoDuplicateKeys
  /\ Main!RestartKeepsNumber <=> Keeps!RestartKeepsNumber
  /\ Main!Init <=> Keeps!Init
  <1>1. Main!TypeOK <=> Keeps!TypeOK
    BY SameOps DEF Main!TypeOK, Keeps!TypeOK
  <1>2. Main!NoDuplicateKeys <=> Keeps!NoDuplicateKeys
    BY SameFinite, SameValues DEF Main!NoDuplicateKeys, Keeps!NoDuplicateKeys
  <1>3. Main!RestartKeepsNumber <=> Keeps!RestartKeepsNumber
    BY SameValues DEF Main!RestartKeepsNumber, Keeps!RestartKeepsNumber
  <1>4. Main!Init <=> Keeps!Init
    BY SameOps DEF Main!Init, Keeps!Init
  <1> QED BY <1>1, <1>2, <1>3, <1>4

\* What several actions do
LEMMA SameCreates ==
  /\ \A o, w : Main!Created(o, w) <=> Keeps!Created(o, w)
  /\ Main!CreateThrows <=> Keeps!CreateThrows
  /\ Main!Release <=> Keeps!Release
  /\ \A ks : Main!ShutWorkers(ks) <=> Keeps!ShutWorkers(ks)
  <1>1. ASSUME NEW o, NEW w PROVE Main!Created(o, w) <=> Keeps!Created(o, w)
    BY DEF Main!Created, Keeps!Created, Main!Unused, Keeps!Unused
  <1>2. Main!CreateThrows <=> Keeps!CreateThrows
    BY DEF Main!CreateThrows, Keeps!CreateThrows, Main!rustVars, Keeps!rustVars
  <1>3. Main!Release <=> Keeps!Release
    BY DEF Main!Release, Keeps!Release
  <1>4. ASSUME NEW ks PROVE Main!ShutWorkers(ks) <=> Keeps!ShutWorkers(ks)
    BY DEF Main!ShutWorkers, Keeps!ShutWorkers
  <1> QED BY <1>1, <1>2, <1>3, <1>4

\* The steps of an add
LEMMA SameAdds ==
  ASSUME NEW a
  PROVE  /\ \A p, n, r : Main!AddStart(a, p, n, r) <=> Keeps!AddStart(a, p, n, r)
         /\ Main!AddStep(a) <=> Keeps!AddStep(a)
  <1>1. ASSUME NEW p, NEW n, NEW r PROVE Main!AddStart(a, p, n, r) <=> Keeps!AddStart(a, p, n, r)
    BY SameValues DEF Main!AddStart, Keeps!AddStart, Main!rustVars, Keeps!rustVars
  <1>2. Main!Added(a) <=> Keeps!Added(a)
    BY SameCreates, SameValues DEF Main!Added, Keeps!Added
  <1>3. Main!AddFails(a) <=> Keeps!AddFails(a)
    BY SameCreates DEF Main!AddFails, Keeps!AddFails, Main!jsVars, Keeps!jsVars, Main!opVars, Keeps!opVars
  <1> QED BY <1>1, <1>2, <1>3 DEF Main!AddStep, Keeps!AddStep

\* The steps of a request
LEMMA SameCalls ==
  ASSUME NEW c
  PROVE  /\ \A p : Main!Arrive(c, p) <=> Keeps!Arrive(c, p)
         /\ Main!CallStep(c) <=> Keeps!CallStep(c)
  <1> USE DEF Main!jsVars, Keeps!jsVars, Main!opVars, Keeps!opVars, Main!rustVars, Keeps!rustVars
  <1>1. ASSUME NEW p PROVE Main!Arrive(c, p) <=> Keeps!Arrive(c, p)
    BY SameValues DEF Main!Arrive, Keeps!Arrive
  <1>2. Main!Scan(c) <=> Keeps!Scan(c)
    <2>1. {kp \in Worker \X Path : kp[1] \in Main!ToSet(Main!Workers(kp[2])) /\ conf[kp[1]] \in expired}
          = {kp \in Worker \X Path : kp[1] \in Keeps!ToSet(Keeps!Workers(kp[2])) /\ conf[kp[1]] \in expired}
      BY SameFinite, SameValues
    <2> QED BY <2>1, SameValues, SameSequences DEF Main!Scan, Keeps!Scan
  <1>3. Main!Expire(c) <=> Keeps!Expire(c)
    BY SameValues, SameSequences DEF Main!Expire, Keeps!Expire
  <1>4. Main!Restarted(c) <=> Keeps!Restarted(c)
    BY SameCreates DEF Main!Restarted, Keeps!Restarted
  <1>5. Main!GoCold(c) <=> Keeps!GoCold(c)
    BY SameValues DEF Main!GoCold, Keeps!GoCold
  <1>6. Main!ColdCreated(c) <=> Keeps!ColdCreated(c)
    BY SameValues, SameCreates DEF Main!ColdCreated, Keeps!ColdCreated
  <1>7. Main!PickWorker(c) <=> Keeps!PickWorker(c)
    BY SameValues, SameSequences, SameCreates DEF Main!PickWorker, Keeps!PickWorker
  <1>8. Main!CallFails(c) <=> Keeps!CallFails(c)
    BY SameCreates DEF Main!CallFails, Keeps!CallFails
  <1>9. Main!Fetch(c) <=> Keeps!Fetch(c)
    BY DEF Main!Fetch, Keeps!Fetch
  <1> QED BY <1>1, <1>2, <1>3, <1>4, <1>5, <1>6, <1>7, <1>8, <1>9 DEF Main!CallStep, Keeps!CallStep

\* The steps of the pool and of time
LEMMA SameShutdowns ==
  /\ \A k : Main!ShutdownKey(k) <=> Keeps!ShutdownKey(k)
  /\ \A k : Main!LifetimeEnds(k) <=> Keeps!LifetimeEnds(k)
  /\ \A p : Main!ShutdownPath(p) <=> Keeps!ShutdownPath(p)
  /\ \A o : Main!ExpireDate(o) <=> Keeps!ExpireDate(o)
  /\ Main!OutOfKeys <=> Keeps!OutOfKeys
  /\ Main!Idle <=> Keeps!Idle
  <1> USE DEF Main!jsVars, Keeps!jsVars, Main!opVars, Keeps!opVars, Main!rustVars, Keeps!rustVars
  <1>1. \A k : Main!ShutdownKey(k) <=> Keeps!ShutdownKey(k)
    BY SameValues, SameCreates DEF Main!ShutdownKey, Keeps!ShutdownKey
  <1>2. \A k : Main!LifetimeEnds(k) <=> Keeps!LifetimeEnds(k)
    BY DEF Main!LifetimeEnds, Keeps!LifetimeEnds
  <1>3. \A p : Main!ShutdownPath(p) <=> Keeps!ShutdownPath(p)
    BY SameFinite, SameValues, SameCreates DEF Main!ShutdownPath, Keeps!ShutdownPath
  <1>4. \A o : Main!ExpireDate(o) <=> Keeps!ExpireDate(o)
    BY DEF Main!ExpireDate, Keeps!ExpireDate
  <1>5. Main!OutOfKeys <=> Keeps!OutOfKeys
    BY SameValues DEF Main!OutOfKeys, Keeps!OutOfKeys, Main!vars, Keeps!vars
  <1>6. Main!Idle <=> Keeps!Idle
    BY SameOps, SameValues DEF Main!Idle, Keeps!Idle, Main!vars, Keeps!vars
  <1> QED BY <1>1, <1>2, <1>3, <1>4, <1>5, <1>6

\* The next-state relations are the same.
LEMMA SameNext == Main!Next <=> Keeps!Next
  BY SameOps, SameValues, SameAdds, SameCalls, SameShutdowns DEF Main!Next, Keeps!Next, Main!Act, Keeps!Act

-----------------------------------------------------------------------------
(* The three parts                                                         *)

Inv ==
    /\ part = "server" => ServerInv
    /\ part = "main" => Keeps!Inv
    /\ part = "body" => BodyInv

\* The invariant of the part that runs holds at first.
LEMMA InitInv == Init => Inv
  <1> SUFFICES ASSUME Init PROVE Inv
    OBVIOUS
  <1>1. CASE part = "server" /\ Server!Init
    BY <1>1, ConstantsAreOK, ServerInitInv DEF Inv
  <1>2. CASE part = "main" /\ Main!Init
    BY <1>2, ConstantsAreOK, SameMain, SameTypes, Keeps!InitInv DEF Inv
  <1>3. CASE part = "body" /\ Body!Init
    BY <1>3, ConstantsAreOK, BodyInitInv DEF Inv
  <1> QED BY <1>1, <1>2, <1>3 DEF Init

\* The part that runs keeps its invariant.
LEMMA NextInv == Inv /\ [Next]_vars => Inv'
  <1> SUFFICES ASSUME Inv, [Next]_vars PROVE Inv'
    OBVIOUS
  <1>0. part' = part
    BY DEF Next, vars
  <1>1. CASE part = "server"
    <2>1. [Server!Next]_Server!vars
      BY <1>1 DEF Next, vars, OnlyServer, Server!vars
    <2> QED BY <1>0, <1>1, <2>1, ConstantsAreOK, ServerNextInv DEF Inv
  <1>2. CASE part = "main"
    <2>1. CASE Next
      <3>1. Keeps!Next
        BY <1>2, <2>1, SameNext DEF Next
      <3> QED BY <1>0, <1>2, <3>1, ConstantsAreOK, SameMain, Keeps!NextInv DEF Inv
    <2>2. CASE UNCHANGED vars
      <3>1. UNCHANGED Keeps!vars
        BY <2>2 DEF vars, OnlyMain, Keeps!vars, Keeps!jsVars, Keeps!opVars, Keeps!rustVars
      <3> QED BY <1>0, <1>2, <3>1, ConstantsAreOK, SameMain, Keeps!NextInv DEF Inv
    <2> QED BY <2>1, <2>2
  <1>3. CASE part = "body"
    <2>1. [Body!Next]_Body!vars
      BY <1>3 DEF Next, vars, OnlyBody, Body!vars, Body!clientVars, Body!streamVars
    <2> QED BY <1>0, <1>3, <2>1, ConstantsAreOK, BodyNextInv DEF Inv
  <1> QED BY <1>0, <1>1, <1>2, <1>3 DEF Inv

\* So the invariant holds at every step.
LEMMA SpecInv == Spec => []Inv
  BY InitInv, NextInv, PTL DEF Spec

(* Connections are spread evenly by listen (server.rs), whatever accepts   *)
(* fail and whichever main workers end.                                    *)
THEOREM ConnectionsBalanced == Spec => []Balanced
  <1>1. Inv => Balanced
    BY DEF Inv, ServerInv, Balanced
  <1> QED BY <1>1, SpecInv, PTL

(* No worker has two places in the pool, whatever requests, adds, restarts *)
(* and shutdowns overlap; and where only the configuration's workers are   *)
(* added and none fails to start, a path that restarts its workers keeps   *)
(* their number (callWorker and addWorkerToPool, api/main/index.ts).       *)
THEOREM PoolsKept == Spec => []PoolKept
  <1>1. Inv => PoolKept
    BY ConstantsAreOK, SameMain, SameTypes, Keeps!InvHolds DEF Inv, PoolKept
  <1> QED BY <1>1, SpecInv, PTL

(* Whatever client, sink and worker do, a body gets to the user worker in  *)
(* order and without gaps, and one that looks complete to it is            *)
(* (poll_next of sb_core/util/mpsc).                                       *)
THEOREM BodiesWhole == Spec => []BodyWhole
  <1>1. Inv => BodyWhole
    BY DEF Inv, BodyInv, BodyWhole
  <1> QED BY <1>1, SpecInv, PTL

=============================================================================
