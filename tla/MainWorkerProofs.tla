--------------------------- MODULE MainWorkerProofs ---------------------------
(***************************************************************************)
(* What TLAPS proves of the JavaScript of a main worker (MainWorker), for  *)
(* any set of paths, workers, requests and usages.                         *)
(*                                                                         *)
(* That no worker has two places in the pool is not inductive. A worker is *)
(* put into an array, and an array is put into the Map much later, by an   *)
(* operation that was interrupted; so the invariant Safe is about arrays:  *)
(* each holds a worker once (ArraysOK), serves a single path, whether it   *)
(* is in the Map or still in an operation's hands, and holds only workers  *)
(* that were created for that path (PathsApart). This rests on who may be  *)
(* at work on an array: MutexOK (one call at a time is inside) and BegunOK *)
(* (what an operation has once it has begun).                              *)
(*                                                                         *)
(* That a path keeps its number of workers is proved for a server that     *)
(* nobody calls the API of and that can always create a worker (Quiet).    *)
(* The proof counts: an add has added what is no longer left (AddsOK), the *)
(* filtered array of a restart is the path's without the expired worker,   *)
(* which is still there (ExpiredOK), and all workers of a path come from   *)
(* its add (NumbersOK).                                                    *)
(*                                                                         *)
(* The operators that filter, rotate and enumerate sequences come first.   *)
(***************************************************************************)
EXTENDS MainWorker, FiniteSetTheorems, TLAPS

\* Calls inside the mutex
Inside == {"expiring", "restarting", "creating"}

\* A call waits in the mutex or is inside, as the first; it is inside with its JavaScript
\* running unless it awaits a worker.
MutexOK ==
    \A c \in Call :
        /\ pc[c] = "queued" => \E i \in DOMAIN mutex : mutex[i] = c
        /\ pc[c] \in Inside => mutex # <<>> /\ Head(mutex) = c
        /\ running = c <=> pc[c] = "expiring"

\* What is so once an operation has begun.
BegunOK ==
    /\ \A a \in Add :
           /\ pc[a] # "idle" => a \in Adds /\ path[a] \in Path /\ num[a] >= 1
           /\ pc[a] = "adding" => left[a] >= 1 /\ arr[a] \in Array
    /\ \A c \in Call :
           /\ pc[c] # "idle" => Initialized /\ path[c] \in Path
           /\ pc[c] = "restarting" => todo[c] # <<>> /\ arr[c] \in Array

\* An array has a worker once, and its workers were created by operations that have begun.
ArraysOK ==
    /\ \A x \in Array : IsInjective(array[x]) /\ \A i \in DOMAIN array[x] : conf[array[x][i]] # None
    /\ \A w \in Worker : conf[w] # None => pc[conf[w]] # "idle"

\* The path that o holds its array for
For(o) == IF o \in Add THEN path[o] ELSE Head(todo[o])[2]

\* The array x is for path p: in the Map, or with an operation that will put it there.
Serves(x, p) ==
    \/ workerPool[p] = x
    \/ \E o \in Op : Holding(o) /\ arr[o] = x /\ For(o) = p

\* The path that worker w was created for
Home(w) == path[conf[w]]

\* No array serves two paths, and its workers were created for the path it serves.
PathsApart ==
    /\ \A x \in Array : \A p, q \in Path : Serves(x, p) /\ Serves(x, q) => p = q
    /\ \A x \in Array : \A p \in Path :
           Serves(x, p) => \A i \in DOMAIN array[x] : Home(array[x][i]) = p
    /\ \A c \in Call : \A i \in DOMAIN todo[c] :
           conf[todo[c][i][1]] # None /\ Home(todo[c][i][1]) = todo[c][i][2]

Safe == TypeOK /\ MutexOK /\ BegunOK /\ ArraysOK /\ PathsApart

-----------------------------------------------------------------------------
\* Workers can be created, and nobody uses the API.
Quiet == ~usage.mayFail /\ usage.adds = {} /\ usage.shutdowns = {}

Kept(a) == pc[a] = "done" /\ restart[a]

\* Only initializeWorkers adds workers, path after path and before any request.
AddsOK ==
    /\ pool = "serving"
    /\ \A a \in Add :
           /\ pc[a] # "failed"
           /\ pc[a] = "adding" =>
                  /\ \A b \in Add : b # a => pc[b] \in {"idle", "done"}
                  /\ Len(array[arr[a]]) + left[a] = num[a]
                  /\ \A i \in DOMAIN array[arr[a]] : conf[array[arr[a]][i]] = a
           /\ \A b \in Add : a # b /\ pc[a] # "idle" /\ pc[b] # "idle" => path[a] # path[b]
    /\ \A p \in Path : workerPool[p] # None =>
           (\E a \in Add : pc[a] = "done" /\ path[a] = p) \/ \E c \in Call : pc[c] # "idle"

\* The workers of p, as a set
Has(p, w) == \E j \in DOMAIN Workers(p) : Workers(p)[j] = w

\* A call inside the mutex that found workers expired finds them where they were.
ExpiredOK ==
    \A c \in Call :
        /\ pc[c] \in {"expiring", "restarting"} =>
               /\ IsInjective(todo[c])
               /\ \A i \in DOMAIN todo[c], w \in Worker, p \in Path :
                      todo[c][i] = <<w, p>> => Has(p, w)
        /\ pc[c] = "restarting" =>
               \A w \in Worker, p \in Path : Head(todo[c]) = <<w, p>> =>
                   /\ Len(array[arr[c]]) = Len(Workers(p)) - 1
                   /\ \A v \in Worker : v \in ToSet(array[arr[c]]) <=> Has(p, v) /\ v # w
        /\ pc[c] = "creating" => \A a \in Add : Kept(a) => path[c] # path[a]

\* A path whose workers restart has the workers asked for, all of its add.
NumbersOK ==
    \A a \in Add, p \in Path :
        Kept(a) /\ path[a] = p => /\ Len(Workers(p)) = num[a]
                                  /\ \A w \in Worker : Has(p, w) => conf[w] = a

Inv == Safe /\ (Quiet => AddsOK /\ ExpiredOK /\ NumbersOK)

-----------------------------------------------------------------------------
(* Sequences of workers                                                    *)

\* One more worker, which was not there.
LEMMA AppendOnce ==
  ASSUME NEW S, NEW s \in Seq(S), NEW w \in S, IsInjective(s), \A i \in DOMAIN s : s[i] # w
  PROVE  /\ Append(s, w) \in Seq(S) /\ IsInjective(Append(s, w)) /\ Len(Append(s, w)) = Len(s) + 1
         /\ DOMAIN Append(s, w) = 1..(Len(s) + 1) /\ Append(s, w)[Len(s) + 1] = w
         /\ \A i \in DOMAIN s : i \in 1..Len(s) /\ Append(s, w)[i] = s[i]
  <1>1. /\ Append(s, w) \in Seq(S) /\ Len(Append(s, w)) = Len(s) + 1 /\ Len(s) \in Nat
        /\ DOMAIN Append(s, w) = 1..(Len(s) + 1) /\ Append(s, w)[Len(s) + 1] = w
        /\ \A i \in DOMAIN s : i \in 1..Len(s) /\ Append(s, w)[i] = s[i]
    OBVIOUS
  <1>2. ASSUME NEW i \in 1..(Len(s) + 1), NEW j \in 1..(Len(s) + 1), Append(s, w)[i] = Append(s, w)[j]
        PROVE  i = j
    <2>1. \A h \in 1..(Len(s) + 1) : h \in DOMAIN s \/ h = Len(s) + 1
      BY <1>1
    <2> QED BY <1>1, <1>2, <2>1 DEF IsInjective
  <1> QED BY <1>1, <1>2 DEF IsInjective

\* The first to the end: the same workers.
LEMMA RotateOnce ==
  ASSUME NEW S, NEW s \in Seq(S), s # <<>>, IsInjective(s)
  PROVE  /\ Rotate(s) \in Seq(S) /\ IsInjective(Rotate(s)) /\ Len(Rotate(s)) = Len(s)
         /\ Rotate(s) # <<>>
         /\ \A i \in DOMAIN Rotate(s) : \E j \in DOMAIN s : Rotate(s)[i] = s[j]
         /\ \A j \in DOMAIN s : \E i \in DOMAIN Rotate(s) : Rotate(s)[i] = s[j]
  <1> DEFINE t == Rotate(s)
             n == Len(s)
  <1>1. /\ n \in Nat /\ n >= 1 /\ t \in Seq(S) /\ Len(t) = n
        /\ DOMAIN t = 1..n /\ DOMAIN s = 1..n /\ t[n] = s[1]
        /\ \A i \in 1..(n - 1) : t[i] = s[i + 1]
    BY DEF Rotate
  <1> HIDE DEF t
  <1>2. ASSUME NEW i \in DOMAIN t PROVE \E j \in DOMAIN s : t[i] = s[j] /\ (j = i + 1 \/ (i = n /\ j = 1))
    <2>1. CASE i = n
      BY <1>1, <2>1
    <2>2. CASE i # n
      <3>1. i \in 1..(n - 1) /\ i + 1 \in DOMAIN s
        BY <1>1, <2>2
      <3> QED BY <1>1, <3>1
    <2> QED BY <2>1, <2>2
  <1>3. ASSUME NEW j \in DOMAIN s PROVE \E i \in DOMAIN t : t[i] = s[j]
    <2>1. CASE j = 1
      BY <1>1, <2>1
    <2>2. CASE j # 1
      <3>1. j - 1 \in 1..(n - 1) /\ (j - 1) + 1 = j /\ j - 1 \in DOMAIN t
        BY <1>1, <2>2
      <3> QED BY <1>1, <3>1
    <2> QED BY <2>1, <2>2
  <1>4. IsInjective(t)
    <2> SUFFICES ASSUME NEW i \in DOMAIN t, NEW j \in DOMAIN t, t[i] = t[j] PROVE i = j
      BY DEF IsInjective
    <2>1. PICK i2 \in DOMAIN s : t[i] = s[i2] /\ (i2 = i + 1 \/ (i = n /\ i2 = 1))
      BY <1>2
    <2>2. PICK j2 \in DOMAIN s : t[j] = s[j2] /\ (j2 = j + 1 \/ (j = n /\ j2 = 1))
      BY <1>2
    <2>3. i2 = j2
      BY <2>1, <2>2 DEF IsInjective
    <2> QED BY <1>1, <2>1, <2>2, <2>3
  <1>5. t # <<>>
    BY <1>1
  <1> QED BY <1>1, <1>2, <1>3, <1>4, <1>5 DEF t

\* The j-th of a finite set of numbers: for each j there is one.
LEMMA NthOnce ==
  ASSUME NEW S, S \subseteq Nat, IsFiniteSet(S)
  PROVE  /\ Cardinality(S) \in Nat
         /\ \A j \in 1..Cardinality(S) : Nth(S, j) \in S
         /\ \A j, h \in 1..Cardinality(S) : Nth(S, j) = Nth(S, h) => j = h
         /\ \A i \in S : \E j \in 1..Cardinality(S) : Nth(S, j) = i
  <1> DEFINE Low(i) == {h \in S : h <= i}
             n == Cardinality(S)
             rank == [i \in S |-> Cardinality(Low(i))]
  <1>1. n \in Nat
    BY FS_CardinalityType
  <1>2. ASSUME NEW i \in S PROVE rank[i] \in 1..n
    <2>1. Low(i) \subseteq S /\ i \in Low(i)
      OBVIOUS
    <2>2. IsFiniteSet(Low(i)) /\ Cardinality(Low(i)) <= n
      BY <2>1, FS_Subset
    <2>3. Cardinality(Low(i)) \in Nat /\ Cardinality(Low(i)) # 0
      BY <2>1, <2>2, FS_CardinalityType, FS_EmptySet
    <2> QED BY <1>1, <2>2, <2>3
  <1>3. ASSUME NEW i \in S, NEW k \in S, i < k PROVE rank[i] # rank[k]
    <2>1. Low(k) \subseteq S /\ Low(i) \subseteq Low(k) /\ k \in Low(k) /\ k \notin Low(i)
      <3>1. i \in Nat /\ k \in Nat
        OBVIOUS
      <3>2. \A h \in S : h \in Nat /\ (h <= i => h <= k)
        BY <1>3, <3>1
      <3>3. k <= k /\ ~(k <= i)
        BY <1>3, <3>1
      <3> QED BY <3>2, <3>3
    <2>2. IsFiniteSet(Low(k))
      BY <2>1, FS_Subset
    <2>3. Cardinality(Low(k)) = Cardinality(Low(i)) => Low(k) = Low(i)
      BY <2>1, <2>2, FS_Subset
    <2> QED BY <2>1, <2>3
  <1>4. ASSUME NEW i \in S, NEW k \in S, rank[i] = rank[k] PROVE i = k
    BY <1>3, <1>4
  <1>5. rank \in Surjection(S, 1..n)
    <2>1. rank \in Injection(S, 1..n)
      <3> HIDE DEF rank
      <3>1. rank \in [S -> 1..n]
        BY <1>2 DEF rank
      <3> QED BY <1>4, <3>1 DEF Injection, IsInjective
    <2>2. IsFiniteSet(1..n) /\ Cardinality(1..n) = n
      BY <1>1, FS_Interval
    <2> QED BY <2>1, <2>2, FS_Injection
  <1>6. \A j \in 1..n : \E i \in S : rank[i] = j
    BY <1>5 DEF Surjection
  <1>7. \A j \in 1..n : Nth(S, j) \in S /\ rank[Nth(S, j)] = j
    <2> SUFFICES ASSUME NEW j \in 1..n PROVE Nth(S, j) \in S /\ rank[Nth(S, j)] = j
      OBVIOUS
    <2>1. \E i \in S : Cardinality({h \in S : h <= i}) = j
      BY <1>6
    <2>2. Nth(S, j) \in S /\ Cardinality({h \in S : h <= Nth(S, j)}) = j
      BY <2>1 DEF Nth
    <2> QED BY <2>2
  <1> HIDE DEF rank
  <1>8. \A i \in S : Nth(S, rank[i]) = i
    BY <1>2, <1>4, <1>7
  <1> QED BY <1>1, <1>2, <1>7, <1>8

\* What is left of a sequence without k.
LEMMA OthersOnce ==
  ASSUME NEW S, NEW s \in Seq(S), IsInjective(s), NEW k
  PROVE  /\ Others(k, s) \in Seq(S) /\ IsInjective(Others(k, s))
         /\ \A j \in DOMAIN Others(k, s) : Others(k, s)[j] # k /\ \E i \in DOMAIN s : s[i] = Others(k, s)[j]
         /\ \A i \in DOMAIN s : s[i] # k => \E j \in DOMAIN Others(k, s) : Others(k, s)[j] = s[i]
         /\ (\E i \in DOMAIN s : s[i] = k) => Len(Others(k, s)) = Len(s) - 1
  <1> DEFINE kept == {i \in DOMAIN s : s[i] # k}
             m == Cardinality(kept)
             t == [j \in 1..m |-> s[Nth(kept, j)]]
  <1>a. Others(k, s) = t
    BY DEF Others
  <1>b. kept = {i \in DOMAIN s : s[i] # k}
    OBVIOUS
  <1> HIDE DEF kept
  <1>c. m = Cardinality(kept)
    OBVIOUS
  <1> HIDE DEF m
  <1>d. t = [j \in 1..m |-> s[Nth(kept, j)]]
    OBVIOUS
  <1> HIDE DEF t
  <1>1. Len(s) \in Nat /\ DOMAIN s = 1..Len(s)
    OBVIOUS
  <1>2. IsFiniteSet(1..Len(s)) /\ Cardinality(1..Len(s)) = Len(s)
    <2>1. ASSUME NEW n \in Nat PROVE IsFiniteSet(1..n) /\ Cardinality(1..n) = n
      BY FS_Interval
    <2> QED BY <1>1, <2>1
  <1>3. kept \subseteq Nat /\ kept \subseteq 1..Len(s)
    BY <1>1, <1>b
  <1>4. IsFiniteSet(kept)
    BY <1>2, <1>3, FS_Subset
  <1>5. /\ m \in Nat /\ \A j \in 1..m : Nth(kept, j) \in kept
        /\ \A j, h \in 1..m : Nth(kept, j) = Nth(kept, h) => j = h
        /\ \A i \in kept : \E j \in 1..m : Nth(kept, j) = i
    BY <1>3, <1>4, <1>c, NthOnce
  <1>6. DOMAIN t = 1..m /\ \A j \in 1..m : t[j] = s[Nth(kept, j)]
    BY <1>d
  <1>7. \A i \in kept : i \in DOMAIN s /\ s[i] \in S /\ s[i] # k
    BY <1>1, <1>b
  <1>8. \A j \in 1..m : t[j] \in S /\ t[j] # k /\ \E i \in DOMAIN s : s[i] = t[j]
    BY <1>5, <1>6, <1>7
  <1>9. t \in Seq(S) /\ Len(t) = m
    <2>1. t \in [1..m -> S]
      BY <1>6, <1>8, <1>d
    <2> QED BY <1>5, <1>6, <2>1
  <1>10. IsInjective(t)
    <2> SUFFICES ASSUME NEW j \in 1..m, NEW h \in 1..m, t[j] = t[h] PROVE j = h
      BY <1>6 DEF IsInjective
    <2>1. Nth(kept, j) \in DOMAIN s /\ Nth(kept, h) \in DOMAIN s /\ s[Nth(kept, j)] = s[Nth(kept, h)]
      BY <1>5, <1>6, <1>7
    <2>2. Nth(kept, j) = Nth(kept, h)
      BY <2>1 DEF IsInjective
    <2> QED BY <1>5, <2>2
  <1>11. \A i \in DOMAIN s : s[i] # k => \E j \in 1..m : t[j] = s[i]
    <2> SUFFICES ASSUME NEW i \in DOMAIN s, s[i] # k PROVE \E j \in 1..m : t[j] = s[i]
      OBVIOUS
    <2>1. i \in kept
      BY <1>b
    <2> QED BY <1>5, <1>6, <2>1
  <1>12. ASSUME NEW i \in DOMAIN s, s[i] = k PROVE m = Len(s) - 1
    <2>1. kept = (1..Len(s)) \ {i}
      BY <1>1, <1>12, <1>b DEF IsInjective
    <2>2. Cardinality((1..Len(s)) \ {i}) = IF i \in 1..Len(s) THEN Cardinality(1..Len(s)) - 1 ELSE Cardinality(1..Len(s))
      BY <1>2, FS_RemoveElement
    <2> QED BY <1>1, <1>2, <1>12, <1>c, <2>1, <2>2
  <1> QED BY <1>a, <1>6, <1>8, <1>9, <1>10, <1>11, <1>12

\* A finite set in some order
LEMMA InOrder ==
  ASSUME NEW S, IsFiniteSet(S)
  PROVE  /\ SetToSeq(S) \in Seq(S) /\ IsInjective(SetToSeq(S))
  <1>1. Cardinality(S) \in Nat /\ ExistsBijection(1..Cardinality(S), S)
    BY FS_CardinalityType
  <1>2. \E f \in [1..Cardinality(S) -> S] : IsInjective(f)
    BY <1>1 DEF ExistsBijection, Bijection, Injection, IsInjective
  <1>3. SetToSeq(S) \in [1..Cardinality(S) -> S] /\ IsInjective(SetToSeq(S))
    BY <1>2 DEF SetToSeq
  <1> QED BY <1>1, <1>3

\* There is a new array: there are more than paths and operations.
LEMMA FreshIsNew ==
  ASSUME ConstantsOK, TypeOK
  PROVE  /\ Fresh \in Array /\ \A p \in Path : workerPool[p] # Fresh
         /\ \A o \in Op : Holding(o) => arr[o] # Fresh
         /\ Fresh # None
  <1> DEFINE Mapped == {workerPool[p] : p \in Path}
             Held == {arr[o] : o \in Op}
  <1>1. /\ IsFiniteSet(Path) /\ IsFiniteSet(Op)
        /\ IsFiniteSet(Array) => Cardinality(Array) > Cardinality(Path) + Cardinality(Op)
        /\ None \notin Array
    BY DEF ConstantsOK
  <1>2. workerPool \in Surjection(Path, Mapped) /\ arr \in Surjection(Op, Held)
    <2>1. workerPool \in [Path -> Mapped] /\ arr \in [Op -> Held]
      BY DEF TypeOK
    <2> HIDE DEF Mapped, Held
    <2>2. (\A x \in Mapped : \E p \in Path : workerPool[p] = x) /\ (\A x \in Held : \E o \in Op : arr[o] = x)
      BY DEF Mapped, Held
    <2> QED BY <2>1, <2>2 DEF Surjection
  <1> HIDE DEF Mapped, Held
  <1>3. IsFiniteSet(Mapped) /\ Cardinality(Mapped) <= Cardinality(Path)
    BY <1>1, <1>2, FS_Surjection
  <1>4. IsFiniteSet(Held) /\ Cardinality(Held) <= Cardinality(Op)
    BY <1>1, <1>2, FS_Surjection
  <1>5. IsFiniteSet(Mapped \cup Held) /\ Cardinality(Mapped \cup Held) <= Cardinality(Path) + Cardinality(Op)
    <2>1. /\ IsFiniteSet(Mapped \cup Held)
          /\ Cardinality(Mapped \cup Held) = Cardinality(Mapped) + Cardinality(Held) - Cardinality(Mapped \cap Held)
      BY <1>3, <1>4, FS_Union
    <2>2. IsFiniteSet(Mapped \cap Held)
      BY <1>3, FS_Intersection
    <2>3. /\ Cardinality(Mapped) \in Nat /\ Cardinality(Held) \in Nat /\ Cardinality(Mapped \cap Held) \in Nat
          /\ Cardinality(Path) \in Nat /\ Cardinality(Op) \in Nat
      BY <1>1, <1>3, <1>4, <2>2, FS_CardinalityType
    <2> QED BY <1>3, <1>4, <2>1, <2>3
  <1>6. ~(Array \subseteq Mapped \cup Held)
    <2> SUFFICES ASSUME Array \subseteq Mapped \cup Held PROVE FALSE
      OBVIOUS
    <2>1. IsFiniteSet(Array) /\ Cardinality(Array) <= Cardinality(Mapped \cup Held)
      BY <1>5, FS_Subset
    <2>2. Cardinality(Array) \in Nat /\ Cardinality(Mapped \cup Held) \in Nat /\ Cardinality(Path) \in Nat /\ Cardinality(Op) \in Nat
      BY <1>1, <1>5, <2>1, FS_CardinalityType
    <2> QED BY <1>1, <1>5, <2>1, <2>2
  <1>7. PICK x \in Array : x \notin Mapped /\ x \notin Held
    BY <1>6
  <1>8. (\A p \in Path : workerPool[p] # x) /\ (\A o \in Op : Holding(o) => arr[o] # x)
    BY <1>7 DEF Mapped, Held
  <1> QED BY <1>1, <1>8 DEF Fresh

-----------------------------------------------------------------------------
(* Facts the steps share                                                   *)

\* What the usage of a server is made of
LEMMA UsageOK ==
  ASSUME ConstantsOK, TypeOK
  PROVE  /\ usage.paths \subseteq Path /\ usage.asked \subseteq Path /\ usage.keys \subseteq Worker
         /\ usage.init \subseteq InitAdd /\ usage.adds \subseteq ApiAdd /\ Adds \subseteq Add
         /\ usage.most \in 1..MaxAdd /\ usage.restarts \subseteq BOOLEAN
         /\ \A n \in 1..usage.most : n \in Nat /\ n >= 1 /\ n \in 0..MaxAdd
         /\ Add \subseteq Op /\ Call \subseteq Op /\ MaxAdd \in Nat
         /\ \A c \in Call : c \notin Add /\ c # None
         /\ \A o \in Op : o # None
         /\ \A x \in Array : x # None
  <1>1. usage \in Usage
    BY DEF ConstantsOK, TypeOK
  <1>2. /\ usage.paths \in SUBSET Path /\ usage.asked \in SUBSET Path /\ usage.keys \in SUBSET Worker
        /\ usage.init \in SUBSET InitAdd /\ usage.adds \in SUBSET ApiAdd
        /\ usage.most \in 1..MaxAdd /\ usage.restarts \in SUBSET BOOLEAN
    BY <1>1 DEF Usage
  <1>3. MaxAdd \in Nat
    BY DEF ConstantsOK
  <1>4. \A n \in 1..usage.most : n \in Nat /\ n >= 1 /\ n \in 0..MaxAdd
    BY <1>2, <1>3
  <1>5. \A c \in Call : c \notin Add /\ c # None
    BY DEF ConstantsOK, Op
  <1>6. (\A o \in Op : o # None) /\ \A x \in Array : x # None
    BY DEF ConstantsOK
  <1> QED BY <1>2, <1>3, <1>4, <1>5, <1>6 DEF Add, Op, Adds

\* The worker that createWorker returns is new.
LEMMA CreatedNew ==
  ASSUME ConstantsOK, TypeOK, NEW o, NEW w, Created(o, w)
  PROVE  /\ w \in Worker /\ conf[w] = None /\ conf' = [conf EXCEPT ![w] = o]
         /\ pool = "serving" /\ pool' = pool /\ expired' = expired \ {o}
         /\ registered' = registered \cup {w}
  <1>1. w \in Unused
    BY DEF Created
  <1> QED BY <1>1, UsageOK DEF Created, Unused

\* What createWorker does to the types.
LEMMA CreatedTypes ==
  ASSUME ConstantsOK, TypeOK, NEW o \in Op \cup {None}, NEW w, Created(o, w)
  PROVE  /\ conf' \in [Worker -> Op \cup {None}] /\ registered' \subseteq Worker
         /\ expired' \subseteq Op /\ pool' \in {"serving", "gone"}
  <1>1. /\ w \in Worker /\ conf' = [conf EXCEPT ![w] = o] /\ pool' = pool /\ expired' = expired \ {o}
        /\ registered' = registered \cup {w}
    BY CreatedNew
  <1> QED BY <1>1 DEF TypeOK

\* The workers of a path are a sequence of workers, each once.
LEMMA WorkersOnce ==
  ASSUME ConstantsOK, TypeOK, ArraysOK, NEW p \in Path
  PROVE  /\ Workers(p) \in Seq(Worker) /\ IsInjective(Workers(p))
         /\ Workers(p) # <<>> => workerPool[p] \in Array /\ Workers(p) = array[workerPool[p]]
         /\ \A i \in DOMAIN Workers(p) : Workers(p)[i] \in Worker /\ conf[Workers(p)[i]] # None
  <1>1. CASE workerPool[p] = None
    <2>1. Workers(p) = <<>>
      BY <1>1 DEF Workers
    <2>2. <<>> \in Seq(Worker) /\ IsInjective(<<>>) /\ DOMAIN <<>> = {}
      BY DEF IsInjective
    <2> QED BY <2>1, <2>2
  <1>2. CASE workerPool[p] # None
    <2>1. workerPool[p] \in Array
      BY <1>2 DEF TypeOK
    <2>2. array[workerPool[p]] \in Seq(Worker)
      BY <2>1 DEF TypeOK
    <2>3. \A i \in DOMAIN array[workerPool[p]] : array[workerPool[p]][i] \in Worker
      BY <2>2
    <2> QED BY <1>2, <2>1, <2>2, <2>3 DEF Workers, ArraysOK
  <1> QED BY <1>1, <1>2

\* What a call inside the mutex has found to expire
LEMMA TodoOK ==
  ASSUME TypeOK, NEW c \in Call, todo[c] # <<>>
  PROVE  /\ Head(todo[c]) \in Worker \X Path /\ Tail(todo[c]) \in Seq(Worker \X Path)
         /\ Head(todo[c])[1] \in Worker /\ Head(todo[c])[2] \in Path
         /\ 1 \in DOMAIN todo[c] /\ Head(todo[c]) = todo[c][1]
         /\ DOMAIN todo[c] = 1..Len(todo[c]) /\ Len(todo[c]) \in Nat
         /\ \A i \in DOMAIN Tail(todo[c]) : i + 1 \in DOMAIN todo[c] /\ Tail(todo[c])[i] = todo[c][i + 1]
  <1>1. todo[c] \in Seq(Worker \X Path)
    BY DEF TypeOK
  <1>2. Head(todo[c]) \in Worker \X Path
    BY <1>1
  <1> QED BY <1>1, <1>2

\* The expired workers that a call finds, in some order
LEMMA ScanFinds ==
  ASSUME ConstantsOK, NEW S, S \subseteq Worker \X Path
  PROVE  /\ SetToSeq(S) \in Seq(Worker \X Path) /\ IsInjective(SetToSeq(S))
         /\ \A i \in DOMAIN SetToSeq(S) : SetToSeq(S)[i] \in S
  <1>1. IsFiniteSet(Worker \X Path)
    BY FS_Product DEF ConstantsOK
  <1>2. IsFiniteSet(S)
    BY <1>1, FS_Subset
  <1>3. SetToSeq(S) \in Seq(S) /\ IsInjective(SetToSeq(S))
    BY <1>2, InOrder
  <1> HIDE DEF ConstantsOK
  <1>4. \A t \in Seq(S) : t \in Seq(Worker \X Path) /\ \A i \in DOMAIN t : t[i] \in S
    OBVIOUS
  <1> QED BY <1>3, <1>4

-----------------------------------------------------------------------------
(* The steps keep the types                                                *)

\* Every step is one of these.
LEMMA Cases ==
  ASSUME [Next]_vars
  PROVE  /\ usage' = usage
         /\ \/ \E a \in Adds, p \in usage.paths, n \in 1..usage.most, r \in usage.restarts :
                   AddStart(a, p, n, r)
            \/ \E a \in Add : Added(a)
            \/ \E a \in Add : AddFails(a)
            \/ \E c \in Call, p \in usage.asked : Arrive(c, p)
            \/ \E c \in Call : Scan(c)
            \/ \E c \in Call : Expire(c)
            \/ \E c \in Call : Restarted(c)
            \/ \E c \in Call : GoCold(c)
            \/ \E c \in Call : ColdCreated(c)
            \/ \E c \in Call : PickWorker(c)
            \/ \E c \in Call : CallFails(c)
            \/ \E c \in Call : Fetch(c)
            \/ \E k \in Worker : ShutdownKey(k)
            \/ \E k \in Worker : LifetimeEnds(k)
            \/ \E p \in Path : ShutdownPath(p)
            \/ \E o \in Op : ExpireDate(o)
            \/ UNCHANGED vars
  BY DEF Next, Act, AddStep, CallStep, OutOfKeys, Idle, vars

\* Every step keeps the types.
LEMMA NextType ==
  ASSUME ConstantsOK, TypeOK, MutexOK, BegunOK, ArraysOK, [Next]_vars
  PROVE  TypeOK'
  <1>1. ASSUME NEW a \in Adds, NEW p \in usage.paths, NEW n \in 1..usage.most,
               NEW r \in usage.restarts, AddStart(a, p, n, r), usage' = usage
        PROVE  TypeOK'
    <2>1. a \in Add /\ a \in Op /\ p \in Path /\ n \in 0..MaxAdd /\ r \in BOOLEAN /\ Add \subseteq Op
      BY UsageOK
    <2>2. array' \in [Array -> Seq(Worker)] /\ arr' \in [Op -> Array \cup {None}]
      <3>1. CASE Workers(p) # <<>>
        <4>1. workerPool[p] \in Array
          BY <2>1, <3>1, WorkersOnce
        <4> QED BY <1>1, <2>1, <3>1, <4>1 DEF AddStart, TypeOK
      <3>2. CASE Workers(p) = <<>>
        <4>1. Fresh \in Array /\ <<>> \in Seq(Worker)
          BY FreshIsNew
        <4> QED BY <1>1, <2>1, <3>2, <4>1 DEF AddStart, TypeOK
      <3> QED BY <3>1, <3>2
    <2>3. /\ pc' \in [Op -> AddPc \cup CallPc] /\ \A b \in Add : pc'[b] \in AddPc
          /\ \A c \in Call : pc'[c] \in CallPc
      BY <1>1, <2>1, UsageOK DEF AddStart, TypeOK, AddPc
    <2>4. /\ path' \in [Op -> Path \cup {None}] /\ restart' \in [Op -> BOOLEAN]
          /\ left' \in [Add -> 0..MaxAdd] /\ num' \in [Add -> 0..MaxAdd]
      BY <1>1, <2>1 DEF AddStart, TypeOK
    <2>5. usage' \in Usages /\ workerPool' \in [Path -> Array \cup {None}] /\ UNCHANGED <<running, mutex, todo, pick, conf, expired, rustVars>>
      BY <1>1 DEF AddStart, TypeOK
    <2> QED BY <2>2, <2>3, <2>4, <2>5 DEF TypeOK, rustVars
  <1>2. ASSUME NEW a \in Add, Added(a), usage' = usage PROVE TypeOK'
    <2>1. PICK w \in Worker : Created(a, w) /\ array' = [array EXCEPT ![arr[a]] = Append(@, w)]
      BY <1>2 DEF Added
    <2>2. /\ a \in Op /\ conf' \in [Worker -> Op \cup {None}] /\ registered' \subseteq Worker
          /\ expired' \subseteq Op /\ pool' \in {"serving", "gone"}
      BY <2>1, CreatedTypes DEF Op
    <2>3. arr[a] \in Array /\ left[a] >= 1 /\ path[a] \in Path
      BY <1>2 DEF Added, BegunOK
    <2>4. array' \in [Array -> Seq(Worker)]
      <3>1. array[arr[a]] \in Seq(Worker)
        BY <2>3 DEF TypeOK
      <3>2. Append(array[arr[a]], w) \in Seq(Worker)
        BY <3>1
      <3> QED BY <2>1, <3>2 DEF TypeOK
    <2>5. left' \in [Add -> 0..MaxAdd]
      <3>1. left[a] \in 0..MaxAdd /\ left[a] - 1 \in 0..MaxAdd
        BY <2>3, UsageOK DEF TypeOK
      <3> QED BY <1>2, <3>1 DEF Added, TypeOK
    <2>6. /\ workerPool' \in [Path -> Array \cup {None}]
          /\ pc' \in [Op -> AddPc \cup CallPc] /\ \A b \in Add : pc'[b] \in AddPc
          /\ \A c \in Call : pc'[c] \in CallPc
      <3>1. /\ workerPool' = workerPool \/ workerPool' = [workerPool EXCEPT ![path[a]] = arr[a]]
            /\ pc' = pc \/ pc' = [pc EXCEPT ![a] = "done"]
        BY <1>2 DEF Added
      <3>2. workerPool' \in [Path -> Array \cup {None}]
        BY <2>3, <3>1 DEF TypeOK
      <3>3. /\ pc' \in [Op -> AddPc \cup CallPc] /\ \A b \in Add : pc'[b] \in AddPc
            /\ \A c \in Call : pc'[c] \in CallPc
        <4>1. /\ pc \in [Op -> AddPc \cup CallPc] /\ \A b \in Add : pc[b] \in AddPc
              /\ \A c \in Call : pc[c] \in CallPc /\ c # a
          BY UsageOK DEF TypeOK
        <4>2. CASE pc' = pc
          BY <4>1, <4>2
        <4>3. CASE pc' = [pc EXCEPT ![a] = "done"]
          BY <2>2, <4>1, <4>3, UsageOK DEF AddPc
        <4> QED BY <3>1, <4>2, <4>3
      <3> QED BY <3>2, <3>3
    <2>7. usage' \in Usages /\ UNCHANGED <<running, mutex, path, todo, arr, num, pick, restart>>
      BY <1>2 DEF Added, TypeOK
    <2> QED BY <2>2, <2>4, <2>5, <2>6, <2>7 DEF TypeOK
  <1>3. ASSUME NEW a \in Add, AddFails(a), usage' = usage PROVE TypeOK'
    <2>1. /\ pc' \in [Op -> AddPc \cup CallPc] /\ \A b \in Add : pc'[b] \in AddPc
          /\ \A c \in Call : pc'[c] \in CallPc
      BY <1>3, UsageOK DEF AddFails, TypeOK, AddPc
    <2> QED BY <1>3, <2>1 DEF AddFails, CreateThrows, TypeOK, jsVars, opVars, rustVars
  <1>4. ASSUME NEW c \in Call, NEW p \in usage.asked, Arrive(c, p), usage' = usage PROVE TypeOK'
    <2>1. p \in Path /\ c \in Op /\ c \notin Add
      BY UsageOK
    <2>2. /\ pc' \in [Op -> AddPc \cup CallPc] /\ \A b \in Add : pc'[b] \in AddPc
          /\ \A d \in Call : pc'[d] \in CallPc
      BY <1>4, <2>1, UsageOK DEF Arrive, TypeOK, CallPc
    <2>3. path' \in [Op -> Path \cup {None}] /\ mutex' \in Seq(Call)
      BY <1>4, <2>1 DEF Arrive, TypeOK
    <2> QED BY <1>4, <2>2, <2>3 DEF Arrive, TypeOK, jsVars, rustVars
  <1>5. ASSUME NEW c \in Call, Scan(c), usage' = usage PROVE TypeOK'
    <2>1. c \in Op /\ c \notin Add
      BY UsageOK
    <2>2. /\ pc' \in [Op -> AddPc \cup CallPc] /\ \A b \in Add : pc'[b] \in AddPc
          /\ \A d \in Call : pc'[d] \in CallPc
      BY <1>5, <2>1, UsageOK DEF Scan, TypeOK, CallPc
    <2>3. todo' \in [Call -> Seq(Worker \X Path)]
      <3> DEFINE S == {kp \in Worker \X Path : kp[1] \in ToSet(Workers(kp[2])) /\ conf[kp[1]] \in expired}
      <3>1. S \subseteq Worker \X Path /\ todo' = [todo EXCEPT ![c] = SetToSeq(S)]
        BY <1>5 DEF Scan
      <3> HIDE DEF S
      <3>2. SetToSeq(S) \in Seq(Worker \X Path)
        BY <3>1, ScanFinds
      <3> QED BY <3>1, <3>2 DEF TypeOK
    <2> QED BY <1>5, <2>2, <2>3 DEF Scan, TypeOK, jsVars, rustVars
  <1>6. ASSUME NEW c \in Call, Expire(c), usage' = usage PROVE TypeOK'
    <2> DEFINE k == Head(todo[c])[1]
               p == Head(todo[c])[2]
    <2>1. c \in Op /\ c \notin Add /\ k \in Worker /\ p \in Path /\ Tail(todo[c]) \in Seq(Worker \X Path)
      BY <1>6, UsageOK, TodoOK DEF Expire
    <2>2. array' = [array EXCEPT ![Fresh] = Others(k, Workers(p))]
      BY <1>6 DEF Expire
    <2>3. /\ workerPool' = workerPool \/ workerPool' = [workerPool EXCEPT ![p] = Fresh]
          /\ todo' = todo \/ todo' = [todo EXCEPT ![c] = Tail(@)]
          /\ pc' = pc \/ pc' = [pc EXCEPT ![c] = "restarting"]
          /\ arr' = arr \/ arr' = [arr EXCEPT ![c] = Fresh]
          /\ running' \in {running, None}
      BY <1>6 DEF Expire
    <2> HIDE DEF k, p
    <2>4. array' \in [Array -> Seq(Worker)]
      <3>1. Others(k, Workers(p)) \in Seq(Worker)
        BY <2>1, WorkersOnce, OthersOnce
      <3> QED BY <2>2, <3>1, FreshIsNew DEF TypeOK
    <2>5. /\ pc' \in [Op -> AddPc \cup CallPc] /\ \A b \in Add : pc'[b] \in AddPc
          /\ \A d \in Call : pc'[d] \in CallPc
      BY <2>1, <2>3, UsageOK DEF TypeOK, CallPc
    <2>6. /\ workerPool' \in [Path -> Array \cup {None}] /\ arr' \in [Op -> Array \cup {None}]
          /\ todo' \in [Call -> Seq(Worker \X Path)] /\ running' \in Call \cup {None}
      <3>1. Fresh \in Array
        BY FreshIsNew
      <3>2. workerPool' \in [Path -> Array \cup {None}] /\ arr' \in [Op -> Array \cup {None}]
        BY <2>1, <2>3, <3>1 DEF TypeOK
      <3>3. todo' \in [Call -> Seq(Worker \X Path)] /\ running' \in Call \cup {None}
        BY <2>1, <2>3 DEF TypeOK
      <3> QED BY <3>2, <3>3
    <2>7. usage' \in Usages /\ UNCHANGED <<mutex, path, left, num, pick, restart, conf, expired, rustVars>>
      BY <1>6 DEF Expire, TypeOK
    <2> QED BY <2>4, <2>5, <2>6, <2>7 DEF TypeOK, rustVars
  <1>7. ASSUME NEW c \in Call, Restarted(c), usage' = usage PROVE TypeOK'
    <2> DEFINE k == Head(todo[c])[1]
               p == Head(todo[c])[2]
    <2>1. /\ c \in Op /\ c \notin Add /\ k \in Worker /\ p \in Path
          /\ Tail(todo[c]) \in Seq(Worker \X Path) /\ arr[c] \in Array
      BY <1>7, UsageOK, TodoOK DEF Restarted, BegunOK
    <2>2. PICK w \in Worker : Created(conf[k], w) /\ array' = [array EXCEPT ![arr[c]] = Append(@, w)]
      BY <1>7 DEF Restarted
    <2>3. /\ conf' \in [Worker -> Op \cup {None}] /\ registered' \subseteq Worker
          /\ expired' \subseteq Op /\ pool' \in {"serving", "gone"}
      <3>1. conf[k] \in Op \cup {None}
        BY <2>1 DEF TypeOK
      <3> QED BY <2>2, <3>1, CreatedTypes
    <2>4. array' \in [Array -> Seq(Worker)]
      <3>1. array[arr[c]] \in Seq(Worker)
        BY <2>1 DEF TypeOK
      <3>2. Append(array[arr[c]], w) \in Seq(Worker)
        BY <3>1
      <3> QED BY <2>2, <3>2 DEF TypeOK
    <2>5. /\ workerPool' = [workerPool EXCEPT ![p] = arr[c]] /\ todo' = [todo EXCEPT ![c] = Tail(@)]
          /\ pc' = [pc EXCEPT ![c] = "expiring"] /\ running' = c
          /\ UNCHANGED <<mutex, path, arr, left, num, pick, restart>>
      BY <1>7 DEF Restarted
    <2> HIDE DEF k, p
    <2>6. /\ pc' \in [Op -> AddPc \cup CallPc] /\ \A b \in Add : pc'[b] \in AddPc
          /\ \A d \in Call : pc'[d] \in CallPc
      BY <2>1, <2>5, UsageOK DEF TypeOK, CallPc
    <2>7. /\ workerPool' \in [Path -> Array \cup {None}] /\ todo' \in [Call -> Seq(Worker \X Path)]
      BY <2>1, <2>5 DEF TypeOK
    <2> QED BY <1>7, <2>3, <2>4, <2>5, <2>6, <2>7 DEF TypeOK
  <1>8. ASSUME NEW c \in Call, GoCold(c), usage' = usage PROVE TypeOK'
    <2>2. /\ pc' \in [Op -> AddPc \cup CallPc] /\ \A b \in Add : pc'[b] \in AddPc
          /\ \A d \in Call : pc'[d] \in CallPc
      BY <1>8, UsageOK DEF GoCold, TypeOK, CallPc
    <2> QED BY <1>8, <2>2 DEF GoCold, TypeOK, jsVars, opVars, rustVars
  <1>9. ASSUME NEW c \in Call, ColdCreated(c), usage' = usage PROVE TypeOK'
    <2>1. c \in Op /\ c \notin Add /\ path[c] \in Path /\ mutex # <<>>
      BY <1>9, UsageOK DEF ColdCreated, BegunOK, MutexOK, Inside
    <2>2. PICK w \in Worker : /\ Created(c, w) /\ array' = [array EXCEPT ![Fresh] = <<w>>]
                              /\ pick' = [pick EXCEPT ![c] = w]
      BY <1>9 DEF ColdCreated
    <2>3. /\ conf' \in [Worker -> Op \cup {None}] /\ registered' \subseteq Worker
          /\ expired' \subseteq Op /\ pool' \in {"serving", "gone"}
      BY <2>1, <2>2, CreatedTypes
    <2>4. array' \in [Array -> Seq(Worker)] /\ pick' \in [Call -> Worker \cup {None}]
      BY <2>2, FreshIsNew DEF TypeOK
    <2>5. /\ pc' \in [Op -> AddPc \cup CallPc] /\ \A b \in Add : pc'[b] \in AddPc
          /\ \A d \in Call : pc'[d] \in CallPc
      BY <1>9, <2>1, UsageOK DEF ColdCreated, TypeOK, CallPc
    <2>6. workerPool' \in [Path -> Array \cup {None}] /\ mutex' \in Seq(Call)
      BY <1>9, <2>1, FreshIsNew DEF ColdCreated, Release, TypeOK
    <2> QED BY <1>9, <2>3, <2>4, <2>5, <2>6 DEF ColdCreated, TypeOK
  <1>10. ASSUME NEW c \in Call, PickWorker(c), usage' = usage PROVE TypeOK'
    <2>1. c \in Op /\ c \notin Add /\ path[c] \in Path /\ mutex # <<>> /\ Workers(path[c]) # <<>>
      BY <1>10, UsageOK DEF PickWorker, BegunOK, MutexOK, Inside
    <2>2. /\ workerPool[path[c]] \in Array /\ Workers(path[c]) = array[workerPool[path[c]]]
          /\ Workers(path[c]) \in Seq(Worker)
      BY <2>1, WorkersOnce
    <2>3. Head(Workers(path[c])) \in Worker /\ Rotate(Workers(path[c])) \in Seq(Worker)
      BY <2>1, <2>2, WorkersOnce, RotateOnce
    <2>4. array' \in [Array -> Seq(Worker)] /\ pick' \in [Call -> Worker \cup {None}]
      BY <1>10, <2>2, <2>3 DEF PickWorker, TypeOK
    <2>5. /\ pc' \in [Op -> AddPc \cup CallPc] /\ \A b \in Add : pc'[b] \in AddPc
          /\ \A d \in Call : pc'[d] \in CallPc
      BY <1>10, <2>1, UsageOK DEF PickWorker, TypeOK, CallPc
    <2>6. mutex' \in Seq(Call)
      BY <1>10, <2>1 DEF PickWorker, Release, TypeOK
    <2> QED BY <1>10, <2>4, <2>5, <2>6 DEF PickWorker, TypeOK, rustVars
  <1>11. ASSUME NEW c \in Call, CallFails(c), usage' = usage PROVE TypeOK'
    <2>1. c \in Op /\ c \notin Add /\ mutex # <<>>
      BY <1>11, UsageOK DEF CallFails, MutexOK, Inside
    <2>2. /\ pc' \in [Op -> AddPc \cup CallPc] /\ \A b \in Add : pc'[b] \in AddPc
          /\ \A d \in Call : pc'[d] \in CallPc
      BY <1>11, <2>1, UsageOK DEF CallFails, TypeOK, CallPc
    <2>3. mutex' \in Seq(Call)
      BY <1>11, <2>1 DEF CallFails, Release, TypeOK
    <2> QED BY <1>11, <2>2, <2>3 DEF CallFails, CreateThrows, TypeOK, jsVars, opVars, rustVars
  <1>12. ASSUME NEW c \in Call, Fetch(c), usage' = usage PROVE TypeOK'
    <2>1. PICK r \in {"answered", "refused", "failed"} : pc' = [pc EXCEPT ![c] = r]
      BY <1>12 DEF Fetch
    <2>2. /\ pc' \in [Op -> AddPc \cup CallPc] /\ \A b \in Add : pc'[b] \in AddPc
          /\ \A d \in Call : pc'[d] \in CallPc
      BY <2>1, UsageOK DEF TypeOK, CallPc
    <2> QED BY <1>12, <2>2 DEF Fetch, TypeOK, jsVars, opVars, rustVars
  <1>13. ASSUME NEW k \in Worker, ShutdownKey(k) \/ LifetimeEnds(k), usage' = usage PROVE TypeOK'
    BY <1>13 DEF ShutdownKey, LifetimeEnds, ShutWorkers, TypeOK, jsVars, opVars
  <1>14. ASSUME NEW p \in Path, ShutdownPath(p), usage' = usage PROVE TypeOK'
    <2>1. workerPool' \in [Path -> Array \cup {None}] /\ array' \in [Array -> Seq(Worker)]
      BY <1>14, FreshIsNew DEF ShutdownPath, TypeOK
    <2>2. registered' \subseteq Worker /\ pool' \in {"serving", "gone"}
      BY <1>14 DEF ShutdownPath, ShutWorkers, TypeOK
    <2> QED BY <1>14, <2>1, <2>2 DEF ShutdownPath, TypeOK, opVars
  <1>15. ASSUME NEW o \in Op, ExpireDate(o), usage' = usage PROVE TypeOK'
    BY <1>15 DEF ExpireDate, TypeOK, jsVars, opVars, rustVars
  <1>16. ASSUME UNCHANGED vars PROVE TypeOK'
    BY <1>16 DEF vars, TypeOK, jsVars, opVars, rustVars
  <1> QED
    BY Cases, <1>1, <1>2, <1>3, <1>4, <1>5, <1>6, <1>7, <1>8, <1>9, <1>10, <1>11, <1>12, <1>13,
       <1>14, <1>15, <1>16

-----------------------------------------------------------------------------
(* One call at a time is inside the mutex                                  *)

\* The mutex, and who is inside, are as they were.
LEMMA MutexStays ==
  ASSUME MutexOK, running' = running, mutex' = mutex, \A c \in Call : pc'[c] = pc[c]
  PROVE  MutexOK'
  BY DEF MutexOK

\* A call that is inside moves on, with or without giving control back.
LEMMA MutexInside ==
  ASSUME ConstantsOK, TypeOK, MutexOK, NEW c \in Call, NEW s \in Inside, pc' = [pc EXCEPT ![c] = s],
         mutex' = mutex, mutex # <<>>, Head(mutex) = c,
         running \in {None, c}, running' = IF s = "expiring" THEN c ELSE None
  PROVE  MutexOK'
  <1>1. pc'[c] = s /\ \A d \in Call : d # c => pc'[d] = pc[d]
    BY UsageOK DEF TypeOK
  <1>2. \A d \in Call : d # None
    BY UsageOK
  <1>3. \A d \in Call : d # c => pc[d] \notin Inside
    BY DEF MutexOK
  <1>4. "queued" \notin Inside /\ "expiring" \in Inside
    BY DEF Inside
  <1> QED BY <1>1, <1>2, <1>3, <1>4 DEF MutexOK

\* The callback of runExclusive is over.
LEMMA MutexReleased ==
  ASSUME ConstantsOK, TypeOK, MutexOK, NEW c \in Call, pc[c] \in Inside, NEW s,
         s \notin Inside \cup {"queued"}, pc' = [pc EXCEPT ![c] = s], Release,
         running \in {None, c}, running' = None
  PROVE  MutexOK'
  <1>1. pc'[c] = s /\ \A d \in Call : d # c => pc'[d] = pc[d]
    BY UsageOK DEF TypeOK
  <1>2. \A d \in Call : d # None
    BY UsageOK
  <1>3. mutex # <<>> /\ Head(mutex) = c /\ mutex \in Seq(Call) /\ mutex' = Tail(mutex)
    BY DEF MutexOK, TypeOK, Release
  <1>4. \A d \in Call : d # c => pc[d] \notin Inside
    BY <1>3 DEF MutexOK
  <1>5. "expiring" \in Inside
    BY DEF Inside
  <1>6. ASSUME NEW d \in Call, pc'[d] = "queued" PROVE \E i \in DOMAIN mutex' : mutex'[i] = d
    <2>1. d # c /\ pc[d] = "queued"
      BY <1>1, <1>6
    <2>2. PICK i \in DOMAIN mutex : mutex[i] = d
      BY <2>1 DEF MutexOK
    <2>3. i # 1
      BY <1>3, <2>1, <2>2
    <2>4. i - 1 \in DOMAIN Tail(mutex) /\ Tail(mutex)[i - 1] = d
      BY <1>3, <2>2, <2>3
    <2> QED BY <1>3, <2>4
  <1>7. \A d \in Call : pc'[d] \notin Inside
    BY <1>1, <1>4
  <1>8. \A d \in Call : running' # d /\ pc'[d] # "expiring"
    BY <1>2, <1>5, <1>7
  <1> QED BY <1>6, <1>7, <1>8 DEF MutexOK

\* Every step keeps MutexOK.
LEMMA NextMutex ==
  ASSUME ConstantsOK, TypeOK, MutexOK, [Next]_vars
  PROVE  MutexOK'
  <1>1. ASSUME NEW a \in Add, NEW s, pc' = [pc EXCEPT ![a] = s] \/ pc' = pc
        PROVE  \A c \in Call : pc'[c] = pc[c]
    BY <1>1, UsageOK DEF TypeOK
  <1>2. ASSUME NEW a \in Adds, NEW p \in usage.paths, NEW n \in 1..usage.most,
               NEW r \in usage.restarts, AddStart(a, p, n, r)
        PROVE  MutexOK'
    <2>1. a \in Add
      BY UsageOK
    <2> QED BY <1>1, <1>2, <2>1, MutexStays DEF AddStart
  <1>3. ASSUME NEW a \in Add, Added(a) \/ AddFails(a) PROVE MutexOK'
    <2>1. running' = running /\ mutex' = mutex
      BY <1>3 DEF Added, AddFails
    <2>2. \E s : pc' = [pc EXCEPT ![a] = s] \/ pc' = pc
      BY <1>3 DEF Added, AddFails
    <2> QED BY <1>1, <2>1, <2>2, MutexStays
  <1>4. ASSUME NEW c \in Call, NEW p \in usage.asked, Arrive(c, p) PROVE MutexOK'
    <2>1. mutex \in Seq(Call) /\ mutex' = Append(mutex, c) /\ running' = None /\ running = None
      BY <1>4 DEF Arrive, TypeOK
    <2>2. pc'[c] = "queued" /\ (\A d \in Call : d # c => pc'[d] = pc[d]) /\ pc[c] = "idle"
      BY <1>4, UsageOK DEF Arrive, TypeOK
    <2>3. \A i \in DOMAIN mutex : i \in DOMAIN mutex' /\ mutex'[i] = mutex[i]
      BY <2>1
    <2>4. Len(mutex) + 1 \in DOMAIN mutex' /\ mutex'[Len(mutex) + 1] = c
      BY <2>1
    <2>5. mutex # <<>> => mutex' # <<>> /\ Head(mutex') = Head(mutex)
      BY <2>1
    <2>6. "queued" \notin Inside /\ "expiring" \in Inside
      BY DEF Inside
    <2>7. ASSUME NEW d \in Call
          PROVE  /\ pc'[d] = "queued" => \E i \in DOMAIN mutex' : mutex'[i] = d
                 /\ pc'[d] \in Inside => mutex' # <<>> /\ Head(mutex') = d
                 /\ running' = d <=> pc'[d] = "expiring"
      <3>1. CASE d = c
        BY <2>1, <2>2, <2>4, <2>6, <3>1, UsageOK
      <3>2. CASE d # c
        BY <2>1, <2>2, <2>3, <2>5, <3>2 DEF MutexOK
      <3> QED BY <3>1, <3>2
    <2> QED BY <2>7 DEF MutexOK
  <1>5. ASSUME NEW c \in Call, Scan(c) PROVE MutexOK'
    <2>1. \E i \in DOMAIN mutex : mutex[i] = c
      BY <1>5 DEF Scan, MutexOK
    <2>2. mutex # <<>> /\ Head(mutex) = c
      BY <1>5, <2>1 DEF Scan, Exclusive, TypeOK
    <2> QED BY <1>5, <2>2, MutexInside DEF Scan, Inside
  <1>6. ASSUME NEW c \in Call, Expire(c) PROVE MutexOK'
    <2>1. pc[c] = "expiring" /\ mutex # <<>> /\ Head(mutex) = c
      BY <1>6 DEF Expire, MutexOK, Inside
    <2>2. CASE pc' = [pc EXCEPT ![c] = "restarting"] /\ running' = None
      BY <1>6, <2>1, <2>2, MutexInside DEF Expire, Inside
    <2>3. CASE pc' = pc /\ running' = running
      BY <1>6, <2>3, MutexStays DEF Expire
    <2> QED BY <1>6, <2>2, <2>3 DEF Expire
  <1>7. ASSUME NEW c \in Call, Restarted(c) PROVE MutexOK'
    <2>1. mutex # <<>> /\ Head(mutex) = c
      BY <1>7 DEF Restarted, MutexOK, Inside
    <2> QED BY <1>7, <2>1, MutexInside DEF Restarted, Inside
  <1>8. ASSUME NEW c \in Call, GoCold(c) PROVE MutexOK'
    <2>1. mutex # <<>> /\ Head(mutex) = c
      BY <1>8 DEF GoCold, MutexOK, Inside
    <2> QED BY <1>8, <2>1, MutexInside DEF GoCold, Inside
  <1>9. ASSUME NEW c \in Call, ColdCreated(c) \/ PickWorker(c) PROVE MutexOK'
    <2>1. /\ pc[c] \in Inside /\ pc' = [pc EXCEPT ![c] = "fetching"] /\ Release
          /\ running \in {None, c} /\ running' = None /\ "fetching" \notin Inside \cup {"queued"}
      BY <1>9 DEF ColdCreated, PickWorker, Inside
    <2> QED BY <2>1, MutexReleased
  <1>10. ASSUME NEW c \in Call, CallFails(c) PROVE MutexOK'
    <2>1. /\ pc[c] \in Inside /\ pc' = [pc EXCEPT ![c] = "failed"] /\ Release
          /\ running \in {None, c} /\ running' = None /\ "failed" \notin Inside \cup {"queued"}
      BY <1>10 DEF CallFails, Inside
    <2> QED BY <2>1, MutexReleased
  <1>11. ASSUME NEW c \in Call, Fetch(c) PROVE MutexOK'
    <2>1. PICK r \in {"answered", "refused", "failed"} : pc' = [pc EXCEPT ![c] = r]
      BY <1>11 DEF Fetch
    <2>2. r \notin Inside /\ r # "queued" /\ r # "expiring" /\ "fetching" \notin Inside
      BY DEF Inside
    <2>3. pc[c] = "fetching" /\ pc'[c] = r /\ \A d \in Call : d # c => pc'[d] = pc[d]
      BY <1>11, <2>1, UsageOK DEF Fetch, TypeOK
    <2>4. running' = None /\ running = None /\ mutex' = mutex
      BY <1>11 DEF Fetch
    <2> QED BY <2>2, <2>3, <2>4, UsageOK DEF MutexOK
  <1>12. ASSUME \/ \E k \in Worker : ShutdownKey(k) \/ LifetimeEnds(k)
                \/ \E p \in Path : ShutdownPath(p)
                \/ \E o \in Op : ExpireDate(o)
                \/ UNCHANGED vars
         PROVE  MutexOK'
    <2>1. running' = running /\ mutex' = mutex /\ pc' = pc
      BY <1>12 DEF ShutdownKey, LifetimeEnds, ShutdownPath, ExpireDate, vars
    <2> QED BY <2>1, MutexStays
  <1> QED
    BY Cases, <1>2, <1>3, <1>4, <1>5, <1>6, <1>7, <1>8, <1>9, <1>10, <1>11, <1>12

-----------------------------------------------------------------------------
(* What an operation that has begun holds                                  *)

\* What is done stays done.
LEMMA StaysInitialized ==
  ASSUME ConstantsOK, TypeOK, usage' = usage, Initialized,
         \A a \in Add : pc[a] = "done" => pc'[a] = "done"
  PROVE  Initialized'
  BY UsageOK DEF Initialized, Add

\* One operation goes on, and the others keep what they hold.
LEMMA BegunStep ==
  ASSUME ConstantsOK, TypeOK, BegunOK, usage' = usage, NEW o \in Op,
         \A q \in Op : q # o => /\ pc'[q] = pc[q] /\ path'[q] = path[q] /\ arr'[q] = arr[q]
                                /\ q \in Add => num'[q] = num[q] /\ left'[q] = left[q]
                                /\ q \in Call => todo'[q] = todo[q],
         o \in Add => /\ pc[o] = "done" => pc'[o] = "done"
                      /\ pc'[o] # "idle" => o \in Adds /\ path'[o] \in Path /\ num'[o] >= 1
                      /\ pc'[o] = "adding" => left'[o] >= 1 /\ arr'[o] \in Array,
         o \in Call => /\ pc'[o] # "idle" => Initialized /\ path'[o] \in Path
                       /\ pc'[o] = "restarting" => todo'[o] # <<>> /\ arr'[o] \in Array
  PROVE  BegunOK'
  <1>1. Add \subseteq Op /\ Call \subseteq Op
    BY UsageOK
  <1>2. Initialized => Initialized'
    BY <1>1, StaysInitialized
  <1>3. Adds' = Adds
    BY DEF Adds
  <1>4. ASSUME NEW a \in Add
        PROVE  /\ pc'[a] # "idle" => a \in Adds' /\ path'[a] \in Path /\ num'[a] >= 1
               /\ pc'[a] = "adding" => left'[a] >= 1 /\ arr'[a] \in Array
    BY <1>1, <1>3, <1>4 DEF BegunOK
  <1>5. ASSUME NEW c \in Call
        PROVE  /\ pc'[c] # "idle" => Initialized' /\ path'[c] \in Path
               /\ pc'[c] = "restarting" => todo'[c] # <<>> /\ arr'[c] \in Array
    BY <1>1, <1>2, <1>5 DEF BegunOK
  <1> QED BY <1>4, <1>5 DEF BegunOK

\* Every step keeps BegunOK.
LEMMA NextBegun ==
  ASSUME ConstantsOK, TypeOK, MutexOK, BegunOK, [Next]_vars
  PROVE  BegunOK'
  <1>0. usage' = usage
    BY Cases
  <1>1. ASSUME NEW a \in Adds, NEW p \in usage.paths, NEW n \in 1..usage.most,
               NEW r \in usage.restarts, AddStart(a, p, n, r)
        PROVE  BegunOK'
    <2>1. a \in Add /\ a \in Op /\ p \in Path /\ n >= 1 /\ a \notin Call
      BY UsageOK
    <2>2. \/ Workers(p) # <<>> /\ arr' = [arr EXCEPT ![a] = workerPool[p]]
          \/ arr' = [arr EXCEPT ![a] = Fresh]
      BY <1>1 DEF AddStart
    <2>3. Workers(p) # <<>> => workerPool[p] \in Array
      BY <2>1 DEF Workers, TypeOK
    <2>4. arr'[a] \in Array /\ \A q \in Op : q # a => arr'[q] = arr[q]
      BY <2>1, <2>2, <2>3, FreshIsNew DEF TypeOK
    <2>5. /\ \A q \in Op : q # a => pc'[q] = pc[q] /\ path'[q] = path[q]
          /\ \A q \in Add : q # a => num'[q] = num[q] /\ left'[q] = left[q]
          /\ todo' = todo /\ pc[a] # "done" /\ path'[a] \in Path /\ num'[a] >= 1 /\ left'[a] >= 1
      BY <1>1, <2>1 DEF AddStart, TypeOK
    <2> QED BY <1>0, <2>1, <2>4, <2>5, BegunStep
  <1>2. ASSUME NEW a \in Add, Added(a) PROVE BegunOK'
    <2>1. a \in Op /\ a \notin Call /\ left[a] \in Nat
      BY UsageOK DEF TypeOK
    <2>2. a \in Adds /\ path[a] \in Path /\ num[a] >= 1 /\ left[a] >= 1 /\ arr[a] \in Array
      BY <1>2 DEF Added, BegunOK
    <2>3. /\ path' = path /\ arr' = arr /\ num' = num /\ todo' = todo /\ left'[a] = left[a] - 1
          /\ \A q \in Add : q # a => left'[q] = left[q]
          /\ \A q \in Op : q # a => pc'[q] = pc[q]
          /\ pc[a] # "done"
          /\ pc'[a] = "adding" => left[a] # 1
      BY <1>2, <2>1 DEF Added, LastOne, TypeOK
    <2>4. pc'[a] = "adding" => left'[a] >= 1
      BY <2>1, <2>2, <2>3
    <2> QED BY <1>0, <2>1, <2>2, <2>3, <2>4, BegunStep
  <1>3. ASSUME NEW a \in Add, AddFails(a) PROVE BegunOK'
    <2>1. a \in Op /\ a \notin Call
      BY UsageOK
    <2>2. a \in Adds /\ path[a] \in Path /\ num[a] >= 1
      BY <1>3 DEF AddFails, BegunOK
    <2>3. /\ path' = path /\ arr' = arr /\ num' = num /\ todo' = todo /\ left' = left
          /\ \A q \in Op : q # a => pc'[q] = pc[q]
          /\ pc[a] # "done" /\ pc'[a] = "failed"
      BY <1>3, <2>1 DEF AddFails, TypeOK, opVars
    <2> QED BY <1>0, <2>1, <2>2, <2>3, BegunStep
  <1>4. ASSUME NEW c \in Call, NEW p \in usage.asked, Arrive(c, p) PROVE BegunOK'
    <2>1. c \in Op /\ c \notin Add /\ p \in Path
      BY UsageOK
    <2>2. /\ arr' = arr /\ num' = num /\ todo' = todo /\ left' = left
          /\ \A q \in Op : q # c => pc'[q] = pc[q] /\ path'[q] = path[q]
          /\ pc'[c] = "queued" /\ path'[c] \in Path /\ Initialized
      BY <1>4, <2>1 DEF Arrive, TypeOK
    <2> QED BY <1>0, <2>1, <2>2, BegunStep
  \* A call inside the mutex that does not stop to restart a worker
  <1>5. ASSUME NEW c \in Call, pc[c] # "idle", path' = path, num' = num, left' = left,
               \A q \in Op : q # c => pc'[q] = pc[q] /\ arr'[q] = arr[q],
               \A q \in Call : q # c => todo'[q] = todo[q],
               pc'[c] = "restarting" => todo'[c] # <<>> /\ arr'[c] \in Array
        PROVE  BegunOK'
    <2>1. c \in Op /\ c \notin Add
      BY UsageOK
    <2>2. path[c] \in Path /\ Initialized
      BY <1>5 DEF BegunOK
    <2> QED BY <1>0, <1>5, <2>1, <2>2, BegunStep
  <1>6. ASSUME NEW c \in Call, Scan(c) \/ Restarted(c) PROVE BegunOK'
    <2>1. /\ pc[c] # "idle" /\ path' = path /\ num' = num /\ left' = left /\ arr' = arr
          /\ \A q \in Op : q # c => pc'[q] = pc[q]
          /\ \A q \in Call : q # c => todo'[q] = todo[q]
          /\ pc'[c] = "expiring"
      BY <1>6, UsageOK DEF Scan, Restarted, TypeOK
    <2> QED BY <1>5, <2>1
  <1>7. ASSUME NEW c \in Call, Expire(c) PROVE BegunOK'
    <2>1. /\ pc[c] # "idle" /\ path' = path /\ num' = num /\ left' = left
          /\ \A q \in Op : q # c => pc'[q] = pc[q] /\ arr'[q] = arr[q]
          /\ \A q \in Call : q # c => todo'[q] = todo[q]
          /\ pc'[c] = "restarting" => todo'[c] # <<>> /\ arr'[c] = Fresh
      <3>1. \/ /\ arr' = [arr EXCEPT ![c] = Fresh] /\ pc' = [pc EXCEPT ![c] = "restarting"]
               /\ todo' = todo
            \/ /\ todo' = [todo EXCEPT ![c] = Tail(@)] /\ UNCHANGED <<arr, pc>>
        BY <1>7 DEF Expire
      <3>2. /\ pc[c] = "expiring" /\ todo[c] # <<>> /\ c \in Op /\ path' = path /\ num' = num /\ left' = left
        BY <1>7, UsageOK DEF Expire
      <3> QED BY <3>1, <3>2 DEF TypeOK
    <2> QED BY <1>5, <2>1, FreshIsNew
  <1>8. ASSUME NEW c \in Call,
               GoCold(c) \/ ColdCreated(c) \/ PickWorker(c) \/ CallFails(c) \/ Fetch(c)
        PROVE  BegunOK'
    <2>1. PICK s \in {"creating", "fetching", "failed", "answered", "refused"} : pc' = [pc EXCEPT ![c] = s]
      BY <1>8 DEF GoCold, ColdCreated, PickWorker, CallFails, Fetch
    <2>2. pc[c] # "idle" /\ path' = path /\ num' = num /\ left' = left /\ arr' = arr /\ todo' = todo
      BY <1>8 DEF GoCold, ColdCreated, PickWorker, CallFails, Fetch, opVars
    <2>3. pc'[c] # "restarting" /\ \A q \in Op : q # c => pc'[q] = pc[q]
      BY <2>1, UsageOK DEF TypeOK
    <2> QED BY <1>5, <2>2, <2>3
  <1>9. ASSUME \/ \E k \in Worker : ShutdownKey(k) \/ LifetimeEnds(k)
               \/ \E p \in Path : ShutdownPath(p)
               \/ \E o \in Op : ExpireDate(o)
               \/ UNCHANGED vars
        PROVE  BegunOK'
    <2>1. pc' = pc /\ UNCHANGED opVars
      BY <1>9 DEF ShutdownKey, LifetimeEnds, ShutdownPath, ExpireDate, vars
    <2> QED BY <1>0, <2>1 DEF BegunOK, Initialized, Adds, opVars
  <1> QED
    BY Cases, <1>1, <1>2, <1>3, <1>4, <1>6, <1>7, <1>8, <1>9

-----------------------------------------------------------------------------
(* The arrays and the paths they serve                                     *)

\* What has begun keeps its path, its configuration and its number, and a worker its home.
StepKeeps ==
    /\ \A o \in Op : pc[o] # "idle" =>
           pc'[o] # "idle" /\ path'[o] = path[o] /\ restart'[o] = restart[o]
    /\ \A a \in Add : pc[a] # "idle" => num'[a] = num[a]
    /\ \A w \in Worker : conf[w] # None => conf'[w] = conf[w]
    /\ \A w \in Worker : conf'[w] = conf[w] \/ (conf'[w] \in Op /\ pc[conf'[w]] # "idle")

\* Of a worker to be restarted, the configuration object is there.
LEMMA TodoHome ==
  ASSUME ConstantsOK, Safe, NEW c \in Call, todo[c] # <<>>
  PROVE  /\ conf[Head(todo[c])[1]] \in Op /\ pc[conf[Head(todo[c])[1]]] # "idle"
         /\ path[conf[Head(todo[c])[1]]] = Head(todo[c])[2]
  <1>1. /\ 1 \in DOMAIN todo[c] /\ Head(todo[c]) = todo[c][1] /\ Head(todo[c])[1] \in Worker
    BY TodoOK DEF Safe
  <1>2. conf[Head(todo[c])[1]] # None /\ Home(Head(todo[c])[1]) = Head(todo[c])[2]
    BY <1>1 DEF Safe, PathsApart
  <1>3. conf[Head(todo[c])[1]] \in Op
    BY <1>1, <1>2 DEF Safe, TypeOK
  <1> QED BY <1>1, <1>2, <1>3 DEF Safe, ArraysOK, Home

\* What operations have begun with stays (StepKeeps).
LEMMA NextKeeps ==
  ASSUME ConstantsOK, Safe, [Next]_vars
  PROVE  StepKeeps
  <1> USE DEF Safe
  \* One operation goes on, and no worker is created.
  <1>1. ASSUME NEW o \in Op, NEW s, pc' = [pc EXCEPT ![o] = s] \/ pc' = pc, s # "idle",
               \A q \in Op : q # o \/ pc[o] # "idle" => path'[q] = path[q] /\ restart'[q] = restart[q],
               \A a \in Add : a # o \/ pc[o] # "idle" => num'[a] = num[a],
               conf' = conf
        PROVE  StepKeeps
    <2>1. Add \subseteq Op
      BY UsageOK
    <2> QED BY <1>1, <2>1 DEF StepKeeps, TypeOK
  \* It creates a worker for q, which has begun.
  <1>2. ASSUME NEW o \in Op, NEW s, pc' = [pc EXCEPT ![o] = s] \/ pc' = pc, s # "idle",
               path' = path, restart' = restart, num' = num,
               NEW q \in Op, pc[q] # "idle", NEW w \in Worker, Created(q, w)
        PROVE  StepKeeps
    <2>1. conf[w] = None /\ conf' = [conf EXCEPT ![w] = q]
      BY <1>2, CreatedNew
    <2> QED BY <1>2, <2>1 DEF StepKeeps, TypeOK
  <1>3. ASSUME NEW a \in Adds, NEW p \in usage.paths, NEW n \in 1..usage.most,
               NEW r \in usage.restarts, AddStart(a, p, n, r)
        PROVE  StepKeeps
    <2>1. a \in Op /\ a \in Add /\ Add \subseteq Op
      BY UsageOK
    <2>2. /\ pc' = [pc EXCEPT ![a] = "adding"] /\ conf' = conf /\ pc[a] = "idle"
          /\ \A q \in Op : q # a => path'[q] = path[q] /\ restart'[q] = restart[q]
          /\ \A q \in Add : q # a => num'[q] = num[q]
      BY <1>3, <2>1 DEF AddStart, TypeOK
    <2> QED BY <1>1, <2>1, <2>2
  <1>4. ASSUME NEW a \in Add, Added(a) PROVE StepKeeps
    <2>1. a \in Op /\ pc[a] = "adding"
      BY <1>4, UsageOK DEF Added
    <2>2. PICK w \in Worker : Created(a, w)
      BY <1>4 DEF Added
    <2>3. (pc' = [pc EXCEPT ![a] = "done"] \/ pc' = pc) /\ path' = path /\ restart' = restart /\ num' = num
      BY <1>4 DEF Added
    <2> QED BY <1>2, <2>1, <2>2, <2>3
  <1>5. ASSUME NEW a \in Add, AddFails(a) PROVE StepKeeps
    <2>1. a \in Op
      BY UsageOK
    <2>2. /\ pc' = [pc EXCEPT ![a] = "failed"]
          /\ path' = path /\ restart' = restart /\ num' = num /\ conf' = conf
      BY <1>5 DEF AddFails, CreateThrows, opVars
    <2> QED BY <1>1, <2>1, <2>2
  <1>6. ASSUME NEW c \in Call, NEW p \in usage.asked, Arrive(c, p) PROVE StepKeeps
    <2>1. c \in Op /\ c \notin Add
      BY UsageOK
    <2>2. /\ pc' = [pc EXCEPT ![c] = "queued"] /\ restart' = restart /\ num' = num /\ conf' = conf
          /\ pc[c] = "idle" /\ \A q \in Op : q # c => path'[q] = path[q]
      BY <1>6, <2>1 DEF Arrive, TypeOK
    <2> QED BY <1>1, <2>1, <2>2
  <1>7. ASSUME NEW c \in Call, Scan(c) \/ Expire(c) \/ GoCold(c) \/ PickWorker(c) \/ CallFails(c) \/ Fetch(c)
        PROVE  StepKeeps
    <2>1. c \in Op
      BY UsageOK
    <2>2. /\ path' = path /\ restart' = restart /\ num' = num /\ conf' = conf
      BY <1>7 DEF Scan, Expire, GoCold, PickWorker, CallFails, Fetch, CreateThrows, opVars
    <2>3. \E s \in {"expiring", "restarting", "creating", "fetching", "failed", "answered", "refused"} :
              pc' = [pc EXCEPT ![c] = s] \/ pc' = pc
      BY <1>7 DEF Scan, Expire, GoCold, PickWorker, CallFails, Fetch
    <2>4. PICK s \in {"expiring", "restarting", "creating", "fetching", "failed", "answered", "refused"} :
              pc' = [pc EXCEPT ![c] = s] \/ pc' = pc
      BY <2>3
    <2>5. s # "idle"
      OBVIOUS
    <2> QED BY <1>1, <2>1, <2>2, <2>4, <2>5
  <1>8. ASSUME NEW c \in Call, Restarted(c) PROVE StepKeeps
    <2>1. /\ c \in Op /\ pc' = [pc EXCEPT ![c] = "expiring"]
          /\ path' = path /\ restart' = restart /\ num' = num /\ todo[c] # <<>>
      BY <1>8, UsageOK DEF Restarted, BegunOK
    <2>2. PICK w \in Worker : Created(conf[Head(todo[c])[1]], w)
      BY <1>8 DEF Restarted
    <2>3. conf[Head(todo[c])[1]] \in Op /\ pc[conf[Head(todo[c])[1]]] # "idle"
      BY <2>1, TodoHome
    <2> QED BY <1>2, <2>1, <2>2, <2>3
  <1>9. ASSUME NEW c \in Call, ColdCreated(c) PROVE StepKeeps
    <2>1. /\ c \in Op /\ pc[c] # "idle" /\ pc' = [pc EXCEPT ![c] = "fetching"]
          /\ path' = path /\ restart' = restart /\ num' = num
      BY <1>9, UsageOK DEF ColdCreated
    <2>2. PICK w \in Worker : Created(c, w)
      BY <1>9 DEF ColdCreated
    <2> QED BY <1>2, <2>1, <2>2
  <1>10. ASSUME \/ \E k \in Worker : ShutdownKey(k) \/ LifetimeEnds(k)
                \/ \E p \in Path : ShutdownPath(p)
                \/ \E o \in Op : ExpireDate(o)
                \/ UNCHANGED vars
         PROVE  StepKeeps
    <2>1. pc' = pc /\ UNCHANGED opVars /\ conf' = conf
      BY <1>10 DEF ShutdownKey, LifetimeEnds, ShutdownPath, ExpireDate, vars
    <2> QED BY <2>1 DEF StepKeeps, opVars
  <1> QED
    BY Cases, <1>3, <1>4, <1>5, <1>6, <1>7, <1>8, <1>9, <1>10

\* The workers that x now has, each once and created for p
AtHome(x, p) ==
    /\ IsInjective(array[x])
    /\ \A i \in DOMAIN array[x] : conf[array[x][i]] # None /\ Home(array[x][i]) = p

\* An array is as it was or has workers of the one path it serves.
LEMMA ArraysStep ==
  ASSUME ConstantsOK, Safe, TypeOK', StepKeeps,
         \A x \in Array :
             \/ array'[x] = array[x] /\ \A p \in Path : Serves(x, p)' => Serves(x, p)
             \/ \E p \in Path : AtHome(x, p)' /\ \A q \in Path : Serves(x, q)' => q = p,
         \A c \in Call : \A i \in DOMAIN todo'[c] :
             conf[todo'[c][i][1]] # None /\ Home(todo'[c][i][1]) = todo'[c][i][2]
  PROVE  ArraysOK' /\ PathsApart'
  <1> USE DEF Safe
  <1>1. ASSUME NEW w \in Worker, conf[w] # None
        PROVE  conf'[w] # None /\ path'[conf'[w]] = path[conf[w]]
    <2>1. conf[w] \in Op /\ pc[conf[w]] # "idle"
      BY <1>1 DEF TypeOK, ArraysOK
    <2> QED BY <1>1, <2>1 DEF StepKeeps
  <1>2. ASSUME NEW x \in Array, array'[x] = array[x]
        PROVE  /\ IsInjective(array'[x])
               /\ \A i \in DOMAIN array'[x] :
                     conf'[array'[x][i]] # None /\ path'[conf'[array'[x][i]]] = path[conf[array[x][i]]]
    <2>1. array[x] \in Seq(Worker)
      BY DEF TypeOK
    <2>2. \A i \in DOMAIN array[x] : array[x][i] \in Worker /\ conf[array[x][i]] # None
      BY <2>1 DEF ArraysOK
    <2>3. \A i \in DOMAIN array[x] :
              conf'[array[x][i]] # None /\ path'[conf'[array[x][i]]] = path[conf[array[x][i]]]
      BY <1>1, <2>2
    <2>4. IsInjective(array'[x])
      BY <1>2 DEF ArraysOK
    <2> QED BY <1>2, <2>3, <2>4
  <1>3. ASSUME NEW x \in Array, NEW p \in Path, AtHome(x, p)'
        PROVE  /\ IsInjective(array'[x])
               /\ \A i \in DOMAIN array'[x] :
                     conf'[array'[x][i]] # None /\ path'[conf'[array'[x][i]]] = p
    BY <1>3 DEF AtHome, Home
  <1>4. ArraysOK'
    <2>1. ASSUME NEW x \in Array
          PROVE  IsInjective(array'[x]) /\ \A i \in DOMAIN array'[x] : conf'[array'[x][i]] # None
      BY <1>2, <1>3
    <2>2. ASSUME NEW w \in Worker, conf'[w] # None PROVE pc'[conf'[w]] # "idle"
      <3>1. conf[w] # None => conf[w] \in Op /\ pc[conf[w]] # "idle"
        BY DEF TypeOK, ArraysOK
      <3> QED BY <2>2, <3>1 DEF StepKeeps
    <2> QED BY <2>1, <2>2 DEF ArraysOK
  <1>5. ASSUME NEW x \in Array, NEW p \in Path, NEW q \in Path, Serves(x, p)', Serves(x, q)' PROVE p = q
    BY <1>5 DEF PathsApart
  <1>6. ASSUME NEW x \in Array, NEW p \in Path, Serves(x, p)', NEW i \in DOMAIN array'[x]
        PROVE  path'[conf'[array'[x][i]]] = p
    <2>1. CASE array'[x] = array[x] /\ Serves(x, p)
      <3>1. path[conf[array[x][i]]] = p
        BY <2>1 DEF PathsApart, Home
      <3> QED BY <1>2, <2>1, <3>1
    <2>2. CASE AtHome(x, p)'
      BY <1>3, <2>2
    <2> QED BY <1>6, <2>1, <2>2
  <1>7. ASSUME NEW c \in Call, NEW i \in DOMAIN todo'[c]
        PROVE  conf'[todo'[c][i][1]] # None /\ path'[conf'[todo'[c][i][1]]] = todo'[c][i][2]
    <2>1. todo'[c] \in Seq(Worker \X Path)
      BY DEF TypeOK
    <2>2. todo'[c][i][1] \in Worker
      BY <2>1
    <2>3. conf[todo'[c][i][1]] # None /\ path[conf[todo'[c][i][1]]] = todo'[c][i][2]
      BY DEF Home
    <2> QED BY <1>1, <2>2, <2>3
  <1> QED BY <1>4, <1>5, <1>6, <1>7 DEF PathsApart, Home

\* The array o holds, it holds for its path.
LEMMA HoldsFor ==
  ASSUME NEW o \in Op, Holding(o)
  PROVE  Serves(arr[o], For(o))
  BY DEF Serves

\* Of one operation the pc, the path, the array or the list has changed.
LEMMA ServesStep ==
  ASSUME NEW o \in Op,
         \A q \in Op : q # o => /\ pc'[q] = pc[q] /\ path'[q] = path[q] /\ arr'[q] = arr[q]
                                /\ q \in Call => todo'[q] = todo[q],
         Op = Call \cup Add,
         NEW x, NEW p, Serves(x, p)'
  PROVE  \/ workerPool'[p] = x
         \/ Serves(x, p)
         \/ Holding(o)' /\ arr'[o] = x /\ For(o)' = p
  <1>1. ASSUME NEW q \in Op, q # o, Holding(q)', arr'[q] = x, For(q)' = p PROVE Serves(x, p)
    BY <1>1 DEF Serves, Holding, For
  <1> QED BY <1>1 DEF Serves

\* Every step keeps ArraysOK and PathsApart.
LEMMA NextArrays ==
  ASSUME ConstantsOK, Safe, [Next]_vars, TypeOK', StepKeeps
  PROVE  ArraysOK' /\ PathsApart'
  <1> USE DEF Safe
  <1>a. Op = Call \cup Add /\ Add \subseteq Op /\ Call \subseteq Op
    BY DEF Op
  \* The lists are as they were or shorter.
  <1>b. ASSUME \A c \in Call : \/ todo'[c] = todo[c]
                               \/ todo[c] # <<>> /\ todo'[c] = Tail(todo[c])
        PROVE  \A c \in Call : \A i \in DOMAIN todo'[c] :
                   conf[todo'[c][i][1]] # None /\ Home(todo'[c][i][1]) = todo'[c][i][2]
    <2> SUFFICES ASSUME NEW c \in Call, NEW i \in DOMAIN todo'[c]
                 PROVE  conf[todo'[c][i][1]] # None /\ Home(todo'[c][i][1]) = todo'[c][i][2]
      OBVIOUS
    <2>1. \E j \in DOMAIN todo[c] : todo'[c][i] = todo[c][j]
      <3>1. CASE todo'[c] = todo[c]
        BY <3>1
      <3>2. CASE todo[c] # <<>> /\ todo'[c] = Tail(todo[c])
        BY <3>2, TodoOK
      <3> QED BY <1>b, <3>1, <3>2
    <2> QED BY <2>1 DEF PathsApart
  \* No array changes and none is taken.
  <1>c. ASSUME array' = array, \A x \in Array : \A p \in Path : Serves(x, p)' => Serves(x, p),
               todo' = todo
        PROVE  ArraysOK' /\ PathsApart'
    BY <1>b, <1>c, ArraysStep
  \* Only x changes, which then has workers of p and serves p only.
  <1>e. ASSUME NEW x \in Array, NEW p \in Path, AtHome(x, p)', \A q \in Path : Serves(x, q)' => q = p,
               \A y \in Array : y # x => array'[y] = array[y] /\ \A q \in Path : Serves(y, q)' => Serves(y, q),
               \A c \in Call : \/ todo'[c] = todo[c]
                               \/ todo[c] # <<>> /\ todo'[c] = Tail(todo[c])
        PROVE  ArraysOK' /\ PathsApart'
    <2>1. \A y \in Array :
             \/ array'[y] = array[y] /\ \A q \in Path : Serves(y, q)' => Serves(y, q)
             \/ \E z \in Path : AtHome(y, z)' /\ \A q \in Path : Serves(y, q)' => q = z
      BY <1>e
    <2> QED BY <1>b, <1>e, <2>1, ArraysStep
  \* A new worker for p is put into the array that serves p.
  <1>f. ASSUME NEW x \in Array, NEW p \in Path, Serves(x, p), NEW w \in Worker, conf[w] = None,
               NEW o \in Op, pc[o] # "idle", path[o] = p,
               conf' = [conf EXCEPT ![w] = o], array'[x] = Append(array[x], w)
        PROVE  AtHome(x, p)'
    <2>1. array[x] \in Seq(Worker) /\ IsInjective(array[x])
      BY DEF TypeOK, ArraysOK
    <2>2. \A i \in DOMAIN array[x] : array[x][i] \in Worker /\ array[x][i] # w
      BY <1>f, <2>1 DEF ArraysOK
    <2>3. /\ IsInjective(array'[x]) /\ DOMAIN array'[x] = 1..(Len(array[x]) + 1) /\ Len(array[x]) \in Nat
          /\ array'[x][Len(array[x]) + 1] = w
          /\ DOMAIN array[x] = 1..Len(array[x])
          /\ \A i \in DOMAIN array[x] : array'[x][i] = array[x][i]
      BY <1>f, <2>1, <2>2, AppendOnce
    <2>4. conf'[w] = o /\ path'[o] = p /\ o # None
      BY <1>f, UsageOK DEF TypeOK, StepKeeps
    <2>5. ASSUME NEW i \in DOMAIN array[x]
          PROVE  conf'[array[x][i]] # None /\ path'[conf'[array[x][i]]] = p
      <3> DEFINE v == array[x][i]
      <3>1. v \in Worker /\ conf[v] # None /\ path[conf[v]] = p
        BY <1>f, <2>2 DEF ArraysOK, PathsApart, Home
      <3>2. conf[v] \in Op /\ pc[conf[v]] # "idle"
        BY <3>1 DEF TypeOK, ArraysOK
      <3> HIDE DEF v
      <3>3. conf'[v] = conf[v] /\ path'[conf[v]] = path[conf[v]]
        BY <3>1, <3>2 DEF StepKeeps
      <3> QED BY <3>1, <3>2, <3>3 DEF v
    <2>6. ASSUME NEW i \in DOMAIN array'[x]
          PROVE  conf'[array'[x][i]] # None /\ path'[conf'[array'[x][i]]] = p
      <3>1. CASE i = Len(array[x]) + 1
        BY <2>3, <2>4, <3>1
      <3>2. CASE i \in DOMAIN array[x]
        BY <2>3, <2>5, <3>2
      <3> QED BY <2>3, <3>1, <3>2
    <2> QED BY <2>3, <2>6 DEF AtHome, Home
  <1>d. PICK new \in Array : new = Fresh /\ \A p \in Path : ~Serves(new, p)
    <2>1. Fresh \in Array /\ \A p \in Path : ~Serves(Fresh, p)
      BY FreshIsNew DEF Serves
    <2> QED BY <2>1
  \* An empty array has no worker that is not at home.
  <1>g. ASSUME NEW x \in Array, NEW p \in Path, array'[x] = <<>> PROVE AtHome(x, p)'
    <2>1. IsInjective(<<>>) /\ DOMAIN <<>> = {}
      BY DEF IsInjective
    <2> QED BY <1>g, <2>1 DEF AtHome
  \* The workers of a path are at home there.
  <1>h. ASSUME NEW q \in Path, NEW i \in DOMAIN Workers(q)
        PROVE  /\ Workers(q)[i] \in Worker /\ conf[Workers(q)[i]] # None
               /\ path[conf[Workers(q)[i]]] = q
    <2>1. Workers(q) # <<>>
      OBVIOUS
    <2>2. workerPool[q] \in Array /\ Workers(q) = array[workerPool[q]]
      BY <2>1, WorkersOnce
    <2>3. Serves(workerPool[q], q)
      BY DEF Serves
    <2>4. path[conf[Workers(q)[i]]] = q
      BY <2>2, <2>3 DEF PathsApart, Home
    <2> QED BY <2>4, WorkersOnce
  \* An array is filled with workers of path p.
  <1>i. ASSUME NEW x \in Array, NEW p \in Path, IsInjective(array'[x]),
               \A i \in DOMAIN array'[x] : \E j \in DOMAIN Workers(p) : array'[x][i] = Workers(p)[j]
        PROVE  AtHome(x, p)'
    <2>1. ASSUME NEW w \in Worker, conf[w] # None
          PROVE  conf'[w] # None /\ path'[conf'[w]] = path[conf[w]]
      <3>1. conf[w] \in Op /\ pc[conf[w]] # "idle"
        BY <2>1 DEF TypeOK, ArraysOK
      <3> QED BY <2>1, <3>1 DEF StepKeeps
    <2>2. ASSUME NEW i \in DOMAIN array'[x]
          PROVE  conf'[array'[x][i]] # None /\ path'[conf'[array'[x][i]]] = p
      <3>1. PICK j \in DOMAIN Workers(p) : array'[x][i] = Workers(p)[j]
        BY <1>i
      <3> QED BY <1>h, <2>1, <3>1
    <2> QED BY <1>i, <2>2 DEF AtHome, Home
  <1>1. ASSUME NEW a \in Adds, NEW p \in usage.paths, NEW n \in 1..usage.most,
               NEW r \in usage.restarts, AddStart(a, p, n, r)
        PROVE  ArraysOK' /\ PathsApart'
    <2>1. a \in Op /\ a \in Add /\ a \notin Call /\ p \in Path
      BY UsageOK
    <2>2. /\ workerPool' = workerPool /\ todo' = todo /\ path'[a] = p
          /\ \A q \in Op : q # a => pc'[q] = pc[q] /\ path'[q] = path[q] /\ arr'[q] = arr[q]
      BY <1>1, <2>1 DEF AddStart, TypeOK
    <2>3. ASSUME NEW x \in Array, NEW q \in Path, Serves(x, q)'
          PROVE  Serves(x, q) \/ (arr'[a] = x /\ q = p)
      <3>1. \/ workerPool'[q] = x \/ Serves(x, q)
            \/ arr'[a] = x /\ For(a)' = q
        BY <1>a, <2>1, <2>2, <2>3, ServesStep
      <3> QED BY <2>1, <2>2, <3>1 DEF For, Serves
    <2>4. CASE Workers(p) # <<>>
      <3>1. array' = array /\ arr'[a] = workerPool[p]
        BY <1>1, <2>1, <2>4 DEF AddStart, TypeOK
      <3> QED BY <1>c, <2>2, <2>3, <3>1 DEF Serves
    <2>5. CASE Workers(p) = <<>>
      <3>1. arr'[a] = new /\ array' = [array EXCEPT ![new] = <<>>]
        BY <1>1, <1>d, <2>1, <2>5 DEF AddStart, TypeOK
      <3>2. array'[new] = <<>> /\ \A x \in Array : x # new => array'[x] = array[x]
        BY <3>1 DEF TypeOK
      <3>3. AtHome(new, p)'
        BY <1>g, <2>1, <3>2
      <3>4. \A q \in Path : Serves(new, q)' => q = p
        BY <1>d, <2>3
      <3>5. \A x \in Array : x # new => array'[x] = array[x] /\ \A q \in Path : Serves(x, q)' => Serves(x, q)
        BY <2>3, <3>1, <3>2
      <3> QED BY <1>e, <2>1, <2>2, <3>3, <3>4, <3>5
    <2> QED BY <2>4, <2>5
  <1>2. ASSUME NEW a \in Add, Added(a) PROVE ArraysOK' /\ PathsApart'
    <2>0. /\ a \in Op /\ a \notin Call /\ path[a] \in Path /\ arr[a] \in Array /\ pc[a] = "adding"
          /\ arr[a] # None
      BY <1>2, UsageOK DEF Added, BegunOK
    <2>1. PICK p \in Path, x \in Array : p = path[a] /\ x = arr[a]
      BY <2>0
    <2>2. PICK w \in Worker : Created(a, w) /\ array' = [array EXCEPT ![x] = Append(@, w)]
      BY <1>2, <2>1 DEF Added
    <2>3. /\ todo' = todo /\ path' = path /\ arr' = arr
          /\ \A q \in Op : q # a => pc'[q] = pc[q]
          /\ workerPool' = workerPool \/ workerPool' = [workerPool EXCEPT ![p] = x]
      BY <1>2, <2>0, <2>1 DEF Added, TypeOK
    <2>4. Serves(x, p)
      BY <2>0, <2>1 DEF Serves, Holding, For
    <2>5. For(a)' = p
      BY <2>0, <2>1, <2>3 DEF For
    <2>6. conf[w] = None /\ conf' = [conf EXCEPT ![w] = a]
      BY <2>2, CreatedNew
    <2>7. ASSUME NEW y \in Array, NEW q \in Path, Serves(y, q)'
          PROVE  Serves(y, q) \/ (y = x /\ q = p)
      <3>1. \/ workerPool'[q] = y \/ Serves(y, q)
            \/ arr'[a] = y /\ For(a)' = q
        BY <1>a, <2>0, <2>1, <2>3, <2>7, ServesStep
      <3>2. CASE workerPool'[q] = y
        BY <2>1, <2>3, <3>2 DEF Serves, TypeOK
      <3>3. CASE arr'[a] = y /\ For(a)' = q
        BY <2>1, <2>3, <2>5, <3>3
      <3> QED BY <3>1, <3>2, <3>3
    <2>8. array'[x] = Append(array[x], w) /\ \A y \in Array : y # x => array'[y] = array[y]
      BY <2>1, <2>2 DEF TypeOK
    <2>9. AtHome(x, p)'
      BY <1>f, <2>0, <2>1, <2>4, <2>6, <2>8
    <2>10. \A q \in Path : Serves(x, q)' => q = p
      BY <2>1, <2>4, <2>7 DEF PathsApart
    <2>11. \A y \in Array : y # x => array'[y] = array[y] /\ \A q \in Path : Serves(y, q)' => Serves(y, q)
      BY <2>7, <2>8
    <2> QED BY <1>e, <2>1, <2>3, <2>9, <2>10, <2>11
  <1>3. ASSUME NEW a \in Add, AddFails(a) PROVE ArraysOK' /\ PathsApart'
    <2>1. a \in Op /\ a \notin Call
      BY UsageOK
    <2>2. /\ workerPool' = workerPool /\ array' = array /\ todo' = todo /\ path' = path /\ arr' = arr
          /\ pc'[a] = "failed" /\ \A q \in Op : q # a => pc'[q] = pc[q]
      BY <1>3, <2>1 DEF AddFails, jsVars, opVars, TypeOK
    <2>3. \A x \in Array : \A p \in Path : Serves(x, p)' => Serves(x, p)
      BY <2>1, <2>2 DEF Serves, Holding, For
    <2> QED BY <1>c, <2>2, <2>3
  <1>4. ASSUME NEW c \in Call, NEW p \in usage.asked, Arrive(c, p) PROVE ArraysOK' /\ PathsApart'
    <2>1. c \in Op /\ c \notin Add
      BY UsageOK
    <2>2. /\ workerPool' = workerPool /\ array' = array /\ todo' = todo /\ arr' = arr
          /\ pc'[c] = "queued" /\ \A q \in Op : q # c => pc'[q] = pc[q] /\ path'[q] = path[q]
      BY <1>4, <2>1 DEF Arrive, jsVars, TypeOK
    <2>3. \A x \in Array : \A q \in Path : Serves(x, q)' => Serves(x, q)
      BY <2>1, <2>2 DEF Serves, Holding, For
    <2> QED BY <1>c, <2>2, <2>3
  <1>5. ASSUME NEW c \in Call, Scan(c) PROVE ArraysOK' /\ PathsApart'
    <2>1. c \in Op /\ c \notin Add
      BY UsageOK
    <2>2. /\ workerPool' = workerPool /\ array' = array /\ path' = path /\ arr' = arr
          /\ pc'[c] = "expiring" /\ \A q \in Op : q # c => pc'[q] = pc[q]
          /\ \A d \in Call : d # c => todo'[d] = todo[d]
      BY <1>5, <2>1 DEF Scan, jsVars, TypeOK
    <2>3. ASSUME NEW x \in Array, NEW q \in Path, Serves(x, q)' PROVE Serves(x, q)
      <3>1. \/ workerPool'[q] = x \/ Serves(x, q) \/ Holding(c)'
        BY <1>a, <2>1, <2>2, <2>3, ServesStep
      <3> QED BY <2>2, <3>1 DEF Serves, Holding
    <2>4. \A i \in DOMAIN todo'[c] : conf[todo'[c][i][1]] # None /\ Home(todo'[c][i][1]) = todo'[c][i][2]
      <3> DEFINE S == {kp \in Worker \X Path : kp[1] \in ToSet(Workers(kp[2])) /\ conf[kp[1]] \in expired}
      <3>1. S \subseteq Worker \X Path /\ todo'[c] = SetToSeq(S)
        BY <1>5 DEF Scan, TypeOK
      <3>2. \A kp \in S : kp[2] \in Path /\ \E i \in DOMAIN Workers(kp[2]) : Workers(kp[2])[i] = kp[1]
        BY DEF ToSet
      <3> HIDE DEF S
      <3>3. \A i \in DOMAIN todo'[c] : todo'[c][i] \in S
        BY <3>1, ScanFinds
      <3> QED BY <1>h, <3>2, <3>3 DEF Home
    <2>5. \A d \in Call : \A i \in DOMAIN todo'[d] :
              conf[todo'[d][i][1]] # None /\ Home(todo'[d][i][1]) = todo'[d][i][2]
      <3> SUFFICES ASSUME NEW d \in Call, NEW i \in DOMAIN todo'[d]
                   PROVE  conf[todo'[d][i][1]] # None /\ Home(todo'[d][i][1]) = todo'[d][i][2]
        OBVIOUS
      <3>1. CASE d = c
        BY <2>4, <3>1
      <3>2. CASE d # c
        BY <2>2, <3>2 DEF PathsApart
      <3> QED BY <3>1, <3>2
    <2> QED BY <2>2, <2>3, <2>5, ArraysStep
  <1>6. ASSUME NEW c \in Call, Expire(c) PROVE ArraysOK' /\ PathsApart'
    <2>1. /\ c \in Op /\ c \notin Add /\ todo[c] # <<>> /\ pc[c] = "expiring"
          /\ Head(todo[c])[1] \in Worker /\ Head(todo[c])[2] \in Path
      BY <1>6, UsageOK, TodoOK DEF Expire
    <2>2. PICK k \in Worker, p \in Path : k = Head(todo[c])[1] /\ p = Head(todo[c])[2]
      BY <2>1
    <2>3. /\ array' = [array EXCEPT ![new] = Others(k, Workers(p))] /\ path' = path
          /\ \/ /\ arr' = [arr EXCEPT ![c] = new] /\ pc' = [pc EXCEPT ![c] = "restarting"]
                /\ workerPool' = workerPool /\ todo' = todo
             \/ /\ workerPool' = [workerPool EXCEPT ![p] = new] /\ todo' = [todo EXCEPT ![c] = Tail(@)]
                /\ arr' = arr /\ pc' = pc
      BY <1>6, <1>d, <2>2 DEF Expire
    <2>4. \A q \in Op : q # c => /\ pc'[q] = pc[q] /\ path'[q] = path[q] /\ arr'[q] = arr[q]
                                 /\ q \in Call => todo'[q] = todo[q]
      BY <2>1, <2>3 DEF TypeOK
    <2>5. ASSUME NEW x \in Array, NEW q \in Path, Serves(x, q)'
          PROVE  Serves(x, q) \/ (x = new /\ q = p)
      <3>1. \/ workerPool'[q] = x \/ Serves(x, q) \/ (Holding(c)' /\ arr'[c] = x /\ For(c)' = q)
        BY <1>a, <2>1, <2>4, <2>5, ServesStep
      <3>2. CASE workerPool'[q] = x
        BY <2>3, <3>2 DEF Serves, TypeOK
      <3>3. CASE Holding(c)' /\ arr'[c] = x /\ For(c)' = q
        <4>1. arr'[c] = new /\ todo' = todo
          BY <2>1, <2>3, <3>3 DEF Holding, TypeOK
        <4> QED BY <2>1, <2>2, <3>3, <4>1 DEF For
      <3> QED BY <3>1, <3>2, <3>3
    <2>6. AtHome(new, p)'
      <3>1. Workers(p) \in Seq(Worker) /\ IsInjective(Workers(p))
        BY WorkersOnce
      <3>2. array'[new] = Others(k, Workers(p))
        BY <2>3 DEF TypeOK
      <3>3. IsInjective(array'[new]) /\ \A i \in DOMAIN array'[new] :
                \E j \in DOMAIN Workers(p) : array'[new][i] = Workers(p)[j]
        BY <3>1, <3>2, OthersOnce
      <3> QED BY <1>i, <3>3
    <2>7. \A x \in Array : x # new => array'[x] = array[x] /\ \A q \in Path : Serves(x, q)' => Serves(x, q)
      BY <2>3, <2>5 DEF TypeOK
    <2>8. \A q \in Path : Serves(new, q)' => q = p
      BY <1>d, <2>5
    <2>9. \A d \in Call : todo'[d] = todo[d] \/ (todo[d] # <<>> /\ todo'[d] = Tail(todo[d]))
      BY <2>1, <2>3 DEF TypeOK
    <2> QED BY <1>e, <2>6, <2>7, <2>8, <2>9
  <1>7. ASSUME NEW c \in Call, Restarted(c) PROVE ArraysOK' /\ PathsApart'
    <2>1. /\ c \in Op /\ c \notin Add /\ todo[c] # <<>> /\ pc[c] = "restarting" /\ arr[c] \in Array
          /\ Head(todo[c])[1] \in Worker /\ Head(todo[c])[2] \in Path /\ arr[c] # None
      BY <1>7, UsageOK, TodoOK DEF Restarted, BegunOK
    <2>2. PICK k \in Worker, p \in Path, x \in Array :
              k = Head(todo[c])[1] /\ p = Head(todo[c])[2] /\ x = arr[c]
      BY <2>1
    <2>3. PICK w \in Worker : Created(conf[k], w) /\ array' = [array EXCEPT ![x] = Append(@, w)]
      BY <1>7, <2>2 DEF Restarted
    <2>4. /\ workerPool' = [workerPool EXCEPT ![p] = x] /\ todo' = [todo EXCEPT ![c] = Tail(@)]
          /\ pc' = [pc EXCEPT ![c] = "expiring"] /\ path' = path /\ arr' = arr
      BY <1>7, <2>2 DEF Restarted
    <2>5. conf[k] \in Op /\ pc[conf[k]] # "idle" /\ path[conf[k]] = p
      BY <2>1, <2>2, TodoHome
    <2>6. conf[w] = None /\ conf' = [conf EXCEPT ![w] = conf[k]]
      BY <2>3, CreatedNew
    <2>7. Serves(x, p)
      BY <2>1, <2>2 DEF Serves, Holding, For
    <2>8. ASSUME NEW y \in Array, NEW q \in Path, Serves(y, q)'
          PROVE  Serves(y, q) \/ (y = x /\ q = p)
      <3>1. \A o \in Op : o # c => /\ pc'[o] = pc[o] /\ path'[o] = path[o] /\ arr'[o] = arr[o]
                                   /\ o \in Call => todo'[o] = todo[o]
        BY <2>1, <2>4 DEF TypeOK
      <3>2. \/ workerPool'[q] = y \/ Serves(y, q) \/ Holding(c)'
        BY <1>a, <2>1, <2>8, <3>1, ServesStep
      <3>3. ~Holding(c)'
        BY <2>1, <2>4 DEF Holding, TypeOK
      <3> QED BY <2>4, <3>2, <3>3 DEF Serves, TypeOK
    <2>9. array'[x] = Append(array[x], w) /\ \A y \in Array : y # x => array'[y] = array[y]
      BY <2>3 DEF TypeOK
    <2>10. AtHome(x, p)'
      BY <1>f, <2>5, <2>6, <2>7, <2>9
    <2>11. \A q \in Path : Serves(x, q)' => q = p
      BY <2>7, <2>8 DEF PathsApart
    <2>12. \A y \in Array : y # x => array'[y] = array[y] /\ \A q \in Path : Serves(y, q)' => Serves(y, q)
      BY <2>8, <2>9
    <2>13. \A d \in Call : todo'[d] = todo[d] \/ (todo[d] # <<>> /\ todo'[d] = Tail(todo[d]))
      BY <2>1, <2>4 DEF TypeOK
    <2> QED BY <1>e, <2>10, <2>11, <2>12, <2>13
  <1>8. ASSUME NEW c \in Call, GoCold(c) \/ CallFails(c) \/ Fetch(c) PROVE ArraysOK' /\ PathsApart'
    <2>1. PICK s \in {"creating", "failed", "answered", "refused"} : pc' = [pc EXCEPT ![c] = s]
      BY <1>8 DEF GoCold, CallFails, Fetch
    <2>2. /\ workerPool' = workerPool /\ array' = array /\ todo' = todo /\ path' = path /\ arr' = arr
      BY <1>8 DEF GoCold, CallFails, Fetch, jsVars, opVars
    <2>3. pc'[c] \notin {"adding", "restarting"} /\ \A q \in Op : q # c => pc'[q] = pc[q]
      BY <2>1, UsageOK DEF TypeOK
    <2>4. \A x \in Array : \A q \in Path : Serves(x, q)' => Serves(x, q)
      BY <2>2, <2>3 DEF Serves, Holding, For
    <2> QED BY <1>c, <2>2, <2>4
  <1>9. ASSUME NEW c \in Call, ColdCreated(c) PROVE ArraysOK' /\ PathsApart'
    <2>1. /\ c \in Op /\ c \notin Add /\ pc[c] = "creating" /\ path[c] \in Path
      BY <1>9, UsageOK DEF ColdCreated, BegunOK
    <2>2. PICK w \in Worker : Created(c, w) /\ array' = [array EXCEPT ![new] = <<w>>]
      BY <1>9, <1>d DEF ColdCreated
    <2>3. PICK p \in Path : p = path[c]
      BY <2>1
    <2>4. /\ workerPool' = [workerPool EXCEPT ![p] = new] /\ todo' = todo /\ path' = path /\ arr' = arr
          /\ pc'[c] = "fetching" /\ \A q \in Op : q # c => pc'[q] = pc[q]
      BY <1>9, <1>d, <2>1, <2>3 DEF ColdCreated, TypeOK
    <2>5. ASSUME NEW y \in Array, NEW q \in Path, Serves(y, q)'
          PROVE  Serves(y, q) \/ (y = new /\ q = p)
      <3>1. workerPool'[q] = y \/ Serves(y, q) \/ Holding(c)'
        BY <1>a, <2>1, <2>4, <2>5, ServesStep
      <3> QED BY <2>4, <3>1 DEF Serves, Holding, TypeOK
    <2>6. array'[new] = <<w>> /\ \A y \in Array : y # new => array'[y] = array[y]
      BY <2>2 DEF TypeOK
    <2>7. AtHome(new, p)'
      <3>1. conf'[w] = c /\ path'[c] = p /\ c # None
        BY <2>1, <2>2, <2>3, <2>4, CreatedNew, UsageOK DEF TypeOK
      <3>2. IsInjective(<<w>>) /\ DOMAIN <<w>> = {1} /\ <<w>>[1] = w
        BY DEF IsInjective
      <3> QED BY <2>6, <3>1, <3>2 DEF AtHome, Home
    <2>8. \A q \in Path : Serves(new, q)' => q = p
      BY <1>d, <2>5
    <2>9. \A y \in Array : y # new => array'[y] = array[y] /\ \A q \in Path : Serves(y, q)' => Serves(y, q)
      BY <2>5, <2>6
    <2> QED BY <1>e, <2>4, <2>7, <2>8, <2>9
  <1>10. ASSUME NEW c \in Call, PickWorker(c) PROVE ArraysOK' /\ PathsApart'
    <2>1. /\ c \in Op /\ c \notin Add /\ pc[c] = "expiring" /\ path[c] \in Path /\ Workers(path[c]) # <<>>
      BY <1>10, UsageOK DEF PickWorker, BegunOK
    <2>2. workerPool[path[c]] \in Array /\ Workers(path[c]) = array[workerPool[path[c]]]
      BY <2>1, WorkersOnce
    <2>3. PICK p \in Path, x \in Array : p = path[c] /\ x = workerPool[p]
      BY <2>1, <2>2
    <2>4. /\ array' = [array EXCEPT ![x] = Rotate(@)] /\ workerPool' = workerPool
          /\ todo' = todo /\ path' = path /\ arr' = arr
          /\ pc'[c] = "fetching" /\ \A q \in Op : q # c => pc'[q] = pc[q]
      BY <1>10, <2>1, <2>3 DEF PickWorker, TypeOK
    <2>5. \A y \in Array : \A q \in Path : Serves(y, q)' => Serves(y, q)
      BY <2>1, <2>4 DEF Serves, Holding, For
    <2>6. array'[x] = Rotate(Workers(p)) /\ \A y \in Array : y # x => array'[y] = array[y]
      BY <2>2, <2>3, <2>4 DEF TypeOK
    <2>7. AtHome(x, p)'
      <3>1. Workers(p) \in Seq(Worker) /\ IsInjective(Workers(p)) /\ Workers(p) # <<>>
        BY <2>1, <2>3, WorkersOnce
      <3>2. IsInjective(array'[x]) /\ \A i \in DOMAIN array'[x] :
                \E j \in DOMAIN Workers(p) : array'[x][i] = Workers(p)[j]
        BY <2>6, <3>1, RotateOnce
      <3> QED BY <1>i, <3>2
    <2>8. \A q \in Path : Serves(x, q)' => q = p
      <3>1. Serves(x, p)
        BY <2>3 DEF Serves
      <3> QED BY <2>5, <3>1 DEF PathsApart
    <2> QED BY <1>e, <2>4, <2>5, <2>6, <2>7, <2>8
  <1>11. ASSUME NEW p \in Path, ShutdownPath(p) PROVE ArraysOK' /\ PathsApart'
    <2>1. /\ workerPool' = [workerPool EXCEPT ![p] = new] /\ array' = [array EXCEPT ![new] = <<>>]
          /\ pc' = pc /\ path' = path /\ arr' = arr /\ todo' = todo
      BY <1>11, <1>d DEF ShutdownPath, opVars
    <2>2. array'[new] = <<>> /\ \A y \in Array : y # new => array'[y] = array[y]
      BY <2>1 DEF TypeOK
    <2>3. ASSUME NEW y \in Array, NEW q \in Path, Serves(y, q)'
          PROVE  Serves(y, q) \/ (y = new /\ q = p)
      BY <2>1, <2>3 DEF Serves, Holding, For, TypeOK
    <2>4. AtHome(new, p)'
      BY <1>g, <2>2
    <2>5. \A q \in Path : Serves(new, q)' => q = p
      BY <1>d, <2>3
    <2>6. \A y \in Array : y # new => array'[y] = array[y] /\ \A q \in Path : Serves(y, q)' => Serves(y, q)
      BY <2>2, <2>3
    <2> QED BY <1>e, <2>1, <2>4, <2>5, <2>6
  <1>12. ASSUME \/ \E k \in Worker : ShutdownKey(k) \/ LifetimeEnds(k)
                \/ \E o \in Op : ExpireDate(o)
                \/ UNCHANGED vars
         PROVE  ArraysOK' /\ PathsApart'
    <2>1. workerPool' = workerPool /\ array' = array /\ pc' = pc /\ path' = path /\ arr' = arr /\ todo' = todo
      BY <1>12 DEF ShutdownKey, LifetimeEnds, ExpireDate, vars, jsVars, opVars
    <2>2. \A x \in Array : \A q \in Path : Serves(x, q)' => Serves(x, q)
      BY <2>1 DEF Serves, Holding, For
    <2> QED BY <1>c, <2>1, <2>2
  <1> QED
    BY Cases, <1>1, <1>2, <1>3, <1>4, <1>5, <1>6, <1>7, <1>8, <1>9, <1>10, <1>11, <1>12

\* At first there are no workers.
LEMMA InitSafe ==
  ASSUME ConstantsOK, Init
  PROVE  Safe
  <1>1. TypeOK
    <2>1. /\ workerPool \in [Path -> Array \cup {None}] /\ array \in [Array -> Seq(Worker)]
          /\ running \in Call \cup {None} /\ mutex \in Seq(Call)
      BY DEF Init
    <2>2. /\ pc \in [Op -> AddPc \cup CallPc] /\ \A a \in Add : pc[a] \in AddPc
          /\ \A c \in Call : pc[c] \in CallPc
      BY DEF Init, AddPc, CallPc, Op
    <2>3. /\ path \in [Op -> Path \cup {None}] /\ todo \in [Call -> Seq(Worker \X Path)]
          /\ arr \in [Op -> Array \cup {None}] /\ pick \in [Call -> Worker \cup {None}]
          /\ conf \in [Worker -> Op \cup {None}]
      BY DEF Init
    <2>4. left \in [Add -> 0..MaxAdd] /\ num \in [Add -> 0..MaxAdd] /\ restart \in [Op -> BOOLEAN]
      BY DEF Init, ConstantsOK
    <2>5. usage \in Usages /\ expired \subseteq Op /\ registered \subseteq Worker /\ pool \in {"serving", "gone"}
      BY DEF Init
    <2> QED BY <2>1, <2>2, <2>3, <2>4, <2>5 DEF TypeOK
  <1>2. MutexOK
    BY <1>1, UsageOK DEF Init, MutexOK, Inside
  <1>3. BegunOK
    BY <1>1, UsageOK DEF Init, BegunOK
  <1>4. ArraysOK
    <2>1. IsInjective(<<>>) /\ DOMAIN <<>> = {}
      BY DEF IsInjective
    <2> QED BY <2>1 DEF Init, ArraysOK
  <1>5. PathsApart
    <2>1. \A x \in Array : \A p \in Path : ~Serves(x, p)
      BY <1>1, UsageOK DEF Init, Serves, Holding
    <2>2. DOMAIN <<>> = {}
      OBVIOUS
    <2> QED BY <2>1, <2>2 DEF Init, PathsApart
  <1> QED BY <1>1, <1>2, <1>3, <1>4, <1>5 DEF Safe

\* Every step keeps Safe.
LEMMA NextSafe ==
  ASSUME ConstantsOK, Safe, [Next]_vars
  PROVE  Safe'
  <1>1. TypeOK' /\ MutexOK' /\ BegunOK'
    BY NextType, NextMutex, NextBegun DEF Safe
  <1>2. ArraysOK' /\ PathsApart'
    BY <1>1, NextKeeps, NextArrays
  <1> QED BY <1>1, <1>2 DEF Safe

\* Two paths never have the same array: its workers are each other's in one of them only.
LEMMA SafeNoDuplicates ==
  ASSUME ConstantsOK, Safe
  PROVE  NoDuplicateKeys
  <1> USE DEF Safe
  <1>1. \A p \in Path : IsInjective(Workers(p))
    BY WorkersOnce
  <1>2. ASSUME NEW p \in Path, NEW q \in Path, p # q, NEW w \in ToSet(Workers(p)), w \in ToSet(Workers(q))
        PROVE  FALSE
    <2>1. \A r \in Path : w \in ToSet(Workers(r)) => Home(w) = r
      <3> SUFFICES ASSUME NEW r \in Path, NEW i \in DOMAIN Workers(r), Workers(r)[i] = w PROVE Home(w) = r
        BY DEF ToSet
      <3>1. workerPool[r] \in Array /\ Workers(r) = array[workerPool[r]]
        BY WorkersOnce
      <3> QED BY <3>1 DEF PathsApart, Serves
    <2> QED BY <1>2, <2>1
  <1> QED BY <1>1, <1>2 DEF NoDuplicateKeys

-----------------------------------------------------------------------------
(* With no API and no failures                                             *)

\* The same array with the same workers: the path has the workers it had.
LEMMA WorkersSame ==
  ASSUME NEW p, workerPool'[p] = workerPool[p],
         workerPool[p] # None => array'[workerPool[p]] = array[workerPool[p]]
  PROVE  Workers(p)' = Workers(p)
  BY DEF Workers

\* Nobody shuts workers down or fails to create one.
LEMMA QuietSteps ==
  ASSUME ConstantsOK, Safe, Quiet, AddsOK, [Next]_vars
  PROVE  /\ Quiet' /\ Adds \subseteq InitAdd /\ Adds = usage.init /\ pool' = "serving"
         /\ ~CreateThrows
         /\ \A k \in Worker : ~ShutdownKey(k)
         /\ \A p \in Path : ~ShutdownPath(p)
         /\ \A a \in Add : ~AddFails(a)
         /\ \A c \in Call : ~CallFails(c)
  <1> USE DEF Safe
  <1>1. usage' = usage /\ Quiet'
    BY Cases DEF Quiet
  <1>2. ~CreateThrows
    BY DEF CreateThrows, Quiet, AddsOK
  <1>3. /\ \A k \in Worker : ~ShutdownKey(k)
        /\ \A p \in Path : ~ShutdownPath(p)
    BY DEF ShutdownKey, ShutdownPath, Quiet
  <1>4. /\ \A a \in Add : ~AddFails(a)
        /\ \A c \in Call : ~CallFails(c)
    BY <1>2 DEF AddFails, CallFails
  <1>5. pool' = pool
    <2>1. \/ pool' = pool
          \/ (\E a \in Add : Added(a)) \/ (\E c \in Call : Restarted(c) \/ ColdCreated(c))
      BY Cases, <1>3, <1>4 DEF AddStart, Arrive, Scan, Expire, GoCold, PickWorker, Fetch,
         LifetimeEnds, ExpireDate, vars, rustVars
    <2>2. (\E a \in Add : Added(a)) \/ (\E c \in Call : Restarted(c) \/ ColdCreated(c)) => pool' = pool
      BY DEF Added, Restarted, ColdCreated, Created
    <2> QED BY <2>1, <2>2
  <1>6. Adds \subseteq InitAdd /\ Adds = usage.init
    BY UsageOK DEF Adds, Quiet
  <1>7. pool = "serving"
    BY DEF AddsOK
  <1> QED BY <1>1, <1>2, <1>3, <1>4, <1>5, <1>6, <1>7

\* Once a request has come all adds are over.
LEMMA AddsOver ==
  ASSUME ConstantsOK, Safe, Quiet, Initialized
  PROVE  \A a \in Add : pc[a] \in {"idle", "done"} /\ (a \in Adds => pc[a] = "done")
  <1>1. Adds = usage.init
    BY DEF Adds, Quiet
  <1>2. \A a \in Add : pc[a] # "idle" => a \in Adds
    BY DEF Safe, BegunOK
  <1> QED BY <1>1, <1>2, UsageOK DEF Initialized, Safe

\* A step of a request, or of nobody: the adds are as they were.
LEMMA AddsStay ==
  ASSUME ConstantsOK, Safe, Quiet, AddsOK, StepKeeps, pool' = "serving",
         \A a \in Add : pc'[a] = pc[a],
         \/ Initialized /\ \E c \in Call : pc'[c] # "idle"
         \/ workerPool' = workerPool /\ array' = array /\ left' = left /\ arr' = arr /\ \A c \in Call : pc'[c] = pc[c]
  PROVE  AddsOK'
  <1> USE DEF Safe
  <1>0. Add \subseteq Op
    BY UsageOK
  <1>1. \A a, b \in Add : a # b /\ pc'[a] # "idle" /\ pc'[b] # "idle" => path'[a] # path'[b]
    BY <1>0 DEF AddsOK, StepKeeps
  <1>2. \A a \in Add : pc'[a] # "failed"
    BY DEF AddsOK
  <1>3. CASE Initialized /\ \E c \in Call : pc'[c] # "idle"
    <2>1. \A a \in Add : pc'[a] # "adding"
      BY <1>3, AddsOver
    <2> QED BY <1>1, <1>2, <1>3, <2>1 DEF AddsOK
  <1>4. CASE workerPool' = workerPool /\ array' = array /\ left' = left /\ arr' = arr /\ \A c \in Call : pc'[c] = pc[c]
    <2>1. ASSUME NEW a \in Add, pc'[a] = "adding"
          PROVE  /\ \A b \in Add : b # a => pc'[b] \in {"idle", "done"}
                 /\ Len(array'[arr'[a]]) + left'[a] = num'[a]
                 /\ \A i \in DOMAIN array'[arr'[a]] : conf'[array'[arr'[a]][i]] = a
      <3>1. /\ \A b \in Add : b # a => pc[b] \in {"idle", "done"}
            /\ Len(array[arr[a]]) + left[a] = num[a]
            /\ \A i \in DOMAIN array[arr[a]] : conf[array[arr[a]][i]] = a
            /\ arr[a] \in Array /\ a # None
        BY <2>1, UsageOK, <1>0 DEF AddsOK, BegunOK
      <3>2. num'[a] = num[a]
        BY <2>1 DEF StepKeeps
      <3>3. \A i \in DOMAIN array[arr[a]] : array[arr[a]][i] \in Worker
        <4>1. array[arr[a]] \in Seq(Worker)
          BY <3>1 DEF TypeOK
        <4> QED BY <4>1
      <3>4. \A i \in DOMAIN array[arr[a]] : conf'[array[arr[a]][i]] = a
        BY <3>1, <3>3 DEF StepKeeps
      <3> QED BY <1>4, <3>1, <3>2, <3>4
    <2>2. \A p \in Path : workerPool'[p] # None =>
             (\E a \in Add : pc'[a] = "done" /\ path'[a] = p) \/ \E c \in Call : pc'[c] # "idle"
      <3> SUFFICES ASSUME NEW p \in Path, workerPool'[p] # None
                   PROVE  (\E a \in Add : pc'[a] = "done" /\ path'[a] = p) \/ \E c \in Call : pc'[c] # "idle"
        OBVIOUS
      <3>1. (\E a \in Add : pc[a] = "done" /\ path[a] = p) \/ \E c \in Call : pc[c] # "idle"
        BY <1>4 DEF AddsOK
      <3>2. ASSUME NEW a \in Add, pc[a] = "done", path[a] = p PROVE pc'[a] = "done" /\ path'[a] = p
        BY <1>0, <3>2 DEF StepKeeps
      <3> QED BY <1>4, <3>1, <3>2
    <2> QED BY <1>1, <1>2, <2>1, <2>2 DEF AddsOK
  <1> QED BY <1>3, <1>4

\* Every step keeps AddsOK.
LEMMA NextAdds ==
  ASSUME ConstantsOK, Safe, Quiet, AddsOK, [Next]_vars
  PROVE  AddsOK'
  <1> USE DEF Safe
  <1>0. StepKeeps /\ Add \subseteq Op /\ pool' = "serving" /\ Adds \subseteq InitAdd /\ Adds = usage.init
    BY NextKeeps, QuietSteps, UsageOK
  <1>1. ASSUME NEW a \in Adds, NEW p \in usage.paths, NEW n \in 1..usage.most,
               NEW r \in usage.restarts, AddStart(a, p, n, r)
        PROVE  AddsOK'
    <2>1. /\ a \in Op /\ a \in Add /\ p \in Path /\ n \in Nat /\ pc[a] = "idle" /\ ~Initialized
          /\ Fresh \in Array /\ \A q \in Path : workerPool[q] # Fresh
      BY <1>0, <1>1, UsageOK, FreshIsNew DEF AddStart, Initialized
    <2>2. \A b \in Add : pc[b] \in {"idle", "done"} /\ (pc[b] # "idle" => path[b] # p)
      BY <1>0, <1>1 DEF AddStart, BegunOK
    <2>3. \A c \in Call : pc[c] = "idle"
      BY <2>1 DEF BegunOK
    <2>4. workerPool[p] = None
      BY <2>1, <2>2, <2>3 DEF AddsOK
    <2>5. Workers(p) = <<>>
      BY <2>4 DEF Workers
    <2>6. /\ pc' = [pc EXCEPT ![a] = "adding"] /\ path' = [path EXCEPT ![a] = p]
          /\ left'[a] = n /\ num'[a] = n /\ arr'[a] = Fresh /\ array'[Fresh] = <<>> /\ workerPool' = workerPool
      BY <1>1, <2>1, <2>5 DEF AddStart, TypeOK
    <2>7. ASSUME NEW b \in Add
          PROVE  /\ pc'[b] # "failed"
                 /\ pc'[b] = "adding" => b = a
                 /\ b # a => pc'[b] \in {"idle", "done"}
                 /\ \A d \in Add : b # d /\ pc'[b] # "idle" /\ pc'[d] # "idle" => path'[b] # path'[d]
      BY <1>0, <2>1, <2>2, <2>6 DEF AddsOK, TypeOK
    <2>8. Len(array'[arr'[a]]) + left'[a] = num'[a] /\ \A i \in DOMAIN array'[arr'[a]] : conf'[array'[arr'[a]][i]] = a
      <3>1. array'[arr'[a]] = <<>>
        BY <2>6
      <3> QED BY <2>1, <2>6, <3>1
    <2>9. \A q \in Path : workerPool'[q] # None =>
             (\E b \in Add : pc'[b] = "done" /\ path'[b] = q) \/ \E c \in Call : pc'[c] # "idle"
      <3> SUFFICES ASSUME NEW q \in Path, workerPool'[q] # None
                   PROVE  \E b \in Add : pc'[b] = "done" /\ path'[b] = q
        OBVIOUS
      <3>1. \E b \in Add : pc[b] = "done" /\ path[b] = q
        BY <2>3, <2>6 DEF AddsOK
      <3>2. PICK b \in Add : pc[b] = "done" /\ path[b] = q
        BY <3>1
      <3>3. b # a /\ b \in Op
        BY <1>0, <2>1, <3>2
      <3>4. pc'[b] = pc[b] /\ path'[b] = path[b]
        BY <2>6, <3>3 DEF TypeOK
      <3> QED BY <3>2, <3>4
    <2> QED BY <1>0, <2>7, <2>8, <2>9 DEF AddsOK
  <1>2. ASSUME NEW a \in Add, Added(a) PROVE AddsOK'
    <2>1. /\ a \in Op /\ pc[a] = "adding" /\ arr[a] \in Array /\ path[a] \in Path /\ a \in Adds
          /\ left[a] \in Nat /\ num[a] \in Nat /\ ~Initialized /\ left[a] >= 1
      BY <1>0, <1>2, UsageOK DEF Added, BegunOK, TypeOK, Initialized
    <2>2. PICK w \in Worker : Created(a, w) /\ array' = [array EXCEPT ![arr[a]] = Append(@, w)]
      BY <1>2 DEF Added
    <2>3. \A c \in Call : pc[c] = "idle"
      BY <2>1 DEF BegunOK
    <2>4. /\ \A b \in Add : b # a => pc[b] \in {"idle", "done"}
          /\ Len(array[arr[a]]) + left[a] = num[a]
          /\ \A i \in DOMAIN array[arr[a]] : conf[array[arr[a]][i]] = a
      BY <2>1 DEF AddsOK
    <2>5. /\ path' = path /\ arr' = arr /\ num' = num /\ left'[a] = left[a] - 1
          /\ array'[arr[a]] = Append(array[arr[a]], w) /\ conf[w] = None /\ conf' = [conf EXCEPT ![w] = a]
          /\ array[arr[a]] \in Seq(Worker)
      BY <1>2, <2>1, <2>2, CreatedNew DEF Added, TypeOK
    <2>6. \/ pc' = [pc EXCEPT ![a] = "done"] /\ workerPool' = [workerPool EXCEPT ![path[a]] = arr[a]]
          \/ pc' = pc /\ workerPool' = workerPool
      BY <1>2 DEF Added
    <2>7. ASSUME NEW b \in Add
          PROVE  /\ pc'[b] # "failed"
                 /\ pc'[b] = "adding" => b = a
                 /\ b # a => pc'[b] \in {"idle", "done"}
                 /\ \A d \in Add : b # d /\ pc'[b] # "idle" /\ pc'[d] # "idle" => path'[b] # path'[d]
      <3>1. \A d \in Add : d # a => pc'[d] = pc[d]
        BY <1>0, <2>1, <2>6 DEF TypeOK
      <3>2. pc'[a] \in {"adding", "done"}
        BY <1>0, <2>1, <2>6 DEF TypeOK
      <3> QED BY <2>1, <2>4, <2>5, <3>1, <3>2 DEF AddsOK
    <2>8. Len(array'[arr'[a]]) + left'[a] = num'[a] /\ \A i \in DOMAIN array'[arr'[a]] : conf'[array'[arr'[a]][i]] = a
      <3> DEFINE s == array[arr[a]]
      <3>1. s \in Seq(Worker) /\ array'[arr'[a]] = Append(s, w) /\ Len(s) + left[a] = num[a]
            /\ (\A i \in DOMAIN s : conf[s[i]] = a) /\ a # None
        BY <2>1, <2>4, <2>5, UsageOK
      <3> HIDE DEF s
      <3>2. Len(Append(s, w)) = Len(s) + 1 /\ Len(s) \in Nat /\ DOMAIN Append(s, w) = 1..(Len(s) + 1)
            /\ Append(s, w)[Len(s) + 1] = w
            /\ \A i \in 1..Len(s) : Append(s, w)[i] = s[i] /\ i \in DOMAIN s /\ s[i] \in Worker
        BY <3>1
      <3>3. Len(array'[arr'[a]]) + left'[a] = num'[a]
        <4>1. Len(array'[arr'[a]]) = Len(s) + 1 /\ Len(s) \in Nat /\ Len(s) + left[a] = num[a]
          BY <3>1, <3>2
        <4>2. left'[a] = left[a] - 1 /\ num'[a] = num[a]
          BY <2>5
        <4> QED BY <2>1, <4>1, <4>2
      <3>4. conf'[w] = a /\ \A i \in 1..Len(s) : conf'[s[i]] = a
        <4>1. \A i \in 1..Len(s) : conf[s[i]] = a /\ s[i] # w
          BY <2>5, <3>1, <3>2
        <4>2. conf'[w] = a /\ \A v \in Worker : v # w => conf'[v] = conf[v]
          BY <2>5 DEF TypeOK
        <4>3. \A i \in 1..Len(s) : s[i] \in Worker
          BY <3>2
        <4> QED BY <4>1, <4>2, <4>3
      <3> DEFINE t == Append(s, w)
                 n == Len(s)
      <3>5. DOMAIN t = 1..(n + 1) /\ n \in Nat /\ t[n + 1] = w /\ \A i \in 1..n : t[i] = s[i]
        BY <3>2
      <3>6. conf'[w] = a /\ \A i \in 1..n : conf'[s[i]] = a
        BY <3>4
      <3>7. array'[arr'[a]] = t
        BY <3>1
      <3> HIDE DEF t, n
      <3>8. \A i \in DOMAIN t : conf'[t[i]] = a
        <4>1. \A i \in 1..(n + 1) : i \in 1..n \/ i = n + 1
          BY <3>5
        <4> QED BY <3>5, <3>6, <4>1
      <3> QED BY <3>3, <3>7, <3>8
    <2>9. \A q \in Path : workerPool'[q] # None =>
             (\E b \in Add : pc'[b] = "done" /\ path'[b] = q) \/ \E c \in Call : pc'[c] # "idle"
      <3> SUFFICES ASSUME NEW q \in Path, workerPool'[q] # None
                   PROVE  \E b \in Add : pc'[b] = "done" /\ path'[b] = q
        OBVIOUS
      <3>1. CASE pc' = [pc EXCEPT ![a] = "done"] /\ q = path[a]
        BY <2>1, <2>5, <3>1 DEF TypeOK
      <3>2. CASE workerPool'[q] = workerPool[q]
        <4>1. \E b \in Add : pc[b] = "done" /\ path[b] = q
          BY <2>3, <3>2 DEF AddsOK
        <4>2. PICK b \in Add : pc[b] = "done" /\ path[b] = q
          BY <4>1
        <4>3. b # a /\ b \in Op
          BY <1>0, <2>1, <4>2
        <4>4. pc'[b] = pc[b]
          BY <2>6, <4>3 DEF TypeOK
        <4> QED BY <2>5, <4>2, <4>4
      <3> QED BY <2>6, <3>1, <3>2 DEF TypeOK
    <2> QED BY <1>0, <2>7, <2>8, <2>9 DEF AddsOK
  <1>3. ASSUME NEW c \in Call, NEW s, s # "idle", pc' = [pc EXCEPT ![c] = s] \/ (pc' = pc /\ pc[c] # "idle"),
               Initialized
        PROVE  AddsOK'
    <2>1. /\ \A a \in Add : pc'[a] = pc[a]
          /\ pc'[c] # "idle"
      BY <1>3, UsageOK DEF TypeOK
    <2> QED BY <1>0, <1>3, <2>1, AddsStay
  <1>4. ASSUME NEW c \in Call, NEW p \in usage.asked, Arrive(c, p) PROVE AddsOK'
    BY <1>3, <1>4 DEF Arrive
  <1>5. ASSUME NEW c \in Call, Scan(c) \/ Expire(c) \/ Restarted(c) \/ GoCold(c) \/ ColdCreated(c)
                               \/ PickWorker(c) \/ Fetch(c)
        PROVE  AddsOK'
    <2>1. pc[c] # "idle" /\ Initialized
      BY <1>5 DEF Scan, Expire, Restarted, GoCold, ColdCreated, PickWorker, Fetch, BegunOK
    <2>2. PICK s \in {"expiring", "restarting", "creating", "fetching", "failed", "answered", "refused"} :
              pc' = [pc EXCEPT ![c] = s] \/ pc' = pc
      BY <1>5 DEF Scan, Expire, Restarted, GoCold, ColdCreated, PickWorker, Fetch
    <2>3. s # "idle"
      OBVIOUS
    <2> QED BY <1>3, <2>1, <2>2, <2>3
  <1>6. ASSUME \/ \E k \in Worker : LifetimeEnds(k)
               \/ \E o \in Op : ExpireDate(o)
               \/ UNCHANGED vars
        PROVE  AddsOK'
    <2>1. pc' = pc /\ UNCHANGED jsVars /\ UNCHANGED opVars
      BY <1>6 DEF LifetimeEnds, ExpireDate, vars
    <2> QED BY <1>0, <2>1, AddsStay DEF jsVars, opVars
  <1> QED
    BY Cases, QuietSteps, <1>1, <1>2, <1>4, <1>5, <1>6

\* Without a restart of c's pending, nobody else is inside the mutex.
LEMMA AloneInside ==
  ASSUME Safe, NEW c \in Call, pc[c] \in Inside \/ (mutex # <<>> /\ Head(mutex) = c)
  PROVE  \A d \in Call : d # c => pc[d] \notin Inside
  BY DEF Safe, MutexOK

\* Nobody is inside the mutex.
LEMMA NobodyInside ==
  ASSUME \A c \in Call : pc'[c] \notin Inside
  PROVE  ExpiredOK'
  BY DEF ExpiredOK, Inside

\* Every path has the workers it had, and nobody has entered the mutex.
LEMMA ExpiredStay ==
  ASSUME ConstantsOK, Safe, StepKeeps, ExpiredOK,
         \A a \in Add : pc'[a] = pc[a],
         \A p \in Path : Workers(p)' = Workers(p),
         array' = array, arr' = arr, todo' = todo,
         \A c \in Call : pc'[c] \in Inside => pc'[c] = pc[c]
  PROVE  ExpiredOK'
  <1>1. \A p \in Path : \A w : Has(p, w)' <=> Has(p, w)
    BY DEF Has
  <1>2. \A a \in Add : Kept(a)' => Kept(a) /\ path'[a] = path[a]
    BY UsageOK DEF Kept, StepKeeps, Safe, Op
  <1>3. ASSUME NEW c \in Call, pc'[c] \in {"expiring", "restarting"}
        PROVE  /\ IsInjective(todo'[c])
               /\ \A i \in DOMAIN todo'[c], w \in Worker, p \in Path :
                      todo'[c][i] = <<w, p>> => Has(p, w)'
    BY <1>1, <1>3 DEF ExpiredOK, Inside
  <1>4. ASSUME NEW c \in Call, pc'[c] = "restarting", NEW w \in Worker, NEW p \in Path, Head(todo'[c]) = <<w, p>>
        PROVE  /\ Len(array'[arr'[c]]) = Len(Workers(p)') - 1
               /\ \A v \in Worker : v \in ToSet(array'[arr'[c]]) <=> Has(p, v)' /\ v # w
    <2>1. pc[c] = "restarting" /\ Head(todo[c]) = <<w, p>>
      BY <1>4 DEF Inside
    <2>2. /\ Len(array[arr[c]]) = Len(Workers(p)) - 1
          /\ \A v \in Worker : v \in ToSet(array[arr[c]]) <=> Has(p, v) /\ v # w
      BY <2>1 DEF ExpiredOK
    <2> QED BY <1>1, <2>2
  <1>5. ASSUME NEW c \in Call, pc'[c] = "creating", NEW a \in Add, Kept(a)' PROVE path'[c] # path'[a]
    <2>1. pc[c] = "creating" /\ c \in Op
      BY <1>5 DEF Inside, Op
    <2>2. path'[c] = path[c]
      BY <2>1 DEF StepKeeps
    <2> QED BY <1>2, <1>5, <2>1, <2>2 DEF ExpiredOK
  <1> QED BY <1>3, <1>4, <1>5 DEF ExpiredOK

\* c is alone inside the mutex.
LEMMA ExpiredOne ==
  ASSUME NEW c \in Call, \A d \in Call : d # c => pc'[d] \notin Inside,
         pc'[c] \in {"expiring", "restarting"} =>
             /\ IsInjective(todo'[c])
             /\ \A i \in DOMAIN todo'[c], w \in Worker, p \in Path :
                    todo'[c][i] = <<w, p>> => Has(p, w)',
         pc'[c] = "restarting" =>
             \A w \in Worker, p \in Path : Head(todo'[c]) = <<w, p>> =>
                 /\ Len(array'[arr'[c]]) = Len(Workers(p)') - 1
                 /\ \A v \in Worker : v \in ToSet(array'[arr'[c]]) <=> Has(p, v)' /\ v # w,
         pc'[c] = "creating" => \A a \in Add : Kept(a)' => path'[c] # path'[a]
  PROVE  ExpiredOK'
  <1>1. ASSUME NEW d \in Call, d # c
        PROVE  pc'[d] \notin {"expiring", "restarting"} /\ pc'[d] # "restarting" /\ pc'[d] # "creating"
    BY <1>1 DEF Inside
  <1> QED BY <1>1 DEF ExpiredOK

\* What the workers of a path are
LEMMA HasHome ==
  ASSUME ConstantsOK, Safe, NEW p \in Path
  PROVE  /\ \A w : Has(p, w) => w \in Worker /\ conf[w] \in Op /\ pc[conf[w]] # "idle" /\ path[conf[w]] = p
         /\ \A w : Has(p, w) => workerPool[p] \in Array /\ Serves(workerPool[p], p)
  <1> USE DEF Safe
  <1> SUFFICES ASSUME NEW w, Has(p, w)
               PROVE  /\ w \in Worker /\ conf[w] \in Op /\ pc[conf[w]] # "idle" /\ path[conf[w]] = p
                      /\ workerPool[p] \in Array /\ Serves(workerPool[p], p)
    OBVIOUS
  <1>1. PICK j \in DOMAIN Workers(p) : Workers(p)[j] = w
    BY DEF Has
  <1>2. /\ workerPool[p] \in Array /\ Workers(p) = array[workerPool[p]]
        /\ w \in Worker /\ conf[w] # None
    BY <1>1, WorkersOnce
  <1>3. Serves(workerPool[p], p)
    BY DEF Serves
  <1>4. path[conf[w]] = p
    BY <1>1, <1>2, <1>3 DEF PathsApart, Home
  <1>5. conf[w] \in Op /\ pc[conf[w]] # "idle"
    BY <1>2 DEF TypeOK, ArraysOK
  <1> QED BY <1>2, <1>3, <1>4, <1>5

\* A path that x does not serve has the workers it had.
LEMMA WorkersStay ==
  ASSUME Safe, NEW x, \A y \in Array : y # x => array'[y] = array[y],
         NEW p \in Path, workerPool'[p] = workerPool[p], ~Serves(x, p)
  PROVE  Workers(p)' = Workers(p) /\ \A w : Has(p, w)' <=> Has(p, w)
  <1>1. workerPool[p] # x /\ workerPool[p] \in Array \cup {None}
    BY DEF Serves, Safe, TypeOK
  <1>2. Workers(p)' = Workers(p)
    BY <1>1, WorkersSame
  <1> QED BY <1>2 DEF Has

\* What an expired worker leaves to its path
LEMMA OthersHas ==
  ASSUME ConstantsOK, Safe, NEW p \in Path, NEW k
  PROVE  /\ \A v : v \in ToSet(Others(k, Workers(p))) <=> Has(p, v) /\ v # k
         /\ Has(p, k) => Len(Others(k, Workers(p))) = Len(Workers(p)) - 1
  <1>1. Workers(p) \in Seq(Worker) /\ IsInjective(Workers(p))
    BY WorkersOnce DEF Safe
  <1> DEFINE s == Workers(p)
             t == Others(k, s)
  <1>2. /\ \A j \in DOMAIN t : t[j] # k /\ \E i \in DOMAIN s : s[i] = t[j]
        /\ \A i \in DOMAIN s : s[i] # k => \E j \in DOMAIN t : t[j] = s[i]
        /\ (\E i \in DOMAIN s : s[i] = k) => Len(t) = Len(s) - 1
    BY <1>1, OthersOnce
  <1>3. \A v : Has(p, v) <=> \E i \in DOMAIN s : s[i] = v
    BY DEF Has
  <1>4. \A v : v \in ToSet(t) <=> \E j \in DOMAIN t : t[j] = v
    BY DEF ToSet
  <1> HIDE DEF s, t
  <1>5. \A v : v \in ToSet(t) <=> Has(p, v) /\ v # k
    BY <1>2, <1>3, <1>4
  <1>6. Has(p, k) => Len(t) = Len(s) - 1
    BY <1>2, <1>3
  <1> QED BY <1>5, <1>6 DEF s, t

\* A path whose array is x has the workers in x.
LEMMA HasIn ==
  ASSUME NEW p \in Path, NEW x, x # None, workerPool'[p] = x
  PROVE  Workers(p)' = array'[x] /\ \A v : Has(p, v)' <=> v \in ToSet(array'[x])
  BY DEF Workers, Has, ToSet

\* What a call still has to expire.
LEMMA TailOnce ==
  ASSUME NEW c \in Call, Safe, todo[c] # <<>>, IsInjective(todo[c])
  PROVE  IsInjective(Tail(todo[c])) /\ \A i \in DOMAIN Tail(todo[c]) : Tail(todo[c])[i] # Head(todo[c])
  <1>1. /\ 1 \in DOMAIN todo[c] /\ Head(todo[c]) = todo[c][1]
        /\ DOMAIN todo[c] = 1..Len(todo[c]) /\ Len(todo[c]) \in Nat
        /\ \A i \in DOMAIN Tail(todo[c]) : i + 1 \in DOMAIN todo[c] /\ Tail(todo[c])[i] = todo[c][i + 1]
    BY TodoOK DEF Safe
  <1>2. todo[c] \in Seq(Worker \X Path)
    BY DEF Safe, TypeOK
  <1>3. DOMAIN Tail(todo[c]) \subseteq Nat /\ \A i \in DOMAIN Tail(todo[c]) : i >= 1
    BY <1>2
  <1>4. \A i, j \in DOMAIN Tail(todo[c]) : Tail(todo[c])[i] = Tail(todo[c])[j] => i + 1 = j + 1
    BY <1>1 DEF IsInjective
  <1>5. \A i, j \in DOMAIN Tail(todo[c]) : Tail(todo[c])[i] = Tail(todo[c])[j] => i = j
    BY <1>3, <1>4
  <1>6. ASSUME NEW i \in DOMAIN Tail(todo[c]), Tail(todo[c])[i] = Head(todo[c]) PROVE FALSE
    <2>1. i + 1 = 1
      BY <1>1, <1>6 DEF IsInjective
    <2> QED BY <1>3, <2>1
  <1> QED BY <1>5, <1>6 DEF IsInjective

\* What Expire does: the filtered array is the path's, or will be after the restart.
LEMMA ExpireEffect ==
  ASSUME ConstantsOK, Safe, ExpiredOK, NEW c \in Call, Expire(c)
  PROVE  \E k \in Worker, p \in Path :
            /\ Head(todo[c]) = <<k, p>> /\ Has(p, k)
            /\ IsInjective(todo[c])
            /\ \A q \in Path : q # p => Workers(q)' = Workers(q) /\ \A v : Has(q, v)' <=> Has(q, v)
            /\ \/ /\ pc'[c] = "restarting" /\ todo'[c] = todo[c]
                  /\ Workers(p)' = Workers(p) /\ \A v : Has(p, v)' <=> Has(p, v)
                  /\ Len(array'[arr'[c]]) = Len(Workers(p)) - 1
                  /\ \A v : v \in ToSet(array'[arr'[c]]) <=> Has(p, v) /\ v # k
               \/ /\ pc'[c] = "expiring" /\ todo'[c] = Tail(todo[c])
                  /\ ~restart[conf[k]]
                  /\ \A v : Has(p, v)' <=> Has(p, v) /\ v # k
  <1> USE DEF Safe
  <1>1. PICK new \in Array : new = Fresh /\ new # None /\ \A p \in Path : ~Serves(new, p)
    <2>1. Fresh \in Array /\ Fresh # None /\ \A p \in Path : ~Serves(Fresh, p)
      BY FreshIsNew DEF Serves
    <2> QED BY <2>1
  <1>2. todo[c] # <<>> /\ Head(todo[c]) \in Worker \X Path /\ 1 \in DOMAIN todo[c] /\ Head(todo[c]) = todo[c][1]
    BY TodoOK DEF Expire
  <1>3. PICK k \in Worker, p \in Path :
            Head(todo[c]) = <<k, p>> /\ k = Head(todo[c])[1] /\ p = Head(todo[c])[2]
    BY <1>2
  <1>4. pc[c] = "expiring" /\ c \in Op
    BY DEF Expire, Op
  <1>5. IsInjective(todo[c]) /\ Has(p, k)
    BY <1>2, <1>3, <1>4 DEF ExpiredOK
  <1>6. /\ array' = [array EXCEPT ![new] = Others(k, Workers(p))]
        /\ \/ /\ arr' = [arr EXCEPT ![c] = new] /\ pc' = [pc EXCEPT ![c] = "restarting"]
              /\ workerPool' = workerPool /\ todo' = todo
           \/ /\ workerPool' = [workerPool EXCEPT ![p] = new] /\ todo' = [todo EXCEPT ![c] = Tail(@)]
              /\ pc' = pc /\ ~restart[conf[k]]
    BY <1>1, <1>3 DEF Expire
  <1>7. array'[new] = Others(k, Workers(p)) /\ \A y \in Array : y # new => array'[y] = array[y]
    BY <1>6 DEF TypeOK
  <1>8. ASSUME NEW q \in Path, workerPool'[q] = workerPool[q]
        PROVE  Workers(q)' = Workers(q) /\ \A v : Has(q, v)' <=> Has(q, v)
    BY <1>1, <1>7, <1>8, WorkersStay
  <1>9. \A q \in Path : q # p => workerPool'[q] = workerPool[q]
    BY <1>6 DEF TypeOK
  <1>10. CASE arr' = [arr EXCEPT ![c] = new] /\ pc' = [pc EXCEPT ![c] = "restarting"]
              /\ workerPool' = workerPool /\ todo' = todo
    <2>1. arr'[c] = new /\ pc'[c] = "restarting" /\ todo'[c] = todo[c]
      BY <1>4, <1>10 DEF TypeOK
    <2>2. Workers(p)' = Workers(p) /\ \A v : Has(p, v)' <=> Has(p, v)
      BY <1>8, <1>10
    <2>3. /\ Len(array'[arr'[c]]) = Len(Workers(p)) - 1
          /\ \A v : v \in ToSet(array'[arr'[c]]) <=> Has(p, v) /\ v # k
      BY <1>5, <1>7, <2>1, OthersHas
    <2> QED BY <1>3, <1>5, <1>8, <1>9, <2>1, <2>2, <2>3
  <1>11. CASE workerPool' = [workerPool EXCEPT ![p] = new] /\ todo' = [todo EXCEPT ![c] = Tail(@)]
              /\ pc' = pc /\ ~restart[conf[k]]
    <2>1. workerPool'[p] = new /\ todo'[c] = Tail(todo[c]) /\ pc'[c] = "expiring"
      BY <1>4, <1>11 DEF TypeOK
    <2>2. \A v : Has(p, v)' <=> v \in ToSet(array'[new])
      BY <1>1, <2>1, HasIn
    <2>3. \A v : Has(p, v)' <=> Has(p, v) /\ v # k
      BY <1>7, <2>2, OthersHas
    <2> QED BY <1>3, <1>5, <1>8, <1>9, <1>11, <2>1, <2>3
  <1> QED BY <1>6, <1>10, <1>11

\* What Restarted does: the new worker stands in for the expired one.
LEMMA RestartEffect ==
  ASSUME ConstantsOK, Safe, ExpiredOK, NEW c \in Call, Restarted(c)
  PROVE  \E k \in Worker, p \in Path, w \in Worker :
            /\ Head(todo[c]) = <<k, p>> /\ Has(p, k)
            /\ IsInjective(todo[c]) /\ todo[c] # <<>>
            /\ \A q \in Path : q # p => Workers(q)' = Workers(q) /\ \A v : Has(q, v)' <=> Has(q, v)
            /\ pc'[c] = "expiring" /\ todo'[c] = Tail(todo[c])
            /\ conf' = [conf EXCEPT ![w] = conf[k]]
            /\ Len(Workers(p)') = Len(Workers(p))
            /\ \A v \in Worker : Has(p, v)' <=> v = w \/ (Has(p, v) /\ v # k)
  <1> USE DEF Safe
  <1>1. /\ c \in Op /\ todo[c] # <<>> /\ pc[c] = "restarting" /\ arr[c] \in Array /\ arr[c] # None
        /\ Head(todo[c]) \in Worker \X Path /\ 1 \in DOMAIN todo[c] /\ Head(todo[c]) = todo[c][1]
        /\ c \notin Add
    BY UsageOK, TodoOK DEF Restarted, BegunOK
  <1>2. PICK k \in Worker, p \in Path, x \in Array :
            /\ Head(todo[c]) = <<k, p>> /\ k = Head(todo[c])[1] /\ p = Head(todo[c])[2]
            /\ x = arr[c] /\ x # None
    BY <1>1
  <1>3. PICK w \in Worker : Created(conf[k], w) /\ array' = [array EXCEPT ![x] = Append(@, w)]
    BY <1>2 DEF Restarted
  <1>4. /\ workerPool' = [workerPool EXCEPT ![p] = x] /\ todo' = [todo EXCEPT ![c] = Tail(@)]
        /\ pc' = [pc EXCEPT ![c] = "expiring"]
    BY <1>2 DEF Restarted
  <1>5. Serves(x, p)
    BY <1>1, <1>2 DEF Serves, Holding, For
  <1>6. /\ IsInjective(todo[c]) /\ Has(p, k)
        /\ Len(array[x]) = Len(Workers(p)) - 1
        /\ \A v \in Worker : v \in ToSet(array[x]) <=> Has(p, v) /\ v # k
    BY <1>1, <1>2 DEF ExpiredOK
  <1>7. array'[x] = Append(array[x], w) /\ \A y \in Array : y # x => array'[y] = array[y]
    BY <1>3 DEF TypeOK
  <1>8. ASSUME NEW q \in Path, q # p
        PROVE  Workers(q)' = Workers(q) /\ \A v : Has(q, v)' <=> Has(q, v)
    <2>1. workerPool'[q] = workerPool[q] /\ ~Serves(x, q)
      BY <1>4, <1>5, <1>8 DEF TypeOK, PathsApart
    <2> QED BY <1>7, <2>1, WorkersStay
  <1>9. array[x] \in Seq(Worker) /\ Workers(p) \in Seq(Worker)
    BY WorkersOnce DEF TypeOK
  <1>10. workerPool'[p] = x /\ todo'[c] = Tail(todo[c]) /\ pc'[c] = "expiring"
    BY <1>1, <1>4 DEF TypeOK
  <1>11. Workers(p)' = array'[x] /\ \A v : Has(p, v)' <=> v \in ToSet(array'[x])
    BY <1>2, <1>10, HasIn
  <1>12. /\ Len(Append(array[x], w)) = Len(array[x]) + 1 /\ Len(array[x]) \in Nat /\ Len(Workers(p)) \in Nat
         /\ \A v : v \in ToSet(Append(array[x], w)) <=> v = w \/ v \in ToSet(array[x])
    <2> DEFINE s == array[x]
               t == Append(s, w)
               n == Len(s)
    <2>1. /\ Len(t) = n + 1 /\ n \in Nat /\ Len(Workers(p)) \in Nat /\ DOMAIN t = 1..(n + 1)
          /\ t[n + 1] = w /\ DOMAIN s = 1..n /\ \A i \in 1..n : t[i] = s[i]
      BY <1>9
    <2> HIDE DEF s, t, n
    <2>2. \A v : v \in ToSet(t) <=> v = w \/ v \in ToSet(s)
      <3>1. \A i \in 1..(n + 1) : i \in 1..n \/ i = n + 1
        BY <2>1
      <3>2. (\A i \in 1..n : i \in 1..(n + 1)) /\ n + 1 \in 1..(n + 1)
        BY <2>1
      <3> QED BY <2>1, <3>1, <3>2 DEF ToSet
    <2> QED BY <2>1, <2>2 DEF s, t, n
  <1>13. Len(Workers(p)') = Len(Workers(p))
    BY <1>6, <1>7, <1>11, <1>12
  <1>14. \A v \in Worker : Has(p, v)' <=> v = w \/ (Has(p, v) /\ v # k)
    BY <1>6, <1>7, <1>11, <1>12
  <1>15. conf' = [conf EXCEPT ![w] = conf[k]]
    BY <1>3, CreatedNew
  <1> WITNESS k \in Worker, p \in Path, w \in Worker
  <1> QED BY <1>1, <1>2, <1>6, <1>8, <1>10, <1>13, <1>14, <1>15

\* Every step keeps ExpiredOK.
LEMMA NextExpired ==
  ASSUME ConstantsOK, Safe, Quiet, AddsOK, ExpiredOK, NumbersOK, [Next]_vars
  PROVE  ExpiredOK'
  <1> USE DEF Safe
  <1>0. StepKeeps /\ Add \subseteq Op /\ pool' = "serving" /\ Adds \subseteq InitAdd /\ Adds = usage.init
    BY NextKeeps, QuietSteps, UsageOK
  <1>1. ASSUME NEW a \in Adds, NEW p \in usage.paths, NEW n \in 1..usage.most,
               NEW r \in usage.restarts, AddStart(a, p, n, r)
        PROVE  ExpiredOK'
    <2>1. ~Initialized /\ a \in Add
      BY <1>0, <1>1, UsageOK DEF AddStart, Initialized
    <2>2. \A c \in Call : pc'[c] = "idle"
      BY <1>1, <2>1, UsageOK DEF AddStart, BegunOK, TypeOK
    <2> QED BY <2>2, NobodyInside DEF Inside
  <1>2. ASSUME NEW a \in Add, Added(a) PROVE ExpiredOK'
    <2>1. ~Initialized
      BY <1>0, <1>2 DEF Added, Initialized, BegunOK
    <2>2. pc' = [pc EXCEPT ![a] = "done"] \/ pc' = pc
      BY <1>2 DEF Added
    <2>3. \A c \in Call : pc'[c] = "idle"
      BY <2>1, <2>2, UsageOK DEF BegunOK, TypeOK
    <2> QED BY <2>3, NobodyInside DEF Inside
  <1>3. ASSUME NEW c \in Call, NEW s, s \notin Inside, pc' = [pc EXCEPT ![c] = s],
               UNCHANGED jsVars, arr' = arr, todo' = todo
        PROVE  ExpiredOK'
    <2>1. (\A a \in Add : pc'[a] = pc[a]) /\ \A d \in Call : pc'[d] \in Inside => pc'[d] = pc[d]
      BY <1>3, UsageOK DEF TypeOK
    <2>2. \A p \in Path : Workers(p)' = Workers(p)
      BY <1>3, WorkersSame DEF jsVars
    <2> QED BY <1>0, <1>3, <2>1, <2>2, ExpiredStay DEF jsVars
  <1>4. ASSUME NEW c \in Call, NEW p \in usage.asked, Arrive(c, p) PROVE ExpiredOK'
    BY <1>3, <1>4 DEF Arrive, Inside
  <1>5. ASSUME NEW c \in Call, Scan(c) PROVE ExpiredOK'
    <2>1. c \in Op /\ pc'[c] = "expiring" /\ \A d \in Call : d # c => pc'[d] = pc[d]
      BY <1>5, UsageOK DEF Scan, TypeOK
    <2>2. mutex # <<>> /\ Head(mutex) = c
      <3>1. \E i \in DOMAIN mutex : mutex[i] = c
        BY <1>5 DEF Scan, MutexOK
      <3> QED BY <1>5, <3>1 DEF Scan, Exclusive, TypeOK
    <2>3. \A d \in Call : d # c => pc'[d] \notin Inside
      BY <2>1, <2>2, AloneInside
    <2>4. /\ IsInjective(todo'[c])
          /\ \A i \in DOMAIN todo'[c], w \in Worker, p \in Path :
                    todo'[c][i] = <<w, p>> => Has(p, w)'
      <3> DEFINE S == {kp \in Worker \X Path : kp[1] \in ToSet(Workers(kp[2])) /\ conf[kp[1]] \in expired}
      <3>1. S \subseteq Worker \X Path /\ todo'[c] = SetToSeq(S)
        BY <1>5 DEF Scan, TypeOK
      <3>2. \A w, p : <<w, p>> \in S => Has(p, w)
        BY DEF ToSet, Has
      <3> HIDE DEF S
      <3>3. IsInjective(todo'[c]) /\ \A i \in DOMAIN todo'[c] : todo'[c][i] \in S
        BY <3>1, ScanFinds
      <3>4. \A p \in Path : \A w : Has(p, w)' <=> Has(p, w)
        BY <1>5 DEF Scan, jsVars, Has, Workers
      <3> QED BY <3>2, <3>3, <3>4
    <2> QED BY <2>1, <2>3, <2>4, ExpiredOne
  <1>6. ASSUME NEW c \in Call, pc[c] \in Inside, NEW s, pc' = [pc EXCEPT ![c] = s] \/ pc' = pc
        PROVE  \A d \in Call : d # c => pc'[d] \notin Inside
    <2>1. \A d \in Call : d # c => pc'[d] = pc[d]
      BY <1>6, UsageOK DEF TypeOK
    <2> QED BY <1>6, <2>1, AloneInside
  <1>7. ASSUME NEW c \in Call, Expire(c) PROVE ExpiredOK'
    <2>1. \A d \in Call : d # c => pc'[d] \notin Inside
      BY <1>6, <1>7 DEF Expire, Inside
    <2>2. PICK k \in Worker, p \in Path :
            /\ Head(todo[c]) = <<k, p>> /\ Has(p, k)
            /\ IsInjective(todo[c])
            /\ \A q \in Path : q # p => Workers(q)' = Workers(q) /\ \A v : Has(q, v)' <=> Has(q, v)
            /\ \/ /\ pc'[c] = "restarting" /\ todo'[c] = todo[c]
                  /\ Workers(p)' = Workers(p) /\ \A v : Has(p, v)' <=> Has(p, v)
                  /\ Len(array'[arr'[c]]) = Len(Workers(p)) - 1
                  /\ \A v : v \in ToSet(array'[arr'[c]]) <=> Has(p, v) /\ v # k
               \/ /\ pc'[c] = "expiring" /\ todo'[c] = Tail(todo[c])
                  /\ ~restart[conf[k]]
                  /\ \A v : Has(p, v)' <=> Has(p, v) /\ v # k
      BY <1>7, ExpireEffect
    <2>3. todo[c] # <<>> /\ pc[c] = "expiring"
      BY <1>7 DEF Expire
    <2>4. CASE pc'[c] = "restarting" /\ todo'[c] = todo[c]
      <3>1. \A q \in Path : \A v : Has(q, v)' <=> Has(q, v)
        BY <2>2, <2>4
      <3>2. \A i \in DOMAIN todo'[c], w \in Worker, q \in Path : todo'[c][i] = <<w, q>> => Has(q, w)'
        BY <2>3, <2>4, <3>1 DEF ExpiredOK
      <3>3. \A w \in Worker, q \in Path : Head(todo'[c]) = <<w, q>> =>
                 /\ Len(array'[arr'[c]]) = Len(Workers(q)') - 1
                 /\ \A v \in Worker : v \in ToSet(array'[arr'[c]]) <=> Has(q, v)' /\ v # w
        <4>1. /\ Len(array'[arr'[c]]) = Len(Workers(p)') - 1
              /\ \A v \in Worker : v \in ToSet(array'[arr'[c]]) <=> Has(p, v)' /\ v # k
          BY <2>2, <2>4
        <4> SUFFICES ASSUME NEW w \in Worker, NEW q \in Path, Head(todo'[c]) = <<w, q>>
                     PROVE  /\ Len(array'[arr'[c]]) = Len(Workers(q)') - 1
                            /\ \A v \in Worker : v \in ToSet(array'[arr'[c]]) <=> Has(q, v)' /\ v # w
          OBVIOUS
        <4>2. w = k /\ q = p
          BY <2>2, <2>4
        <4> QED BY <4>1, <4>2
      <3> QED BY <2>1, <2>2, <2>4, <3>2, <3>3, ExpiredOne
    <2>5. CASE pc'[c] = "expiring" /\ todo'[c] = Tail(todo[c])
      <3>1. IsInjective(todo'[c]) /\ \A i \in DOMAIN todo'[c] : todo'[c][i] # Head(todo[c])
        BY <2>2, <2>3, <2>5, TailOnce
      <3>2. ASSUME NEW i \in DOMAIN todo'[c], NEW w \in Worker, NEW q \in Path, todo'[c][i] = <<w, q>>
            PROVE  Has(q, w)'
        <4>1. i + 1 \in DOMAIN todo[c] /\ todo[c][i + 1] = <<w, q>>
          BY <2>3, <2>5, <3>2, TodoOK
        <4>2. Has(q, w)
          BY <2>3, <4>1 DEF ExpiredOK
        <4>3. <<w, q>> # <<k, p>>
          BY <2>2, <3>1, <3>2
        <4> QED BY <2>2, <2>5, <4>2, <4>3
      <3> QED BY <2>1, <2>5, <3>1, <3>2, ExpiredOne
    <2> QED BY <2>2, <2>4, <2>5
  <1>8. ASSUME NEW c \in Call, Restarted(c) PROVE ExpiredOK'
    <2>1. \A d \in Call : d # c => pc'[d] \notin Inside
      BY <1>6, <1>8 DEF Restarted, Inside
    <2>2. PICK k \in Worker, p \in Path, w \in Worker :
            /\ Head(todo[c]) = <<k, p>> /\ Has(p, k)
            /\ IsInjective(todo[c]) /\ todo[c] # <<>>
            /\ \A q \in Path : q # p => Workers(q)' = Workers(q) /\ \A v : Has(q, v)' <=> Has(q, v)
            /\ pc'[c] = "expiring" /\ todo'[c] = Tail(todo[c])
            /\ conf' = [conf EXCEPT ![w] = conf[k]]
            /\ Len(Workers(p)') = Len(Workers(p))
            /\ \A v \in Worker : Has(p, v)' <=> v = w \/ (Has(p, v) /\ v # k)
      BY <1>8, RestartEffect
    <2>3. pc[c] = "restarting"
      BY <1>8 DEF Restarted
    <2>4. IsInjective(todo'[c]) /\ \A i \in DOMAIN todo'[c] : todo'[c][i] # Head(todo[c])
      BY <2>2, TailOnce
    <2>5. ASSUME NEW i \in DOMAIN todo'[c], NEW v \in Worker, NEW q \in Path, todo'[c][i] = <<v, q>>
          PROVE  Has(q, v)'
      <3>1. i + 1 \in DOMAIN todo[c] /\ todo[c][i + 1] = <<v, q>>
        BY <2>2, <2>5, TodoOK
      <3>2. Has(q, v)
        BY <2>3, <3>1 DEF ExpiredOK
      <3>3. <<v, q>> # <<k, p>>
        BY <2>2, <2>4, <2>5
      <3> QED BY <2>2, <3>2, <3>3
    <2> QED BY <2>1, <2>2, <2>4, <2>5, ExpiredOne
  <1>9. ASSUME NEW c \in Call, GoCold(c) PROVE ExpiredOK'
    <2>1. \A d \in Call : d # c => pc'[d] \notin Inside
      BY <1>6, <1>9 DEF GoCold, Inside
    <2>2. pc'[c] = "creating" /\ path' = path /\ Workers(path[c]) = <<>> /\ path[c] \in Path
      BY <1>9, UsageOK DEF GoCold, opVars, TypeOK, BegunOK
    <2>3. ASSUME NEW a \in Add, Kept(a)' PROVE path'[c] # path'[a]
      <3>1. /\ Kept(a) /\ path[a] \in Path /\ num[a] >= 1
        <4>1. pc'[a] = pc[a] /\ restart' = restart
          BY <1>9, UsageOK DEF GoCold, opVars, TypeOK
        <4> QED BY <2>3, <4>1 DEF Kept, BegunOK
      <3>2. Len(Workers(path[a])) = num[a]
        BY <3>1 DEF NumbersOK
      <3>3. Len(<<>>) = 0
        OBVIOUS
      <3> QED BY <2>2, <3>1, <3>2, <3>3
    <2> QED BY <2>1, <2>2, <2>3, ExpiredOne
  <1>10. ASSUME NEW c \in Call, ColdCreated(c) \/ PickWorker(c) PROVE ExpiredOK'
    <2>1. pc' = [pc EXCEPT ![c] = "fetching"] /\ pc[c] \in Inside
      BY <1>10 DEF ColdCreated, PickWorker, Inside
    <2>2. \A d \in Call : d # c => pc'[d] \notin Inside
      BY <1>6, <2>1
    <2>3. pc'[c] = "fetching"
      BY <2>1, UsageOK DEF TypeOK
    <2> QED BY <2>2, <2>3, NobodyInside DEF Inside
  <1>11. ASSUME NEW c \in Call, Fetch(c) PROVE ExpiredOK'
    <2>1. PICK s \in {"answered", "refused", "failed"} : pc' = [pc EXCEPT ![c] = s]
      BY <1>11 DEF Fetch
    <2>2. s \notin Inside /\ UNCHANGED jsVars /\ arr' = arr /\ todo' = todo
      BY <1>11 DEF Fetch, Inside, opVars
    <2> QED BY <1>3, <2>1, <2>2
  <1>12. ASSUME \/ \E k \in Worker : LifetimeEnds(k)
                \/ \E o \in Op : ExpireDate(o)
                \/ UNCHANGED vars
         PROVE  ExpiredOK'
    <2>1. pc' = pc /\ UNCHANGED jsVars /\ UNCHANGED opVars
      BY <1>12 DEF LifetimeEnds, ExpireDate, vars
    <2>2. \A p \in Path : Workers(p)' = Workers(p)
      BY <2>1, WorkersSame DEF jsVars
    <2> QED BY <1>0, <2>1, <2>2, ExpiredStay DEF jsVars, opVars
  <1> QED
    BY Cases, QuietSteps, <1>1, <1>2, <1>4, <1>5, <1>7, <1>8, <1>9, <1>10, <1>11, <1>12

\* Every step keeps NumbersOK.
LEMMA NextNumbers ==
  ASSUME ConstantsOK, Safe, Quiet, AddsOK, ExpiredOK, NumbersOK, [Next]_vars
  PROVE  NumbersOK'
  <1> USE DEF Safe
  <1>0. StepKeeps /\ Add \subseteq Op /\ pool' = "serving" /\ Adds \subseteq InitAdd /\ Adds = usage.init
    BY NextKeeps, QuietSteps, UsageOK
  <1>d. PICK new \in Array : new = Fresh /\ new # None /\ \A p \in Path : ~Serves(new, p)
    <2>1. Fresh \in Array /\ Fresh # None /\ \A p \in Path : ~Serves(Fresh, p)
      BY FreshIsNew DEF Serves
    <2> QED BY <2>1
  \* The path has the workers it had, in some order.
  <1>a. ASSUME NEW a \in Add, NEW p \in Path, Kept(a), path[a] = p,
               Len(Workers(p)') = Len(Workers(p)), \A w \in Worker : Has(p, w)' => Has(p, w)
        PROVE  /\ Len(Workers(p)') = num'[a]
               /\ \A w \in Worker : Has(p, w)' => conf'[w] = a
    <2>1. pc[a] # "idle" /\ num'[a] = num[a] /\ a # None
      BY <1>0, <1>a, UsageOK DEF Kept, StepKeeps
    <2>2. Len(Workers(p)) = num[a] /\ \A w \in Worker : Has(p, w) => conf[w] = a
      BY <1>a DEF NumbersOK
    <2>3. \A w \in Worker : conf[w] = a => conf'[w] = a
      BY <1>0, <2>1 DEF StepKeeps
    <2> QED BY <1>a, <2>1, <2>2, <2>3
  \* What is kept was kept.
  <1>b. ASSUME \A a \in Add : pc'[a] = pc[a], NEW a \in Add, NEW p \in Path, Kept(a)', path'[a] = p
        PROVE  Kept(a) /\ path[a] = p
    BY <1>0, <1>b DEF Kept, StepKeeps
  <1>c. ASSUME \A a \in Add : pc'[a] = pc[a],
               \A a \in Add, p \in Path : Kept(a) /\ path[a] = p =>
                   Len(Workers(p)') = Len(Workers(p)) /\ \A w \in Worker : Has(p, w)' => Has(p, w)
        PROVE  NumbersOK'
    BY <1>a, <1>b, <1>c DEF NumbersOK
  <1>e. ASSUME \A a \in Add : pc'[a] = pc[a], UNCHANGED jsVars PROVE NumbersOK'
    <2>1. \A p \in Path : Workers(p)' = Workers(p) /\ \A w : Has(p, w)' <=> Has(p, w)
      BY <1>e, WorkersSame DEF jsVars, Has
    <2> QED BY <1>c, <1>e, <2>1
  <1>f. ASSUME NEW c \in Call, NEW s, pc' = [pc EXCEPT ![c] = s] \/ pc' = pc
        PROVE  \A a \in Add : pc'[a] = pc[a]
    BY <1>0, <1>f, UsageOK DEF TypeOK
  <1>1. ASSUME NEW a \in Adds, NEW p \in usage.paths, NEW n \in 1..usage.most,
               NEW r \in usage.restarts, AddStart(a, p, n, r)
        PROVE  NumbersOK'
    <2>1. a \in Add /\ pc' = [pc EXCEPT ![a] = "adding"] /\ pc[a] = "idle" /\ workerPool' = workerPool
      BY <1>1, UsageOK DEF AddStart
    <2>2. \A y \in Array : y # new => array'[y] = array[y]
      BY <1>1, <1>d DEF AddStart, TypeOK
    <2>3. ASSUME NEW b \in Add, NEW q \in Path, Kept(b)', path'[b] = q
          PROVE  /\ Len(Workers(q)') = num'[b]
                 /\ \A w \in Worker : Has(q, w)' => conf'[w] = b
      <3>1. b # a /\ pc[b] = "done"
        BY <1>0, <2>1, <2>3 DEF Kept, TypeOK
      <3>2. Kept(b) /\ path[b] = q
        BY <1>0, <2>3, <3>1 DEF Kept, StepKeeps
      <3>3. Workers(q)' = Workers(q) /\ \A w : Has(q, w)' <=> Has(q, w)
        BY <1>d, <2>1, <2>2, WorkersStay
      <3> QED BY <1>a, <3>2, <3>3
    <2> QED BY <2>3 DEF NumbersOK
  <1>2. ASSUME NEW a \in Add, Added(a) PROVE NumbersOK'
    <2>1. /\ a \in Op /\ pc[a] = "adding" /\ arr[a] \in Array /\ path[a] \in Path /\ arr[a] # None
          /\ left[a] \in Nat /\ num[a] \in Nat /\ a # None
      BY <1>0, <1>2, UsageOK DEF Added, BegunOK, TypeOK
    <2>2. PICK x \in Array : x = arr[a] /\ x # None
      BY <2>1
    <2>3. PICK w \in Worker : Created(a, w) /\ array' = [array EXCEPT ![x] = Append(@, w)]
      BY <1>2, <2>2 DEF Added
    <2>4. /\ array'[x] = Append(array[x], w) /\ (\A y \in Array : y # x => array'[y] = array[y])
          /\ path' = path /\ restart' = restart
      BY <1>2, <2>3 DEF Added, TypeOK
    <2>5. Serves(x, path[a])
      BY <2>1, <2>2 DEF Serves, Holding, For
    <2>6. \/ pc' = [pc EXCEPT ![a] = "done"] /\ workerPool' = [workerPool EXCEPT ![path[a]] = x] /\ left[a] = 1
          \/ pc' = pc /\ workerPool' = workerPool
      BY <1>2, <2>2 DEF Added, LastOne
    <2>7. AddsOK'
      BY NextAdds
    <2>8. ASSUME NEW b \in Add, NEW q \in Path, b # a, Kept(b)', path'[b] = q
          PROVE  /\ Len(Workers(q)') = num'[b]
                 /\ \A v \in Worker : Has(q, v)' => conf'[v] = b
      <3>1. Kept(b) /\ path[b] = q
        BY <1>0, <2>1, <2>4, <2>6, <2>8 DEF Kept, TypeOK
      <3>2. path[b] # path[a]
        BY <2>1, <2>8, <3>1 DEF AddsOK, Kept
      <3>3. workerPool'[q] = workerPool[q] /\ ~Serves(x, q)
        BY <2>1, <2>5, <2>6, <3>1, <3>2 DEF TypeOK, PathsApart
      <3>4. Workers(q)' = Workers(q) /\ \A v : Has(q, v)' <=> Has(q, v)
        BY <2>4, <3>3, WorkersStay
      <3> QED BY <1>a, <3>1, <3>4
    <2>9. ASSUME NEW q \in Path, Kept(a)', path'[a] = q
          PROVE  /\ Len(Workers(q)') = num'[a]
                 /\ \A v \in Worker : Has(q, v)' => conf'[v] = a
      <3>1. pc'[a] = "done" /\ q = path[a]
        BY <2>4, <2>9 DEF Kept
      <3>2. workerPool'[q] = x /\ left[a] = 1
        BY <2>1, <2>6, <3>1 DEF TypeOK
      <3>3. Workers(q)' = array'[x] /\ \A v : Has(q, v)' <=> v \in ToSet(array'[x])
        BY <2>2, <3>2, HasIn
      <3>4. /\ Len(array[x]) + left[a] = num[a]
            /\ \A i \in DOMAIN array[x] : conf[array[x][i]] = a
            /\ array[x] \in Seq(Worker) /\ num'[a] = num[a]
            /\ conf[w] = None /\ conf' = [conf EXCEPT ![w] = a]
        BY <1>2, <2>1, <2>2, <2>3, CreatedNew DEF AddsOK, TypeOK, Added
      <3> DEFINE s == array[x]
                 t == Append(s, w)
                 n == Len(s)
      <3>5. /\ Len(t) = n + 1 /\ n \in Nat /\ DOMAIN t = 1..(n + 1)
            /\ t[n + 1] = w /\ DOMAIN s = 1..n /\ \A i \in 1..n : t[i] = s[i] /\ s[i] \in Worker
        BY <3>4
      <3>6. n + left[a] = num[a] /\ array'[x] = t /\ \A i \in DOMAIN s : conf[s[i]] = a
        BY <2>4, <3>4
      <3> HIDE DEF s, t, n
      <3>7. Len(array'[x]) = num'[a]
        BY <2>1, <3>2, <3>4, <3>5, <3>6
      <3>8. \A v \in Worker : conf[v] = a => v # w
        BY <2>1, <3>4
      <3>9. conf'[w] = a /\ \A v \in Worker : v # w => conf'[v] = conf[v]
        BY <3>4 DEF TypeOK
      <3>10. ASSUME NEW v \in ToSet(t) PROVE conf'[v] = a
        <4>1. PICK i \in 1..(n + 1) : t[i] = v
          BY <3>5 DEF ToSet
        <4>2. CASE i = n + 1
          BY <3>5, <3>9, <4>1, <4>2
        <4>3. CASE i \in 1..n
          <5>1. v = s[i] /\ v \in Worker /\ conf[v] = a
            BY <3>5, <3>6, <4>1, <4>3
          <5> QED BY <3>8, <3>9, <5>1
        <4> QED BY <3>5, <4>2, <4>3
      <3> QED BY <3>3, <3>6, <3>7, <3>10
    <2> QED BY <2>8, <2>9 DEF NumbersOK
  <1>3. ASSUME NEW c \in Call, NEW p \in usage.asked, Arrive(c, p) PROVE NumbersOK'
    BY <1>3, <1>e, <1>f DEF Arrive
  <1>4. ASSUME NEW c \in Call, Scan(c) \/ GoCold(c) \/ Fetch(c) PROVE NumbersOK'
    <2>1. UNCHANGED jsVars
      BY <1>4 DEF Scan, GoCold, Fetch
    <2>2. \E s : pc' = [pc EXCEPT ![c] = s]
      BY <1>4 DEF Scan, GoCold, Fetch
    <2> QED BY <1>e, <1>f, <2>1, <2>2
  <1>5. ASSUME NEW c \in Call, Expire(c) PROVE NumbersOK'
    <2>1. PICK k \in Worker, p \in Path :
            /\ Head(todo[c]) = <<k, p>> /\ Has(p, k)
            /\ IsInjective(todo[c])
            /\ \A q \in Path : q # p => Workers(q)' = Workers(q) /\ \A v : Has(q, v)' <=> Has(q, v)
            /\ \/ /\ pc'[c] = "restarting" /\ todo'[c] = todo[c]
                  /\ Workers(p)' = Workers(p) /\ \A v : Has(p, v)' <=> Has(p, v)
                  /\ Len(array'[arr'[c]]) = Len(Workers(p)) - 1
                  /\ \A v : v \in ToSet(array'[arr'[c]]) <=> Has(p, v) /\ v # k
               \/ /\ pc'[c] = "expiring" /\ todo'[c] = Tail(todo[c])
                  /\ ~restart[conf[k]]
                  /\ \A v : Has(p, v)' <=> Has(p, v) /\ v # k
      BY <1>5, ExpireEffect
    <2>2. \A a \in Add : pc'[a] = pc[a]
      <3>1. pc' = [pc EXCEPT ![c] = "restarting"] \/ pc' = pc
        BY <1>5 DEF Expire
      <3> QED BY <1>f, <3>1
    <2>3. ASSUME NEW a \in Add, NEW q \in Path, Kept(a), path[a] = q
          PROVE  Len(Workers(q)') = Len(Workers(q)) /\ \A w \in Worker : Has(q, w)' => Has(q, w)
      <3>1. CASE q = p
        <4>1. conf[k] = a /\ restart[a]
          BY <2>1, <2>3, <3>1 DEF NumbersOK, Kept
        <4> QED BY <2>1, <3>1, <4>1
      <3>2. CASE q # p
        BY <2>1, <3>2
      <3> QED BY <3>1, <3>2
    <2> QED BY <1>c, <2>2, <2>3
  <1>6. ASSUME NEW c \in Call, Restarted(c) PROVE NumbersOK'
    <2>1. PICK k \in Worker, p \in Path, w \in Worker :
            /\ Head(todo[c]) = <<k, p>> /\ Has(p, k)
            /\ IsInjective(todo[c]) /\ todo[c] # <<>>
            /\ \A q \in Path : q # p => Workers(q)' = Workers(q) /\ \A v : Has(q, v)' <=> Has(q, v)
            /\ pc'[c] = "expiring" /\ todo'[c] = Tail(todo[c])
            /\ conf' = [conf EXCEPT ![w] = conf[k]]
            /\ Len(Workers(p)') = Len(Workers(p))
            /\ \A v \in Worker : Has(p, v)' <=> v = w \/ (Has(p, v) /\ v # k)
      BY <1>6, RestartEffect
    <2>2. \A a \in Add : pc'[a] = pc[a]
      BY <1>6, <1>f DEF Restarted
    <2>3. ASSUME NEW a \in Add, NEW q \in Path, Kept(a)', path'[a] = q
          PROVE  /\ Len(Workers(q)') = num'[a]
                 /\ \A v \in Worker : Has(q, v)' => conf'[v] = a
      <3>1. Kept(a) /\ path[a] = q
        BY <1>b, <2>2, <2>3
      <3>2. CASE q # p
        BY <1>a, <2>1, <3>1, <3>2
      <3>3. CASE q = p
        <4>1. Len(Workers(p)) = num[a] /\ \A v \in Worker : Has(p, v) => conf[v] = a
          BY <3>1, <3>3 DEF NumbersOK
        <4>2. num'[a] = num[a] /\ a # None
          BY <1>0, <3>1, UsageOK DEF Kept, StepKeeps
        <4>3. conf[k] = a /\ conf'[w] = a
          BY <2>1, <4>1 DEF TypeOK
        <4>4. \A v \in Worker : conf[v] = a => conf'[v] = a
          BY <1>0, <4>2 DEF StepKeeps
        <4> QED BY <2>1, <3>3, <4>1, <4>2, <4>3, <4>4
      <3> QED BY <3>2, <3>3
    <2> QED BY <2>3 DEF NumbersOK
  <1>7. ASSUME NEW c \in Call, ColdCreated(c) PROVE NumbersOK'
    <2>1. /\ pc' = [pc EXCEPT ![c] = "fetching"] /\ pc[c] = "creating"
          /\ workerPool' = [workerPool EXCEPT ![path[c]] = new]
      BY <1>7, <1>d DEF ColdCreated
    <2>2. \A y \in Array : y # new => array'[y] = array[y]
      BY <1>7, <1>d DEF ColdCreated, TypeOK
    <2>3. ASSUME NEW a \in Add, NEW q \in Path, Kept(a), path[a] = q
          PROVE  Len(Workers(q)') = Len(Workers(q)) /\ \A w \in Worker : Has(q, w)' => Has(q, w)
      <3>1. path[c] # q
        BY <2>1, <2>3 DEF ExpiredOK
      <3>2. workerPool'[q] = workerPool[q]
        BY <2>1, <3>1 DEF TypeOK
      <3> QED BY <1>d, <2>2, <3>2, WorkersStay
    <2> QED BY <1>c, <1>f, <2>1, <2>3
  <1>8. ASSUME NEW c \in Call, PickWorker(c) PROVE NumbersOK'
    <2>1. /\ pc' = [pc EXCEPT ![c] = "fetching"] /\ path[c] \in Path /\ Workers(path[c]) # <<>>
          /\ workerPool' = workerPool /\ array' = [array EXCEPT ![workerPool[path[c]]] = Rotate(@)]
      BY <1>8 DEF PickWorker, BegunOK
    <2>2. workerPool[path[c]] \in Array /\ Workers(path[c]) = array[workerPool[path[c]]]
      BY <2>1, WorkersOnce
    <2>3. PICK p \in Path, x \in Array : p = path[c] /\ x = workerPool[p]
      BY <2>1, <2>2
    <2>4. array'[x] = Rotate(Workers(p)) /\ \A y \in Array : y # x => array'[y] = array[y]
      BY <2>1, <2>2, <2>3 DEF TypeOK
    <2>5. Serves(x, p) /\ x # None /\ workerPool'[p] = x
      BY <2>1, <2>3, UsageOK DEF Serves
    <2>6. Len(Workers(p)') = Len(Workers(p)) /\ \A w : Has(p, w)' => Has(p, w)
      <3>1. Workers(p)' = array'[x] /\ \A v : Has(p, v)' <=> v \in ToSet(array'[x])
        BY <2>5, HasIn
      <3>2. Workers(p) \in Seq(Worker) /\ Workers(p) # <<>> /\ IsInjective(Workers(p))
        BY <2>1, <2>3, WorkersOnce
      <3>3. /\ Len(array'[x]) = Len(Workers(p))
            /\ \A i \in DOMAIN array'[x] : \E j \in DOMAIN Workers(p) : array'[x][i] = Workers(p)[j]
        BY <2>4, <3>2, RotateOnce
      <3>4. \A v : v \in ToSet(array'[x]) => Has(p, v)
        BY <3>3 DEF ToSet, Has
      <3> QED BY <3>1, <3>3, <3>4
    <2>7. ASSUME NEW q \in Path, q # p
          PROVE  Workers(q)' = Workers(q) /\ \A v : Has(q, v)' <=> Has(q, v)
      <3>1. ~Serves(x, q)
        BY <2>5, <2>7 DEF PathsApart
      <3> QED BY <2>1, <2>4, <3>1, WorkersStay
    <2>8. ASSUME NEW a \in Add, NEW q \in Path, Kept(a), path[a] = q
          PROVE  Len(Workers(q)') = Len(Workers(q)) /\ \A w \in Worker : Has(q, w)' => Has(q, w)
      BY <2>6, <2>7
    <2> QED BY <1>c, <1>f, <2>1, <2>8
  <1>9. ASSUME \/ \E k \in Worker : LifetimeEnds(k)
               \/ \E o \in Op : ExpireDate(o)
               \/ UNCHANGED vars
        PROVE  NumbersOK'
    <2>1. pc' = pc /\ UNCHANGED jsVars
      BY <1>9 DEF LifetimeEnds, ExpireDate, vars
    <2> QED BY <1>e, <2>1
  <1> QED
    BY Cases, QuietSteps, <1>1, <1>2, <1>3, <1>4, <1>5, <1>6, <1>7, <1>8, <1>9

-----------------------------------------------------------------------------
(* The theorems                                                            *)

\* The invariant holds at first.
LEMMA InitInv ==
  ASSUME ConstantsOK, Init
  PROVE  Inv
  <1>1. Safe
    BY InitSafe
  <1>2. AddsOK /\ ExpiredOK /\ NumbersOK
    <2>1. (\A a \in Add : pc[a] = "idle") /\ \A c \in Call : pc[c] = "idle"
      BY UsageOK, <1>1 DEF Init, Safe
    <2>2. pool = "serving" /\ \A p \in Path : workerPool[p] = None
      BY DEF Init
    <2> QED BY <2>1, <2>2 DEF AddsOK, ExpiredOK, NumbersOK, Kept
  <1> QED BY <1>1, <1>2 DEF Inv

\* Every step keeps it.
LEMMA NextInv ==
  ASSUME ConstantsOK, Inv, [Next]_vars
  PROVE  Inv'
  <1>1. Safe'
    BY NextSafe DEF Inv
  <1>2. Quiet' => Quiet
    BY Cases DEF Quiet
  <1>3. Quiet => AddsOK' /\ ExpiredOK' /\ NumbersOK'
    BY NextAdds, NextExpired, NextNumbers DEF Inv
  <1> QED BY <1>1, <1>2, <1>3 DEF Inv

\* The invariant is what the properties follow from.
LEMMA InvHolds ==
  ASSUME ConstantsOK, Inv
  PROVE  TypeOK /\ NoDuplicateKeys /\ RestartKeepsNumber
  <1>1. TypeOK /\ NoDuplicateKeys
    BY SafeNoDuplicates DEF Inv, Safe
  <1>2. ASSUME ~usage.mayFail, usage.adds = {}, usage.shutdowns = {},
               NEW a \in InitAdd, pc[a] = "done", restart[a]
        PROVE  Len(Workers(path[a])) = num[a]
    <2>1. a \in Add /\ Kept(a) /\ NumbersOK
      BY <1>2 DEF Add, Kept, Inv, Quiet
    <2>2. path[a] \in Path
      BY <2>1 DEF Kept, Inv, Safe, BegunOK
    <2> QED BY <2>1, <2>2 DEF NumbersOK
  <1> QED BY <1>1, <1>2 DEF RestartKeepsNumber

\* However adds, restarts and shutdowns overlap, load balancing goes through every worker of
\* a path once a round, and no worker serves two paths.
THEOREM WorkersApart ==
  ASSUME ConstantsOK
  PROVE  Spec => [](TypeOK /\ NoDuplicateKeys)
  <1>1. Init => Inv
    BY InitInv
  <1>2. Inv /\ [Next]_vars => Inv'
    BY NextInv
  <1>3. Inv => TypeOK /\ NoDuplicateKeys
    BY InvHolds
  <1> QED BY <1>1, <1>2, <1>3, PTL DEF Spec

\* A path of the configuration keeps its number of workers through every expiry, as long as
\* workers can be created and nobody uses the API.
THEOREM NumbersKept ==
  ASSUME ConstantsOK
  PROVE  Spec => []RestartKeepsNumber
  <1>1. Init => Inv
    BY InitInv
  <1>2. Inv /\ [Next]_vars => Inv'
    BY NextInv
  <1>3. Inv => RestartKeepsNumber
    BY InvHolds
  <1> QED BY <1>1, <1>2, <1>3, PTL DEF Spec

====
