----------------------------- MODULE MainWorker -----------------------------
(***************************************************************************)
(* The JavaScript of one main worker (api/main): the Map workerPool from   *)
(* service paths to arrays of workers, the requests that pick a worker     *)
(* from it under a mutex, and the API calls that add and shut down         *)
(* workers without it.                                                     *)
(*                                                                         *)
(* JavaScript runs one task at a time, from one await to the next; running *)
(* is the task between two awaits.  Arrays are objects: an operation that  *)
(* holds one across an await may find that workerPool has another by then. *)
(*                                                                         *)
(* Of the Rust pool only the table of registered workers is kept.  Its     *)
(* messages are handled where they are sent: one channel keeps their       *)
(* order, and replies are awaited.  Time is left out: a configuration      *)
(* expires, and a registered worker's lifetime ends, at any moment.        *)
(***************************************************************************)
EXTENDS Naturals, Sequences, FiniteSets, SequencesExt

CONSTANTS
    Path,           \* service paths
    Worker,         \* keys of user workers; bounds the workers created
    Call,           \* requests for user workers
    InitAdd,        \* entries of configuration.workers with active = true
    ApiAdd,         \* requests to /api/workerpool/add_worker
    MaxAdd,         \* bound on num_workers (and number)
    DefaultRestart, \* restart of defaultWorkerConfig
    Usages,         \* ways the server is used, see Usage
    Array,          \* array objects
    None            \* undefined

Add == InitAdd \cup ApiAdd
Op  == Call \cup Add

\* The service paths, those that are asked for and the workers in use, the entries of
\* configuration.workers, the most workers of an add, the values the option restart takes,
\* whether the pool may refuse to create a worker, and the requests to the HTTP API.
Usage == [paths : SUBSET Path, asked : SUBSET Path, keys : SUBSET Worker, init : SUBSET InitAdd,
          most : 1..MaxAdd, restarts : SUBSET BOOLEAN, mayFail : BOOLEAN, adds : SUBSET ApiAdd,
          shutdowns : SUBSET {"key", "path"}]

\* What the constants have to be.
ConstantsOK ==
    /\ Call \cap Add = {} /\ InitAdd \cap ApiAdd = {}
    /\ MaxAdd \in Nat \ {0}
    /\ DefaultRestart \in BOOLEAN
    /\ Usages \subseteq Usage
    /\ None \notin Path \cup Worker \cup Op \cup Array
    /\ IsFiniteSet(Path) /\ IsFiniteSet(Worker) /\ IsFiniteSet(Op)
    \* There is always a new array.
    /\ IsFiniteSet(Array) => Cardinality(Array) > Cardinality(Path) + Cardinality(Op)

VARIABLES
    usage,      \* how this server is used; never changes
    workerPool, \* workerPool[p]: the array of path p, or None
    array,      \* the contents of the arrays
    running,    \* the operation whose JavaScript runs, or None
    mutex,      \* the calls in runExclusive, in order; the first is inside
    pc,         \* pc[o]: where operation o is
    path,       \* path[o]: its service path, or None
    todo,       \* todo[c]: deleteKeys
    arr,        \* arr[o]: the array it fills, or None
    left,       \* left[a]: workers still to add
    num,        \* num[a]: workers asked for
    pick,       \* pick[c]: the worker a call is sent to, or None
    conf,       \* conf[w]: the operation whose configuration object w has
    restart,    \* restart of o's configuration object
    expired,    \* configuration objects whose expireDate has passed
    registered, \* workers in the Rust pool's table
    pool        \* "serving" or "gone": the Rust pool

jsVars   == <<workerPool, array>>
opVars   == <<path, todo, arr, left, num, pick, restart>>
rustVars == <<registered, pool>>
vars == <<usage, jsVars, running, mutex, pc, opVars, conf, expired, rustVars>>

AddPc  == {"idle", "adding", "done", "failed"}
CallPc == {"idle", "queued", "expiring", "restarting", "creating", "fetching",
           "answered", "refused", "failed"}
Ended  == {"done", "answered", "refused", "failed"}

Workers(p) == IF workerPool[p] = None THEN <<>> ELSE array[workerPool[p]]
Pooled     == UNION {ToSet(Workers(p)) : p \in Path}
Unused     == {w \in usage.keys : conf[w] = None}
Adds       == usage.init \cup usage.adds

Holding(o) == arr[o] # None /\ pc[o] \in {"adding", "restarting"}
Fresh      == CHOOSE a \in Array :
                 /\ \A p \in Path : workerPool[p] # a
                 /\ \A o \in Op : Holding(o) => arr[o] # a

Init ==
    /\ usage \in Usages
    /\ workerPool = [p \in Path |-> None]
    /\ array = [a \in Array |-> <<>>]
    /\ running = None /\ mutex = <<>>
    /\ pc = [o \in Op |-> "idle"]
    /\ path = [o \in Op |-> None]
    /\ todo = [c \in Call |-> <<>>]
    /\ arr = [o \in Op |-> None]
    /\ left = [a \in Add |-> 0] /\ num = [a \in Add |-> 0]
    /\ pick = [c \in Call |-> None]
    /\ conf = [w \in Worker |-> None]
    /\ restart = [o \in Op |-> DefaultRestart]
    /\ expired = {}
    /\ registered = {} /\ pool = "serving"

-----------------------------------------------------------------------------
(* createWorker: the caller awaits the key of a new worker.                *)

\* The reply: a worker with a new key (which one does not matter) is in the
\* Rust pool's table, has o's configuration object and moves that object's
\* expireDate on.
Created(o, w) ==
    /\ pool = "serving"
    /\ Unused # {} /\ w = CHOOSE u \in Unused : TRUE
    /\ conf' = [conf EXCEPT ![w] = o]
    /\ registered' = registered \cup {w}
    /\ expired' = expired \ {o}
    /\ UNCHANGED pool

\* The create call throws: no such path, or the pool is gone.
CreateThrows ==
    /\ usage.mayFail \/ pool = "gone"
    /\ UNCHANGED <<conf, expired, rustVars>>

-----------------------------------------------------------------------------
(* addWorkerToPool                                                         *)

Initialized == \A a \in usage.init : pc[a] = "done"

\* Takes the path's array, or a new one that is not yet in workerPool.
\* initializeWorkers adds path after path before the server starts.
AddStart(a, p, n, r) ==
    /\ running = None /\ pc[a] = "idle"
    /\ IF a \in InitAdd
       THEN \A b \in usage.init : pc[b] \in {"idle", "done"} /\ path[b] # p
       ELSE Initialized
    /\ pc' = [pc EXCEPT ![a] = "adding"]
    /\ path' = [path EXCEPT ![a] = p]
    /\ restart' = [restart EXCEPT ![a] = r]
    /\ left' = [left EXCEPT ![a] = n]
    /\ num' = [num EXCEPT ![a] = n]
    /\ IF Workers(p) # <<>>
       THEN /\ arr' = [arr EXCEPT ![a] = workerPool[p]]
            /\ UNCHANGED array
       ELSE /\ arr' = [arr EXCEPT ![a] = Fresh]
            /\ array' = [array EXCEPT ![Fresh] = <<>>]
    /\ UNCHANGED <<workerPool, running, mutex, todo, pick, conf, expired, rustVars>>

\* The loop's condition: this was the last worker to add.
LastOne(a) == left[a] = 1

\* One more worker is there; after the last one the array is put into the Map.
Added(a) ==
    /\ running = None /\ pc[a] = "adding"
    /\ \E w \in Worker :
         /\ Created(a, w)
         /\ array' = [array EXCEPT ![arr[a]] = Append(@, w)]
    /\ left' = [left EXCEPT ![a] = @ - 1]
    /\ IF LastOne(a)
       THEN /\ workerPool' = [workerPool EXCEPT ![path[a]] = arr[a]]
            /\ pc' = [pc EXCEPT ![a] = "done"]
       ELSE UNCHANGED <<workerPool, pc>>
    /\ UNCHANGED <<running, mutex, path, todo, arr, num, pick, restart>>

\* What was added so far stays in the array, wherever the array is.
AddFails(a) ==
    /\ running = None /\ pc[a] = "adding"
    /\ CreateThrows
    /\ pc' = [pc EXCEPT ![a] = "failed"]
    /\ UNCHANGED <<jsVars, running, mutex, opVars>>

-----------------------------------------------------------------------------
(* callWorker                                                              *)

Arrive(c, p) ==
    /\ running = None /\ Initialized /\ pc[c] = "idle"
    /\ pc' = [pc EXCEPT ![c] = "queued"]
    /\ path' = [path EXCEPT ![c] = p]
    /\ mutex' = Append(mutex, c)
    /\ UNCHANGED <<jsVars, running, todo, arr, left, num, pick, restart, conf,
                   expired, rustVars>>

\* runExclusive calls the callback.
NotExclusive(c) == TRUE   \* mutant: no mutex
Exclusive(c) == Head(mutex) = c

\* Inside the mutex: collect the expired workers of every path.
Scan(c) ==
    /\ running = None /\ pc[c] = "queued" /\ Exclusive(c)
    /\ running' = c
    /\ pc' = [pc EXCEPT ![c] = "expiring"]
    /\ todo' = [todo EXCEPT ![c] =
                  SetToSeq({kp \in Worker \X Path :
                              kp[1] \in ToSet(Workers(kp[2])) /\ conf[kp[1]] \in expired})]
    /\ UNCHANGED <<jsVars, mutex, path, arr, left, num, pick, restart, conf,
                   expired, rustVars>>

\* The j-th of a set of numbers.
Nth(S, j) == CHOOSE i \in S : Cardinality({h \in S : h <= i}) = j

\* workers.filter: the workers of s other than k, in their order.
Others(k, s) ==
    LET kept == {i \in DOMAIN s : s[i] # k}
    IN  [j \in 1..Cardinality(kept) |-> s[Nth(kept, j)]]

\* Drop an expired worker; if it is to be restarted, the filtered array is put
\* into the Map only when the new worker is there.
Expire(c) ==
    /\ running = c /\ pc[c] = "expiring" /\ todo[c] # <<>>
    /\ LET k == Head(todo[c])[1]
           p == Head(todo[c])[2]
           a == Fresh IN
       /\ array' = [array EXCEPT ![a] = Others(k, Workers(p))]
       /\ IF restart[conf[k]]
          THEN /\ arr' = [arr EXCEPT ![c] = a]
               /\ pc' = [pc EXCEPT ![c] = "restarting"]
               /\ running' = None
               /\ UNCHANGED <<workerPool, todo>>
          ELSE /\ workerPool' = [workerPool EXCEPT ![p] = a]
               /\ todo' = [todo EXCEPT ![c] = Tail(@)]
               /\ UNCHANGED <<arr, pc, running>>
    /\ UNCHANGED <<mutex, path, left, num, pick, restart, conf, expired, rustVars>>

Restarted(c) ==
    /\ running = None /\ pc[c] = "restarting"
    /\ LET k == Head(todo[c])[1]
           p == Head(todo[c])[2] IN
       /\ \E w \in Worker :
            /\ Created(conf[k], w)
            /\ array' = [array EXCEPT ![arr[c]] = Append(@, w)]
       /\ workerPool' = [workerPool EXCEPT ![p] = arr[c]]
    /\ todo' = [todo EXCEPT ![c] = Tail(@)]
    /\ pc' = [pc EXCEPT ![c] = "expiring"]
    /\ running' = c
    /\ UNCHANGED <<mutex, path, arr, left, num, pick, restart>>

\* No worker for the path: a cold one is created.
GoCold(c) ==
    /\ running = c /\ pc[c] = "expiring" /\ todo[c] = <<>>
    /\ Workers(path[c]) = <<>>
    /\ pc' = [pc EXCEPT ![c] = "creating"]
    /\ running' = None
    /\ UNCHANGED <<jsVars, mutex, opVars, conf, expired, rustVars>>

\* runExclusive releases the mutex when its callback is over.
Release == mutex' = Tail(mutex)

\* The cold worker's array replaces whatever the path has by now.
ColdCreated(c) ==
    /\ running = None /\ pc[c] = "creating"
    /\ \E w \in Worker :
         /\ Created(c, w)
         /\ array' = [array EXCEPT ![Fresh] = <<w>>]
         /\ pick' = [pick EXCEPT ![c] = w]
    /\ workerPool' = [workerPool EXCEPT ![path[c]] = Fresh]
    /\ pc' = [pc EXCEPT ![c] = "fetching"]
    /\ Release
    /\ UNCHANGED <<running, path, todo, arr, left, num, restart>>

\* Load balancing: the first worker is taken and moved to the end.
Rotate(s) == Append(Tail(s), Head(s))

PickWorker(c) ==
    /\ running = c /\ pc[c] = "expiring" /\ todo[c] = <<>>
    /\ Workers(path[c]) # <<>>
    /\ pick' = [pick EXCEPT ![c] = Head(Workers(path[c]))]
    /\ array' = [array EXCEPT ![workerPool[path[c]]] = Rotate(@)]
    /\ pc' = [pc EXCEPT ![c] = "fetching"]
    /\ running' = None
    /\ Release
    /\ UNCHANGED <<workerPool, path, todo, arr, left, num, restart, conf, expired, rustVars>>

\* Mutant: the mutex is released by hand, on the good way out only.
CallFailsInside(c) ==
    /\ running = None /\ pc[c] \in {"restarting", "creating"}
    /\ CreateThrows
    /\ pc' = [pc EXCEPT ![c] = "failed"]
    /\ UNCHANGED <<jsVars, running, mutex, opVars>>

\* createWorker throws in runExclusive: the mutex is released, the answer is 500.
CallFails(c) ==
    /\ running = None /\ pc[c] \in {"restarting", "creating"}
    /\ CreateThrows
    /\ pc' = [pc EXCEPT ![c] = "failed"]
    /\ Release
    /\ UNCHANGED <<jsVars, running, opVars>>

\* worker.fetch(req), outside the mutex and after the request's body is read.
Fetch(c) ==
    /\ running = None /\ pc[c] = "fetching"
    /\ \E outcome \in {"answered", "refused", "failed"} :
         /\ outcome = "refused" <=> pool = "serving" /\ pick[c] \notin registered
         /\ outcome = "answered" => pool = "serving"
         /\ pc' = [pc EXCEPT ![c] = outcome]
    /\ UNCHANGED <<jsVars, running, mutex, opVars, conf, expired, rustVars>>

-----------------------------------------------------------------------------
(* shutdown, and the Rust pool's part in it                                *)

\* Shutdown messages for the workers of ks: the pool panics over a worker it
\* no longer has.
ShutWorkers(ks) ==
    IF ks \subseteq registered
    THEN registered' = registered \ ks /\ UNCHANGED pool
    ELSE registered' = {} /\ pool' = "gone"

\* By key.  The loop over workerPool looks its entries up as if they were
\* paths and finds nothing: the Map keeps the worker.
ShutdownKey(k) ==
    /\ "key" \in usage.shutdowns /\ running = None /\ Initialized
    /\ pool = "serving" /\ conf[k] # None
    /\ ShutWorkers({k})
    /\ UNCHANGED <<jsVars, running, mutex, pc, opVars, conf, expired>>

\* By service path: the path gets a new, empty array, even if the pool is gone.
ShutdownPath(p) ==
    /\ "path" \in usage.shutdowns /\ running = None /\ Initialized
    /\ workerPool[p] # None
    /\ workerPool' = [workerPool EXCEPT ![p] = Fresh]
    /\ array' = [array EXCEPT ![Fresh] = <<>>]
    /\ ShutWorkers(ToSet(Workers(p)))
    /\ UNCHANGED <<running, mutex, pc, opVars, conf, expired>>

\* A worker's lifetime timer.
LifetimeEnds(w) ==
    /\ w \in registered
    /\ registered' = registered \ {w}
    /\ UNCHANGED <<jsVars, running, mutex, pc, opVars, conf, expired, pool>>

\* The expireDate of a configuration object comes.
ExpireDate(o) ==
    /\ o \notin expired /\ \E w \in Worker : conf[w] = o
    /\ expired' = expired \cup {o}
    /\ UNCHANGED <<jsVars, running, mutex, pc, opVars, conf, rustVars>>

-----------------------------------------------------------------------------
\* The keys the model can create bound it: nobody is left without one.
OutOfKeys == Unused = {} /\ UNCHANGED vars

\* All requests are over, or the main module failed and the worker ended.
Idle ==
    /\ \/ \A o \in Call \cup Adds : pc[o] \in Ended
       \/ \E a \in usage.init : pc[a] = "failed"
    /\ UNCHANGED vars

AddStep(a)  == Added(a) \/ AddFails(a)
CallStep(c) == \/ Scan(c) \/ Expire(c) \/ Restarted(c) \/ GoCold(c) \/ ColdCreated(c)
               \/ PickWorker(c) \/ CallFails(c) \/ Fetch(c)

Act ==
    \/ \E a \in Adds, p \in usage.paths, n \in 1..usage.most, r \in usage.restarts :
            AddStart(a, p, n, r)
    \/ \E a \in Add : AddStep(a)
    \/ \E c \in Call, p \in usage.asked : Arrive(c, p)
    \/ \E c \in Call : CallStep(c)
    \/ \E k \in Worker : ShutdownKey(k) \/ LifetimeEnds(k)
    \/ \E p \in Path : ShutdownPath(p)
    \/ \E o \in Op : ExpireDate(o)
    \/ OutOfKeys \/ Idle

Next == Act /\ UNCHANGED usage

Spec == Init /\ [][Next]_vars

\* Awaited replies come and the event loop runs what is ready.
FairSpec ==
    Spec /\ WF_vars(/\ (\E a \in Add : AddStep(a)) \/ (\E c \in Call : CallStep(c))
                    /\ UNCHANGED usage)

-----------------------------------------------------------------------------
\* The types of the variables.
TypeOK ==
    /\ usage \in Usages
    /\ workerPool \in [Path -> Array \cup {None}]
    /\ array \in [Array -> Seq(Worker)]
    /\ running \in Call \cup {None}
    /\ mutex \in Seq(Call)
    /\ pc \in [Op -> AddPc \cup CallPc]
    /\ \A a \in Add : pc[a] \in AddPc
    /\ \A c \in Call : pc[c] \in CallPc
    /\ path \in [Op -> Path \cup {None}]
    /\ todo \in [Call -> Seq(Worker \X Path)]
    /\ arr \in [Op -> Array \cup {None}]
    /\ left \in [Add -> 0..MaxAdd] /\ num \in [Add -> 0..MaxAdd]
    /\ pick \in [Call -> Worker \cup {None}]
    /\ conf \in [Worker -> Op \cup {None}]
    /\ restart \in [Op -> BOOLEAN]
    /\ expired \subseteq Op
    /\ registered \subseteq Worker
    /\ pool \in {"serving", "gone"}

(* Load balancing serves every worker of a path once a round and no worker *)
(* serves two paths, whatever adds, restarts and shutdowns overlap.        *)
NoDuplicateKeys ==
    /\ \A p \in Path : IsInjective(Workers(p))
    /\ \A p, q \in Path : p # q => ToSet(Workers(p)) \cap ToSet(Workers(q)) = {}

(* "restart - automatically restart the worker after its lifetime expires" *)
(* and "number - the number of workers" (README.md:42, 43): a path of the  *)
(* configuration keeps its number of workers through every expiry, as long *)
(* as workers can be created and nobody uses the API.                      *)
RestartKeepsNumber ==
    ~usage.mayFail /\ usage.adds = {} /\ usage.shutdowns = {} =>
        \A a \in InitAdd :
            pc[a] = "done" /\ restart[a] => Len(Workers(path[a])) = num[a]

(* The mutex is given back on every way out of the critical section: each  *)
(* request that came in is answered (or the model has run out of keys).    *)
CallsComplete ==
    \A c \in Call :
        []<>(pc[c] \in Ended \cup {"idle"} \/ (Unused = {} /\ ~usage.mayFail))

(* "add workers to pool for specific service path" (index.ts:392): when no *)
(* request is at work on the pool, a worker that an add request created is *)
(* in it until it expires or is shut down.                                 *)
AddedWorkersPooled ==
    \A a \in Add, w \in registered :
        pc[a] = "done" /\ conf[w] = a /\ a \notin expired /\ mutex = <<>> => w \in Pooled

=============================================================================
