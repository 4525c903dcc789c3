----------------------------- MODULE WorkerPool -----------------------------
(***************************************************************************)
(* The user worker pool of crates/base/src/worker_ctx.rs: the task that    *)
(* owns the table of user workers, the worker threads it starts, the tasks *)
(* that carry one request each, and the operations with which main workers *)
(* reach the pool (crates/sb_workers/lib.rs).                              *)
(*                                                                         *)
(* Everything except the worker threads runs on the server's single        *)
(* thread: an action below is what a task does between two awaits.  Worker *)
(* threads interleave with it freely.  The JavaScript of a main worker is  *)
(* the environment here (any order of creates, fetches and shutdowns);     *)
(* module MainWorker narrows it to the code under api/main.                *)
(*                                                                         *)
(* Bodies, headers and paths are left out: a request is its identity, a    *)
(* worker is the key Uuid::new_v4() gives it.                              *)
(***************************************************************************)
EXTENDS Naturals, Sequences, FiniteSets

CONSTANTS
    Worker,          \* keys the pool can hand out; bounds the workers created
    StrayKey,        \* well-formed keys that belong to no worker
    Request,         \* requests the main workers forward
    Main,            \* main workers (Server::new starts num_main_workers)
    ApiKeys,         \* keys a shutdown request of the HTTP API may name
    EndingMains,     \* main workers whose run() may return
    None,            \* no worker, no main worker
    HangingRequests, \* requests the worker's handler may never answer
    FragileRequests, \* requests whose body may fail, or whose connection the worker may close
    PanicAborts,     \* TRUE: release profile (panic = "abort"); FALSE: dev profile
    MaxInbox         \* main workers send only while the inbox is shorter than this

Key == Worker \cup StrayKey

ASSUME ConstantsAssumption ==
    /\ Worker \cap StrayKey = {}
    /\ None \notin Worker \cup Main
    /\ ApiKeys \subseteq Key
    /\ EndingMains \subseteq Main
    /\ HangingRequests \subseteq Request
    /\ FragileRequests \subseteq Request
    /\ PanicAborts \in BOOLEAN
    /\ MaxInbox \in Nat

VARIABLES
    process,     \* "up", or "aborted" by a panic under the release profile
    pool,        \* the pool task: "serving", "bailed" or "panicked"
    inbox,       \* user_worker_msgs: the unbounded channel into the pool task
    mains,       \* main workers whose runtime is alive
    held,        \* held[m]: keys that main worker m got from its create calls
    registered,  \* keys of the map user_workers
    handles,     \* handles[w]: requests whose JoinHandle is stored for w
    drain,       \* the task a Shutdown(w) message spawns, by how far it is
    joined,      \* joined[w]: requests that task waits for
    terminate,   \* the oneshot channel that stops w's thread
    thread,      \* the OS thread of worker w
    timer,       \* the lifetime timer task on that thread
    stage,       \* how far a request has come
    target,      \* target[r]: the worker r is sent to, or None
    caller       \* caller[r]: the main worker that sent r, or None

poolVars    == <<pool, inbox, registered, handles>>
drainVars   == <<drain, joined>>
workerVars  == <<terminate, thread, timer>>
requestVars == <<stage, target, caller>>
mainVars    == <<mains, held>>
vars == <<process, poolVars, drainVars, workerVars, requestVars, mainVars>>

PoolState    == {"serving", "bailed", "panicked"}
DrainState   == {"none", "joining", "signalled", "released"}
ChannelState == {"none", "open", "sent", "dropped"}
ThreadState  == {"none", "spawned", "running", "stopping", "ended"}
TimerState   == {"none", "armed", "fired", "aborted"}

\* A request's task exists from "routed" on, its socket from "offered" on.
InFlight == {"routed", "offered", "serving", "responded", "broken"}
Final    == {"answered", "failed", "unavailable", "orphaned"}
Stage    == {"idle", "queued"} \cup InFlight \cup Final

CreateMsg   == [type : {"Create"}, main : Main, exists : BOOLEAN]
SendMsg     == [type : {"SendRequest"}, req : Request]
ShutdownMsg == [type : {"Shutdown"}, key : Key]
UserWorkerMsgs == CreateMsg \cup SendMsg \cup ShutdownMsg

Unused  == {w \in Worker : thread[w] = "none"}
Creates == {i \in 1..Len(inbox) : inbox[i].type = "Create"}

-----------------------------------------------------------------------------
Init ==
    /\ process = "up"
    /\ pool = "serving"
    /\ inbox = <<>>
    /\ mains = Main
    /\ held = [m \in Main |-> {}]
    /\ registered = {}
    /\ handles = [w \in Worker |-> {}]
    /\ drain = [w \in Worker |-> "none"]
    /\ joined = [w \in Worker |-> {}]
    /\ terminate = [w \in Worker |-> "none"]
    /\ thread = [w \in Worker |-> "none"]
    /\ timer = [w \in Worker |-> "none"]
    /\ stage = [r \in Request |-> "idle"]
    /\ target = [r \in Request |-> None]
    /\ caller = [r \in Request |-> None]

-----------------------------------------------------------------------------
(* Operations of the main workers.  A send on a closed channel is an error *)
(* the caller sees at once.                                                *)

\* op_user_worker_create; the reply is part of PoolCreate.  The bound: no more
\* create messages under way than there are keys left.
MainCreate(m) ==
    /\ process = "up" /\ m \in mains /\ pool = "serving"
    /\ Len(inbox) < MaxInbox
    /\ Cardinality(Creates) < Cardinality(Unused)
    /\ \E exists \in BOOLEAN :
         inbox' = Append(inbox, [type |-> "Create", main |-> m, exists |-> exists])
    /\ UNCHANGED <<process, pool, registered, handles, drainVars, workerVars,
                   requestVars, mainVars>>

\* op_user_worker_fetch_send: take the built request, send it to the pool.
MainSend(m, w, r) ==
    /\ process = "up" /\ m \in mains /\ w \in held[m]
    /\ stage[r] = "idle"
    /\ target' = [target EXCEPT ![r] = w]
    /\ caller' = [caller EXCEPT ![r] = m]
    /\ \/ /\ pool = "serving"
          /\ Len(inbox) < MaxInbox
          /\ inbox' = Append(inbox, [type |-> "SendRequest", req |-> r])
          /\ stage' = [stage EXCEPT ![r] = "queued"]
       \/ /\ pool # "serving"
          /\ stage' = [stage EXCEPT ![r] = "failed"]
          /\ UNCHANGED inbox
    /\ UNCHANGED <<process, pool, registered, handles, drainVars, workerVars, mainVars>>

\* op_user_worker_shutdown: any well-formed key is passed on unchecked.
ApiShutdown(k) ==
    /\ process = "up" /\ mains # {} /\ pool = "serving"
    /\ k \in StrayKey \/ (k \in Worker /\ thread[k] # "none")
    /\ Len(inbox) < MaxInbox
    /\ inbox' = Append(inbox, [type |-> "Shutdown", key |-> k])
    /\ UNCHANGED <<process, pool, registered, handles, drainVars, workerVars,
                   requestVars, mainVars>>

\* A main worker's run() returns: its runtime and every reply receiver it
\* holds are dropped.
MainEnds(m) ==
    /\ process = "up" /\ m \in mains \cap EndingMains
    /\ mains' = mains \ {m}
    /\ UNCHANGED <<process, poolVars, drainVars, workerVars, requestVars, held>>

-----------------------------------------------------------------------------
(* The pool task: one message per turn of its loop.                        *)

HeadIs(type) == process = "up" /\ pool = "serving" /\ inbox # <<>> /\ Head(inbox).type = type

\* The loop is left with the table reg: the table, its terminate senders, the
\* join handles and all queued messages are dropped.
PoolGone(state, reg) ==
    /\ pool' = state
    /\ inbox' = <<>>
    /\ registered' = {}
    /\ handles' = [w \in Worker |-> {}]
    /\ terminate' = [w \in Worker |-> IF w \in reg THEN "dropped" ELSE terminate[w]]
    /\ stage' = [r \in Request |-> IF stage[r] = "queued" THEN "failed" ELSE stage[r]]

\* create_worker for a path that exists.  A thread that could not be started is
\* only reported on the console.
StartThread(w) ==
    \E started \in {"spawned", "ended"} : thread' = [thread EXCEPT ![w] = started]

\* UserWorkerMsgs::Create.  The thread is spawned and the
\* worker registered before the reply is sent; a caller that has gone makes
\* the loop bail.
PoolCreate ==
    /\ HeadIs("Create")
    /\ LET msg == Head(inbox) IN
       \/ /\ ~msg.exists
          /\ IF msg.main \in mains
             THEN /\ inbox' = Tail(inbox)
                  /\ UNCHANGED <<pool, registered, handles, terminate, stage>>
             ELSE PoolGone("bailed", registered)
          /\ UNCHANGED <<thread, held>>
       \/ /\ msg.exists
          /\ \E w \in Unused :
               /\ StartThread(w)
               /\ IF msg.main \in mains
                  THEN /\ inbox' = Tail(inbox)
                       /\ registered' = registered \cup {w}
                       /\ terminate' = [terminate EXCEPT ![w] = "open"]
                       /\ held' = [held EXCEPT ![msg.main] = @ \cup {w}]
                       /\ UNCHANGED <<pool, handles, stage>>
                  ELSE /\ PoolGone("bailed", registered \cup {w})
                       /\ UNCHANGED held
    /\ UNCHANGED <<process, drainVars, timer, target, caller, mains>>

\* user_workers.get(&key) knows the worker.
RoutableAlways(w) == TRUE               \* mutant: the table is not asked
RoutableIfUsed(w) == handles[w] # {}    \* mutant: the wrong table is asked
Routable(w) == w \in registered

\* The join handles of w with the one of r's task.
CollectLast(w, r) == [handles EXCEPT ![w] = {r}]    \* mutant: insert, never push
Collect(w, r) == [handles EXCEPT ![w] = @ \cup {r}]

\* UserWorkerMsgs::SendRequest: spawn the request's task and keep its handle,
\* or answer "User worker not available".
PoolSend ==
    /\ HeadIs("SendRequest")
    /\ LET r == Head(inbox).req
           w == target[r] IN
       \/ /\ Routable(w)
          /\ handles' = Collect(w, r)
          /\ stage' = [stage EXCEPT ![r] = "routed"]
          /\ inbox' = Tail(inbox)
          /\ UNCHANGED <<pool, registered, terminate>>
       \/ /\ ~Routable(w)
          /\ IF caller[r] \in mains
             THEN /\ stage' = [stage EXCEPT ![r] = "unavailable"]
                  /\ inbox' = Tail(inbox)
                  /\ UNCHANGED <<pool, registered, handles, terminate>>
             ELSE PoolGone("bailed", registered)
    /\ UNCHANGED <<process, drainVars, thread, timer, target, caller, mainVars>>

\* UserWorkerMsgs::Shutdown: user_workers.remove(&key).unwrap() panics when
\* the key is not in the table, otherwise the draining task is spawned.
PoolShutdown ==
    /\ HeadIs("Shutdown")
    /\ LET k == Head(inbox).key IN
       \/ /\ k \in registered
          /\ registered' = registered \ {k}
          /\ handles' = [handles EXCEPT ![k] = {}]
          /\ joined' = [joined EXCEPT ![k] = handles[k]]
          /\ drain' = [drain EXCEPT ![k] = "joining"]
          /\ inbox' = Tail(inbox)
          /\ UNCHANGED <<process, pool, terminate, stage>>
       \/ /\ k \notin registered
          /\ PoolGone("panicked", registered)
          /\ process' = IF PanicAborts THEN "aborted" ELSE process
          /\ UNCHANGED drainVars
    /\ UNCHANGED <<thread, timer, target, caller, mainVars>>

-----------------------------------------------------------------------------
(* The draining task of a shut down worker.                                *)

\* join_all(handles_worker) is done.
NotJoined(w) == TRUE    \* mutant: nobody waits
AllJoined(w) == \A r \in joined[w] : stage[r] \in Final

\* Mutant: the terminate sender is dropped, not used.
SignalDrops(w) ==
    /\ process = "up" /\ drain[w] = "joining" /\ AllJoined(w)
    /\ drain' = [drain EXCEPT ![w] = "released"]
    /\ terminate' = [terminate EXCEPT ![w] = "dropped"]
    /\ UNCHANGED <<process, poolVars, joined, thread, timer, requestVars, mainVars>>

\* All requests are done: send the terminate signal.  When the
\* thread has gone the send fails, and the task returns and drops the worker.
Signal(w) ==
    /\ process = "up" /\ drain[w] = "joining" /\ AllJoined(w)
    /\ IF thread[w] = "ended"
       THEN /\ drain' = [drain EXCEPT ![w] = "released"]
            /\ terminate' = [terminate EXCEPT ![w] = "dropped"]
       ELSE /\ drain' = [drain EXCEPT ![w] = "signalled"]
            /\ terminate' = [terminate EXCEPT ![w] = "sent"]
    /\ UNCHANGED <<process, poolVars, joined, thread, timer, requestVars, mainVars>>

\* A second later the request channel of the worker is dropped.
Release(w) ==
    /\ process = "up" /\ drain[w] = "signalled"
    /\ drain' = [drain EXCEPT ![w] = "released"]
    /\ UNCHANGED <<process, poolVars, joined, workerVars, requestVars, mainVars>>

-----------------------------------------------------------------------------
(* The worker thread.                                                      *)

\* Everything the thread owned is dropped: its timer and every connection.
ThreadGone(w) ==
    /\ thread' = [thread EXCEPT ![w] = "ended"]
    /\ timer' = [timer EXCEPT ![w] = IF @ = "armed" THEN "aborted" ELSE @]
    /\ stage' = [r \in Request |->
                   IF target[r] = w /\ stage[r] \in {"offered", "serving"}
                   THEN "broken" ELSE stage[r]]

\* EdgeRuntime::new(..).unwrap(), then the lifetime timer is spawned.
Boot(w) ==
    /\ process = "up" /\ thread[w] = "spawned"
    /\ thread' = [thread EXCEPT ![w] = "running"]
    /\ timer' = [timer EXCEPT ![w] = "armed"]
    /\ UNCHANGED <<process, poolVars, drainVars, terminate, requestVars, mainVars>>

\* That unwrap panics, or the worker's code panics the thread.
ThreadPanics(w) ==
    /\ process = "up" /\ thread[w] \in {"spawned", "running"}
    /\ ThreadGone(w)
    /\ process' = IF PanicAborts THEN "aborted" ELSE process
    /\ UNCHANGED <<poolVars, drainVars, terminate, target, caller, mainVars>>

\* worker.run() wins the select: the event loop completed or failed.
EventLoopEnds(w) ==
    /\ process = "up" /\ thread[w] = "running"
    /\ ThreadGone(w)
    /\ UNCHANGED <<process, poolVars, drainVars, terminate, target, caller, mainVars>>

\* Shutdown(w) is sent to the pool, if it still listens.
SentNowhere(w) == inbox                                               \* mutant
SentNilKey(w) == Append(inbox, [type |-> "Shutdown", key |-> None])   \* mutant
ShutdownSent(w) ==
    IF pool = "serving" THEN Append(inbox, [type |-> "Shutdown", key |-> w]) ELSE inbox

\* Mutant: an interval timer.
TimerRepeats(w) ==
    /\ process = "up" /\ thread[w] = "running" /\ timer[w] = "armed"
    /\ Len(inbox) < MaxInbox
    /\ inbox' = ShutdownSent(w)
    /\ UNCHANGED <<process, pool, registered, handles, drainVars, workerVars,
                   requestVars, mainVars>>

\* The lifetime is over.
TimerFires(w) ==
    /\ process = "up" /\ thread[w] = "running" /\ timer[w] = "armed"
    /\ timer' = [timer EXCEPT ![w] = "fired"]
    /\ inbox' = ShutdownSent(w)
    /\ UNCHANGED <<process, pool, registered, handles, drainVars, terminate, thread,
                   requestVars, mainVars>>

\* terminate_rx wins the select (a signal, or its sender was dropped).  A
\* timer that has not finished is aborted and the thread sleeps a second.
TakeTerminate(w) ==
    /\ process = "up" /\ thread[w] = "running"
    /\ terminate[w] \in {"sent", "dropped"}
    /\ \/ /\ timer[w] = "armed"
          /\ timer' = [timer EXCEPT ![w] = "aborted"]
          /\ thread' = [thread EXCEPT ![w] = "stopping"]
          /\ UNCHANGED stage
       \/ /\ timer[w] # "armed"
          /\ ThreadGone(w)
    /\ UNCHANGED <<process, poolVars, drainVars, terminate, target, caller, mainVars>>

StopThread(w) ==
    /\ process = "up" /\ thread[w] = "stopping"
    /\ ThreadGone(w)
    /\ UNCHANGED <<process, poolVars, drainVars, terminate, target, caller, mainVars>>

-----------------------------------------------------------------------------
(* A request's way through create_worker's dispatcher and back.            *)

Move(r, from, to) ==
    /\ process = "up" /\ stage[r] = from
    /\ stage' = [stage EXCEPT ![r] = to]
    /\ UNCHANGED <<poolVars, drainVars, workerVars, target, caller, mainVars>>

\* Mutant: nobody notices that the thread has gone.
DispatchBlindly(r) == Move(r, "routed", "offered") /\ UNCHANGED process

\* The request's task hands the message to the dispatcher, which pushes one end
\* of a socket pair into the worker's channel; with no receiver left, or when
\* the thread goes, the connection breaks.
Dispatch(r) ==
    /\ Move(r, "routed", IF thread[target[r]] = "ended" THEN "broken" ELSE "offered")
    /\ UNCHANGED process

\* UnixStream::pair().unwrap() or the handshake's unwrap panics the task.
DispatchPanics(r) ==
    /\ Move(r, "routed", "broken")
    /\ process' = IF PanicAborts THEN "aborted" ELSE process

\* op_net_accept hands the stream to the worker's http server.
Accept(r) ==
    /\ Move(r, "offered", "serving")
    /\ thread[target[r]] = "running"
    /\ UNCHANGED process

\* The worker's handler produced a response; send_request resolves with it.
Respond(r) ==
    /\ Move(r, "serving", "responded")
    /\ thread[target[r]] = "running"
    /\ UNCHANGED process

\* Mutant: the requests of a worker share one connection.
SharedFails(r) ==
    /\ process = "up" /\ r \in FragileRequests /\ stage[r] \in {"offered", "serving"}
    /\ stage' = [q \in Request |->
                   IF target[q] = target[r] /\ stage[q] \in {"offered", "serving"}
                   THEN "broken" ELSE stage[q]]
    /\ UNCHANGED <<process, poolVars, drainVars, workerVars, target, caller, mainVars>>

\* send_request resolves with an error while the worker's thread lives: the
\* request's body stream fails, or the worker closes the connection.
SendFails(r) ==
    /\ r \in FragileRequests
    /\ \E from \in {"offered", "serving"} : Move(r, from, "broken")
    /\ UNCHANGED process

\* The request's task passes the response to the main worker, if it is there.
Deliver(r) ==
    /\ Move(r, "responded", IF caller[r] \in mains THEN "answered" ELSE "orphaned")
    /\ UNCHANGED process

\* res_rx.await?? returns early; the reply sender is dropped.
Fail(r) ==
    /\ Move(r, "broken", "failed")
    /\ UNCHANGED process

-----------------------------------------------------------------------------
\* Nothing left to do but wait: the server stays up with nothing in progress,
\* or the process is gone.
Quiescent ==
    \/ process = "aborted"
    \/ /\ inbox = <<>>
       /\ \A r \in Request : stage[r] \in {"idle"} \cup Final
       /\ \A w \in Worker : thread[w] \in {"none", "ended"} /\ drain[w] \in {"none", "released"}

Idle == Quiescent /\ UNCHANGED vars

MainStep ==
    \/ \E m \in Main : MainCreate(m) \/ MainEnds(m)
    \/ \E m \in Main, w \in Worker, r \in Request : MainSend(m, w, r)
    \/ \E k \in ApiKeys : ApiShutdown(k)

PoolStep == PoolCreate \/ PoolSend \/ PoolShutdown

DrainStep(w) == Signal(w) \/ Release(w)

ThreadStep(w) ==
    \/ Boot(w) \/ ThreadPanics(w) \/ EventLoopEnds(w)
    \/ TimerFires(w) \/ TakeTerminate(w) \/ StopThread(w)

RequestStep(r) ==
    \/ Dispatch(r) \/ DispatchPanics(r) \/ Accept(r)
    \/ Respond(r) \/ SendFails(r) \/ Deliver(r) \/ Fail(r)

Next ==
    \/ MainStep
    \/ PoolStep
    \/ \E w \in Worker : DrainStep(w) \/ ThreadStep(w)
    \/ \E r \in Request : RequestStep(r)
    \/ Idle

Spec == Init /\ [][Next]_vars

\* Spawned tasks are polled, booted threads run, lifetimes elapse.  Nothing
\* obliges a main worker to call, a worker's event loop to end, the handler of a
\* hanging request to answer, or a request's body to fail.
Fairness ==
    /\ WF_vars(PoolStep)
    /\ \A w \in Worker :
         /\ WF_vars(DrainStep(w))
         /\ WF_vars(Boot(w))
         /\ WF_vars(TimerFires(w))
         /\ WF_vars(TakeTerminate(w))
         /\ WF_vars(StopThread(w))
    /\ \A r \in Request :
         /\ WF_vars(Dispatch(r) \/ Accept(r) \/ Deliver(r) \/ Fail(r))
         /\ r \notin HangingRequests => WF_vars(Respond(r))

FairSpec == Spec /\ Fairness

-----------------------------------------------------------------------------
\* The types of the variables.
TypeOK ==
    /\ process \in {"up", "aborted"}
    /\ pool \in PoolState
    /\ inbox \in Seq(UserWorkerMsgs)
    /\ mains \subseteq Main
    /\ held \in [Main -> SUBSET Worker]
    /\ registered \subseteq Worker
    /\ handles \in [Worker -> SUBSET Request]
    /\ drain \in [Worker -> DrainState]
    /\ joined \in [Worker -> SUBSET Request]
    /\ terminate \in [Worker -> ChannelState]
    /\ thread \in [Worker -> ThreadState]
    /\ timer \in [Worker -> TimerState]
    /\ stage \in [Request -> Stage]
    /\ target \in [Request -> Worker \cup {None}]
    /\ caller \in [Request -> Main \cup {None}]

Pending(w) == {r \in Request : target[r] = w /\ stage[r] \in InFlight}

(* "terminate the Isolate only after all requests have been processed"     *)
(* (worker_ctx.rs:238): when the terminate signal has been sent, no        *)
(* request that was let through to that worker is unfinished.  The table   *)
(* of join handles, the pool's order of messages and the draining task     *)
(* have to agree for it.                                                   *)
GracefulStop == \A w \in Worker : terminate[w] = "sent" => Pending(w) = {}

(* user_workers.remove(&key).unwrap() does not panic as long as only       *)
(* lifetimes end workers: the pool never sees a second Shutdown for a key. *)
PoolNeverPanics == ApiKeys = {} => pool # "panicked"

(* "User worker not available" is only answered for a worker whose         *)
(* shutdown the pool has begun: the reply to a create call never reaches   *)
(* the main worker before the pool routes requests to the new worker.      *)
RefusedOnlyAfterShutdown ==
    \A r \in Request : stage[r] = "unavailable" => drain[target[r]] # "none"

(* The terminate sender of a worker that still runs is kept somewhere (in  *)
(* the table or in the draining task) while the pool serves: dropping it   *)
(* would stop the thread at once, requests and all.                        *)
NoPrematureTermination ==
    \A w \in Worker :
        pool = "serving" /\ terminate[w] = "dropped" => thread[w] = "ended"

(* In the release profile a request fails only with its own body or        *)
(* connection (send_request, worker_ctx.rs:142), with its own worker's     *)
(* thread, with the pool or with the process: neither the end of another   *)
(* worker nor the failed body of another request breaks it, not even one   *)
(* of the same worker, since each has a socket pair of its own.            *)
FailureIsolated ==
    PanicAborts =>
        \A r \in Request \ FragileRequests :
            stage[r] \in {"broken", "failed"} =>
                thread[target[r]] = "ended" \/ pool # "serving" \/ process = "aborted"

(* Why the above hold: the invariants the proofs rest on.                  *)

\* A worker's terminate sender is in exactly one place, and the place says
\* how far its shutdown is.
TablesAgree ==
    /\ \A w \in Worker :
         /\ terminate[w] = "open" <=> w \in registered \/ drain[w] = "joining"
         /\ w \in registered => drain[w] = "none"
         /\ terminate[w] = "sent" => drain[w] \in {"signalled", "released"}
         /\ drain[w] = "signalled" => terminate[w] = "sent"
         /\ thread[w] = "none" => terminate[w] = "none" /\ drain[w] = "none"
         /\ terminate[w] = "none" => thread[w] = "none"
    /\ pool # "serving" => registered = {} /\ inbox = <<>>

\* A request in the inbox is there once and nothing else has happened to it.
SendsQueued ==
    \A i \in 1..Len(inbox) :
        inbox[i].type = "SendRequest" =>
           /\ stage[inbox[i].req] = "queued"
           /\ \A j \in 1..Len(inbox) :
                inbox[j].type = "SendRequest" /\ inbox[j].req = inbox[i].req => i = j

\* The pool knows every request it let through until the worker may stop.
FlightsTracked ==
    /\ \A m \in Main : \A w \in held[m] : thread[w] # "none"
    /\ \A r \in Request :
         /\ stage[r] # "idle" => target[r] \in Worker /\ thread[target[r]] # "none"
         /\ stage[r] \in InFlight =>
              /\ target[r] \in registered => r \in handles[target[r]]
              /\ drain[target[r]] = "joining" => r \in joined[target[r]]
              /\ drain[target[r]] \notin {"signalled", "released"}

\* Without the API, only the lifetime timer of a registered worker has put
\* a Shutdown for it in the inbox, once.
ShutdownOnce ==
    ApiKeys = {} =>
        /\ pool # "panicked"
        /\ \A i \in 1..Len(inbox) :
             inbox[i].type = "Shutdown" =>
                /\ inbox[i].key \in registered
                /\ timer[inbox[i].key] = "fired"
                /\ \A j \in 1..Len(inbox) :
                     inbox[j].type = "Shutdown" /\ inbox[j].key = inbox[i].key => i = j
        /\ \A w \in Worker :
             drain[w] # "none" => timer[w] = "fired"
        /\ \A w \in Worker : thread[w] \in {"none", "spawned"} => timer[w] = "none"

\* Keys are known to main workers only after the pool has registered them.
KeysKnown ==
    /\ \A m \in Main : \A w \in held[m] :
         w \in registered \/ drain[w] # "none" \/ pool # "serving"
    /\ \A r \in Request : stage[r] = "queued" =>
         target[r] \in registered \/ drain[target[r]] # "none"

(* Every request accepted by the pool's channel gets its answer, error or  *)
(* refusal, whatever happens to its worker, as long as the worker's own    *)
(* handler answers what it accepts.                                        *)
RequestsResolve ==
    \A r \in Request \ HangingRequests :
        stage[r] = "queued" ~> (stage[r] \in Final \/ process = "aborted")

(* "workers have a lifetime and can automatically turn off when it         *)
(* expires" (README.md:20): once the lifetime timer has fired the worker's *)
(* thread ends.                                                            *)
LifetimeEnforced ==
    \A w \in Worker :
        timer[w] = "fired" ~> (thread[w] = "ended" \/ process = "aborted")

(* Nothing a main worker does stops the pool: "does not affect the main    *)
(* workers, they are executed continuously" (README.md:20).                *)
PoolSurvives == pool # "panicked"

-----------------------------------------------------------------------------
(* What the pool promises, whatever its tables and tasks do: the worker    *)
(* lives the life UserWorkers describes, and so do the requests.  A        *)
(* request is admitted from the moment its task exists; it is answered     *)
(* when the worker's response is there, whether or not the main worker     *)
(* still waits for it.                                                     *)

LifeOf(th, term, dr) ==
    IF th = "none" THEN "absent"
    ELSE IF term = "sent" THEN "retired"
    ELSE IF th = "ended" THEN "died"
    ELSE IF dr = "joining" THEN "closing" ELSE "live"

CallOf(st) ==
    IF st = "idle" THEN "none"
    ELSE IF st = "queued" THEN "pending"
    ELSE IF st \in {"routed", "offered", "serving", "broken"} THEN "admitted"
    ELSE IF st \in {"responded", "answered", "orphaned"} THEN "answered" ELSE "refused"

workerLife  == [w \in Worker |-> LifeOf(thread[w], terminate[w], drain[w])]
requestCall == [r \in Request |-> CallOf(stage[r])]

UW == INSTANCE UserWorkers WITH life <- workerLife, call <- requestCall, at <- target

(* The pool implements the abstract specification of user workers.         *)
ImplementsUserWorkers == UW!Spec

=============================================================================
