------------------------------- MODULE Server -------------------------------
(***************************************************************************)
(* The server of crates/base/src/server.rs: it starts the main workers,    *)
(* accepts connections, gives each connection one of them in turn, and     *)
(* forwards the requests of a connection, one after the other, to its main *)
(* worker's dispatcher (create_worker in worker_ctx.rs).                   *)
(*                                                                         *)
(* All of it runs on one thread, and so do the main workers.  When listen  *)
(* returns, so does main, and every task is dropped.  A request is the     *)
(* connection it came on and whether its path starts with /api.            *)
(***************************************************************************)
EXTENDS Naturals, Sequences, FiniteSets, FiniteSetsExt, SequencesExt

CONSTANTS
    MainWorkers, \* the list of main workers, num_main_workers long
    Conn,        \* TCP connections
    MaxErrors,   \* bound on failing accepts
    None         \* no main worker

Main == ToSet(MainWorkers)

\* What the constants have to be.
ConstantsOK ==
    /\ MainWorkers \in Seq(Main) /\ MainWorkers # <<>> /\ IsInjective(MainWorkers)
    /\ IsFiniteSet(Conn)
    /\ MaxErrors \in Nat
    /\ None \notin Main

VARIABLES
    server,   \* "up" or "stopped"
    txs,      \* main_worker_req_txs, in order
    accept,   \* the main worker cloned for the accept in progress, or None
    errors,   \* accepts that failed
    owner,    \* owner[c]: the main worker c's service sends to, or None
    conn,     \* conn[c]: "new", "idle", a request's stage, or "closed"
    running   \* main workers whose run() has not returned

vars == <<server, txs, accept, errors, owner, conn, running>>

\* A request of the connection is with the dispatcher, with the main worker, its
\* response is there, or its stream is broken.
RequestStage == {"queued", "offered", "responded", "broken"}

Init ==
    /\ server = "up"
    /\ txs = MainWorkers
    /\ accept = None
    /\ errors = 0
    /\ owner = [c \in Conn |-> None]
    /\ conn = [c \in Conn |-> "new"]
    /\ running = Main

-----------------------------------------------------------------------------
(* listen                                                                  *)

\* With several main workers, the first is moved to the end.
Stay(s) == s                        \* mutant: always get(0)
Rotated(s) == Append(Tail(s), Head(s))

\* The head of the loop: the main worker of the next connection is chosen
\* before there is one.
Choose ==
    /\ server = "up" /\ accept = None
    /\ accept' = Head(txs)
    /\ txs' = Rotated(txs)
    /\ UNCHANGED <<server, errors, owner, conn, running>>

\* listener.accept() yields a connection: its task is spawned.
Accept(c) ==
    /\ server = "up" /\ accept # None
    /\ conn[c] = "new"
    /\ conn' = [conn EXCEPT ![c] = "idle"]
    /\ owner' = [owner EXCEPT ![c] = accept]
    /\ accept' = None
    /\ UNCHANGED <<server, txs, errors, running>>

\* It yields an error; the loop has moved on in the list all the same.
AcceptFails ==
    /\ server = "up" /\ accept # None
    /\ errors < MaxErrors
    /\ errors' = errors + 1
    /\ accept' = None
    /\ UNCHANGED <<server, txs, owner, conn, running>>

\* Ctrl-C ends listen, the runtime and with it every task.
CtrlC ==
    /\ server = "up" /\ accept # None
    /\ server' = "stopped"
    /\ accept' = None
    /\ conn' = [c \in Conn |-> IF conn[c] = "new" THEN "new" ELSE "closed"]
    /\ running' = {}
    /\ UNCHANGED <<txs, errors, owner>>

-----------------------------------------------------------------------------
(* WorkerService                                                           *)

\* A request whose path is outside /api is answered with status 400 at once.
Reject(c) == server = "up" /\ conn[c] = "idle" /\ UNCHANGED vars

Moved(c, from, to) ==
    /\ server = "up" /\ conn[c] = from
    /\ conn' = [conn EXCEPT ![c] = to]
    /\ UNCHANGED <<server, txs, accept, errors, owner, running>>

\* Any other request goes to the dispatcher of the connection's main worker.
Forward(c) == Moved(c, "idle", "queued")

\* The response, or an error that makes hyper close the connection.
Return(c) ==
    \/ Moved(c, "responded", "idle")
    \/ Moved(c, "broken", "closed")

ClientCloses(c) == Moved(c, "idle", "closed")

-----------------------------------------------------------------------------
(* The main workers.                                                       *)

\* The dispatcher pushes a stream to the main worker; if that has gone the
\* stream breaks.
DispatchBlindly(c) == Moved(c, "queued", "offered")   \* mutant
Dispatch(c) ==
    /\ Moved(c, "queued", IF owner[c] \in running THEN "offered" ELSE "broken")

\* The main worker answers: its handler always produces some response, though
\* a request to a user worker may hang.
Respond(c) ==
    /\ owner[c] \in running
    /\ Moved(c, "offered", "responded")

\* run() returns, with an error or because the event loop is done: the streams
\* the main worker has are dropped.  Nobody takes it from the list.
MainEnds(m) ==
    /\ server = "up" /\ m \in running
    /\ running' = running \ {m}
    /\ conn' = [c \in Conn |-> IF owner[c] = m /\ conn[c] = "offered"
                               THEN "broken" ELSE conn[c]]
    /\ UNCHANGED <<server, txs, accept, errors, owner>>

-----------------------------------------------------------------------------
Stopped == server = "stopped" /\ UNCHANGED vars

ConnStep(c) == Dispatch(c) \/ Respond(c) \/ Return(c)

Next ==
    \/ Choose \/ AcceptFails \/ CtrlC
    \/ \E c \in Conn : \/ Accept(c) \/ Reject(c) \/ Forward(c) \/ ClientCloses(c)
                       \/ ConnStep(c)
    \/ \E m \in Main : MainEnds(m)
    \/ Stopped

Spec == Init /\ [][Next]_vars

\* Tasks that are ready are polled; main workers answer.
FairSpec == Spec /\ \A c \in Conn : WF_vars(ConnStep(c))

-----------------------------------------------------------------------------
\* The types of the variables.
TypeOK ==
    /\ server \in {"up", "stopped"}
    /\ txs \in Seq(Main) /\ Len(txs) = Len(MainWorkers) /\ IsInjective(txs)
    /\ accept \in Main \cup {None}
    /\ errors \in 0..MaxErrors
    /\ owner \in [Conn -> Main \cup {None}]
    /\ conn \in [Conn -> {"new", "idle", "closed"} \cup RequestStage]
    /\ running \subseteq Main

Served(m) == Cardinality({c \in Conn : owner[c] = m})

(* The main workers share the connections evenly: any two differ by one at *)
(* most, and by one more for each accept that failed, which also moves the *)
(* list on.                                                                *)
Balanced == \A m, n \in Main : Served(m) <= Served(n) + 1 + errors

(* A forwarded request is answered or its connection closed, also when its *)
(* main worker ended before, or while the request was on its way.          *)
ForwardedReturns ==
    \A c \in Conn : []<>(conn[c] \notin RequestStage)

=============================================================================
