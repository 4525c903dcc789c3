------------------------------ MODULE Requests ------------------------------
(***************************************************************************)
(* The way of a request through the server: the connections and their main *)
(* workers (Server), the main worker that picks a user worker (MainWorker),*)
(* and the body that it forwards (RequestBody).                            *)
(*                                                                         *)
(* The three share no state.  A behaviour is one of a single part, as the  *)
(* variable part says, and two variables of the same name are one here;    *)
(* those a part does not have keep their first value.                      *)
(***************************************************************************)
EXTENDS Naturals

CONSTANTS
    MainWorkers, Conn, MaxErrors,                              \* of Server
    Path, Worker, Call, InitAdd, ApiAdd, MaxAdd,               \* of MainWorker
    DefaultRestart, Usages, Array,
    Lengths, Framings, ClientMayGo, ReadsBody, ShutsDown,      \* of RequestBody
    Capacity, EndOfBody,
    None

VARIABLES
    part,                                                      \* "server", "main" or "body"
    server, txs, accept, errors, owner,                        \* of Server
    conn,                                                      \* of Server and of RequestBody
    running,                                                   \* of Server and of MainWorker
    usage, workerPool, array, mutex, pc, path, todo, arr,      \* of MainWorker
    left, num, pick, conf, restart, expired, registered, pool,
    length, framing, shuts, client, arrived, fetch, written,   \* of RequestBody
    channel, sender, receiver, shutdown, got, request

OnlyServer == <<server, txs, accept, errors, owner>>
OnlyMain == <<usage, workerPool, array, mutex, pc, path, todo, arr, left, num, pick, conf, restart,
              expired, registered, pool>>
OnlyBody == <<length, framing, shuts, client, arrived, fetch, written, channel, sender, receiver,
              shutdown, got, request>>
vars == <<part, OnlyServer, conn, running, OnlyMain, OnlyBody>>
serverVars == <<OnlyServer, conn, running>>
mainVars == <<OnlyMain, running>>
bodyVars == <<OnlyBody, conn>>

Server == INSTANCE Server
Main == INSTANCE MainWorker
Body == INSTANCE RequestBody

ASSUME ConstantsAreOK == Server!ConstantsOK /\ Main!ConstantsOK /\ Body!ConstantsOK

-----------------------------------------------------------------------------
NoServer == server = "" /\ txs = "" /\ accept = "" /\ errors = "" /\ owner = ""
NoMain ==
    /\ usage = "" /\ workerPool = "" /\ array = "" /\ mutex = "" /\ pc = "" /\ path = "" /\ todo = ""
    /\ arr = "" /\ left = "" /\ num = "" /\ pick = "" /\ conf = "" /\ restart = "" /\ expired = ""
    /\ registered = "" /\ pool = ""
NoBody ==
    /\ length = "" /\ framing = "" /\ shuts = "" /\ client = "" /\ arrived = "" /\ fetch = ""
    /\ written = "" /\ channel = "" /\ sender = "" /\ receiver = "" /\ shutdown = "" /\ got = ""
    /\ request = ""

Init ==
    \/ part = "server" /\ Server!Init /\ NoMain /\ NoBody
    \/ part = "main" /\ Main!Init /\ NoServer /\ conn = "" /\ NoBody
    \/ part = "body" /\ Body!Init /\ NoServer /\ running = "" /\ NoMain

\* A body that does not fit into its channel stays where it is.
Next ==
    /\ \/ part = "server" /\ Server!Next /\ UNCHANGED <<OnlyMain, OnlyBody>>
       \/ part = "main" /\ Main!Next /\ UNCHANGED <<OnlyServer, conn, OnlyBody>>
       \/ part = "body" /\ Body!Next /\ UNCHANGED <<OnlyServer, running, OnlyMain>>
       \/ part = "body" /\ UNCHANGED vars
    /\ UNCHANGED part

Spec == Init /\ [][Next]_vars

\* The fairness of the three: see FairSpec in each.
FairSpec ==
    /\ Spec
    /\ \A c \in Conn : WF_serverVars(part = "server" /\ Server!ConnStep(c))
    /\ WF_mainVars(/\ part = "main"
                   /\ (\E a \in Main!Add : Main!AddStep(a)) \/ (\E c \in Call : Main!CallStep(c))
                   /\ UNCHANGED usage)
    /\ WF_bodyVars(part = "body" /\ (Body!ClientSends \/ Body!ClientGoes))
    /\ WF_bodyVars(part = "body" /\ Body!Step)

-----------------------------------------------------------------------------
(* Properties                                                              *)

\* Balanced of Server: the main workers share the connections evenly.
Balanced == part = "server" => Server!TypeOK /\ Server!Balanced

\* ForwardedReturns of Server: a forwarded request is answered or its connection closed.
ForwardedReturns == \A c \in Conn : []<>(part = "server" => conn[c] \notin Server!RequestStage)

\* RestartKeepsNumber and NoDuplicateKeys of MainWorker: a path keeps its number of workers,
\* and no worker has two places.
PoolKept == part = "main" => Main!TypeOK /\ Main!RestartKeepsNumber /\ Main!NoDuplicateKeys

\* CallsComplete of MainWorker: every request that came in is answered.
CallsComplete ==
    \A c \in Call :
        []<>(part = "main" => pc[c] \in Main!Ended \cup {"idle"}
                              \/ (Main!Unused = {} /\ ~usage.mayFail))

\* BodyWhole of RequestBody: a body reaches the user worker in order, without gaps,
\* and is whole when it looks whole.
BodyWhole == part = "body" => Body!TypeOK /\ Body!BodyWhole

\* SmallBodiesReturn of RequestBody: a request whose body fits into the channel comes
\* to an end.
SmallBodiesReturn ==
    []<>(part = "body" /\ length + (IF shuts THEN 1 ELSE 0) <= Capacity
            => fetch \in Body!Returned \cup {"idle"})

=============================================================================
