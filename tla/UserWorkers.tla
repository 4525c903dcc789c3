---------------------------- MODULE UserWorkers ----------------------------
(***************************************************************************)
(* What crates/base/src/worker_ctx.rs promises of user workers, without    *)
(* the table, the channels, the join handles and the tasks that keep it:   *)
(*                                                                         *)
(*   - a worker that is being shut down is let no further calls through    *)
(*     to, and is retired only when every call let through to it is over;  *)
(*   - a worker may die at any time, and only calls let through to a       *)
(*     worker that had not died or been retired get an answer;             *)
(*   - a retired or dead worker does not come back.                        *)
(*                                                                         *)
(* Module WorkerPool implements it.                                        *)
(***************************************************************************)
CONSTANTS Worker, Request, None

VARIABLES
    life,   \* life[w]: how far worker w's life is
    call,   \* call[r]: how far request r is
    at      \* at[r]: the worker request r is for

vars == <<life, call, at>>

Life == {"absent", "live", "closing", "retired", "died"}
Call == {"none", "pending", "admitted", "answered", "refused"}

TypeOK ==
    /\ life \in [Worker -> Life]
    /\ call \in [Request -> Call]
    /\ at \in [Request -> Worker \cup {None}]

Init ==
    /\ life = [w \in Worker |-> "absent"]
    /\ call = [r \in Request |-> "none"]
    /\ at = [r \in Request |-> None]

\* A worker is started; its thread may fail to start.
Start(w) ==
    /\ life[w] = "absent"
    /\ \E l \in {"live", "died"} : life' = [life EXCEPT ![w] = l]

\* No further call is let through to w.
Close(w) ==
    /\ life[w] = "live"
    /\ life' = [life EXCEPT ![w] = "closing"]
    /\ UNCHANGED <<call, at>>

\* Every call w was given is over.
Retire(w) ==
    /\ life[w] = "closing"
    /\ \A r \in Request : at[r] = w => call[r] # "admitted"
    /\ life' = [life EXCEPT ![w] = "retired"]
    /\ UNCHANGED <<call, at>>

Die(w) ==
    /\ life[w] \in {"live", "closing"}
    /\ life' = [life EXCEPT ![w] = "died"]
    /\ UNCHANGED <<call, at>>

\* A call for a worker that was started; it may be refused at once.
Ask(r, w) ==
    /\ call[r] = "none" /\ life[w] # "absent"
    /\ at' = [at EXCEPT ![r] = w]
    /\ \E c \in {"pending", "refused"} : call' = [call EXCEPT ![r] = c]
    /\ UNCHANGED life

\* That a worker died is not noticed when a call is let through.
Admit(r) ==
    /\ call[r] = "pending" /\ life[at[r]] \in {"live", "died"}
    /\ call' = [call EXCEPT ![r] = "admitted"]
    /\ UNCHANGED <<life, at>>

Answer(r) ==
    /\ call[r] = "admitted" /\ life[at[r]] \in {"live", "closing"}
    /\ call' = [call EXCEPT ![r] = "answered"]
    /\ UNCHANGED <<life, at>>

Refuse(r) ==
    /\ call[r] \in {"pending", "admitted"}
    /\ call' = [call EXCEPT ![r] = "refused"]
    /\ UNCHANGED <<life, at>>

\* The service gives up: the calls not let through yet are all refused.
RefusePending ==
    call' = [r \in Request |-> IF call[r] = "pending" THEN "refused" ELSE call[r]]

Abandon == RefusePending /\ UNCHANGED <<life, at>>

Next ==
    \/ \E w \in Worker :
         \/ Start(w) /\ (UNCHANGED call \/ RefusePending) /\ UNCHANGED at
         \/ Close(w) \/ Retire(w) \/ Die(w)
    \/ \E r \in Request :
         \/ \E w \in Worker : Ask(r, w)
         \/ Admit(r) \/ Answer(r) \/ Refuse(r)
    \/ Abandon

Spec == Init /\ [][Next]_vars

=============================================================================
