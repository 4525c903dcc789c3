-------------------------- MODULE WorkerPoolProofs --------------------------
(***************************************************************************)
(* Proofs about WorkerPool for any number of workers, requests and main    *)
(* workers, any profile and any use of the HTTP API.                       *)
(***************************************************************************)
EXTENDS WorkerPool, SequenceTheorems, TLAPS

-----------------------------------------------------------------------------
(* The messages of the pool and its inbox.                                 *)

(* What main workers and timers send is a message of the pool.             *)
LEMMA MessagesAreTyped ==
    /\ \A m \in Main, e \in BOOLEAN :
         [type |-> "Create", main |-> m, exists |-> e] \in UserWorkerMsgs
    /\ \A r \in Request : [type |-> "SendRequest", req |-> r] \in UserWorkerMsgs
    /\ \A k \in Key : [type |-> "Shutdown", key |-> k] \in UserWorkerMsgs
BY DEF UserWorkerMsgs, CreateMsg, SendMsg, ShutdownMsg

(* The type of a message says which fields it has.                         *)
LEMMA MessageFields ==
    ASSUME NEW msg \in UserWorkerMsgs
    PROVE  /\ msg.type = "Create" => msg.main \in Main
           /\ msg.type = "SendRequest" => msg.req \in Request
           /\ msg.type = "Shutdown" => msg.key \in Key
BY DEF UserWorkerMsgs, CreateMsg, SendMsg, ShutdownMsg

(* Sending keeps the inbox a sequence of messages.                         *)
LEMMA Sent ==
    ASSUME NEW msg \in UserWorkerMsgs, inbox \in Seq(UserWorkerMsgs)
    PROVE  /\ Append(inbox, msg) \in Seq(UserWorkerMsgs)
           /\ Len(Append(inbox, msg)) = Len(inbox) + 1
           /\ \A i \in 1..Len(inbox) : Append(inbox, msg)[i] = inbox[i]
           /\ Append(inbox, msg)[Len(inbox) + 1] = msg
BY AppendProperties

(* So does receiving, which takes the first message out.                   *)
LEMMA Received ==
    ASSUME inbox \in Seq(UserWorkerMsgs), inbox # <<>>
    PROVE  /\ Head(inbox) \in UserWorkerMsgs
           /\ Head(inbox) = inbox[1]
           /\ Tail(inbox) \in Seq(UserWorkerMsgs)
           /\ Len(inbox) \in Nat /\ Len(inbox) > 0
           /\ Len(Tail(inbox)) = Len(inbox) - 1
           /\ \A i \in 1..Len(Tail(inbox)) : Tail(inbox)[i] = inbox[i + 1]
BY HeadTailProperties DEF UserWorkerMsgs

-----------------------------------------------------------------------------
(* A message that stays moves up by one place.                             *)
LEMMA MovedUp ==
    ASSUME inbox \in Seq(UserWorkerMsgs), inbox # <<>>, inbox' = Tail(inbox)
    PROVE  /\ \A i \in 1..Len(inbox') :
                i + 1 \in 1..Len(inbox) /\ i + 1 # 1 /\ inbox'[i] = inbox[i + 1]
           /\ \A i, j \in 1..Len(inbox') : i + 1 = j + 1 => i = j
<1>1. Len(inbox) \in Nat /\ Len(inbox') = Len(inbox) - 1
  BY Received
<1>2. ASSUME NEW i \in 1..Len(inbox')
      PROVE  i + 1 \in 1..Len(inbox) /\ i + 1 # 1 /\ inbox'[i] = inbox[i + 1]
  BY <1>1, <1>2, Received
<1>3. ASSUME NEW i \in 1..Len(inbox'), NEW j \in 1..Len(inbox'), i + 1 = j + 1
      PROVE  i = j
  BY <1>3
<1> QED
  BY <1>2, <1>3

(* No step puts anything but messages into the inbox.                      *)
LEMMA InboxTyped ==
    ASSUME inbox \in Seq(UserWorkerMsgs), [Next]_vars
    PROVE  inbox' \in Seq(UserWorkerMsgs)
<1>1. ASSUME NEW msg \in UserWorkerMsgs, inbox' = Append(inbox, msg)
      PROVE  inbox' \in Seq(UserWorkerMsgs)
  BY <1>1, Sent
<1>2. ASSUME inbox # <<>>, inbox' = Tail(inbox) \/ inbox' = <<>>
      PROVE  inbox' \in Seq(UserWorkerMsgs)
  <2>1. CASE inbox' = Tail(inbox)
    BY <1>2, <2>1, Received
  <2>2. CASE inbox' = <<>>
    BY <2>2
  <2> QED
    BY <1>2, <2>1, <2>2
<1>3. CASE inbox' = inbox
  BY <1>3
<1>4. CASE UNCHANGED vars
  BY <1>3, <1>4 DEF vars, poolVars
<1>5. CASE MainStep
  <2>1. ASSUME NEW m \in Main, MainCreate(m) PROVE inbox' \in Seq(UserWorkerMsgs)
    <3>1. PICK e \in BOOLEAN :
                 inbox' = Append(inbox, [type |-> "Create", main |-> m, exists |-> e])
      BY <2>1 DEF MainCreate
    <3>2. [type |-> "Create", main |-> m, exists |-> e] \in UserWorkerMsgs
      BY MessagesAreTyped
    <3> QED
      BY <1>1, <3>1, <3>2
  <2>2. ASSUME NEW m \in Main, NEW w \in Worker, NEW r \in Request, MainSend(m, w, r)
        PROVE  inbox' \in Seq(UserWorkerMsgs)
    BY <1>1, <1>3, <2>2, MessagesAreTyped DEF MainSend
  <2>3. ASSUME NEW k \in ApiKeys, ApiShutdown(k) PROVE inbox' \in Seq(UserWorkerMsgs)
    BY <1>1, <2>3, MessagesAreTyped, ConstantsAssumption DEF ApiShutdown
  <2>4. ASSUME NEW m \in Main, MainEnds(m) PROVE inbox' \in Seq(UserWorkerMsgs)
    BY <1>3, <2>4 DEF MainEnds, poolVars
  <2> QED
    BY <1>5, <2>1, <2>2, <2>3, <2>4 DEF MainStep
<1>6. CASE PoolStep
  BY <1>2, <1>6 DEF PoolStep, PoolCreate, StartThread, PoolSend, Routable, Collect,
     PoolShutdown, PoolGone, HeadIs
<1>7. ASSUME NEW w \in Worker, DrainStep(w) \/ ThreadStep(w)
      PROVE  inbox' \in Seq(UserWorkerMsgs)
  <2>1. CASE TimerFires(w)
    BY <1>1, <1>3, <2>1, MessagesAreTyped DEF TimerFires, ShutdownSent, Key
  <2>2. CASE ~TimerFires(w)
    BY <1>3, <1>7, <2>2 DEF DrainStep, ThreadStep, Signal, AllJoined, Release, Boot,
       ThreadPanics,
       EventLoopEnds, TakeTerminate, StopThread, poolVars
  <2> QED
    BY <2>1, <2>2
<1>8. ASSUME NEW r \in Request, RequestStep(r) PROVE inbox' \in Seq(UserWorkerMsgs)
  BY <1>3, <1>8 DEF RequestStep, Dispatch, DispatchPanics, Accept, Respond, SendFails, Deliver,
     Fail, Move, poolVars
<1> QED
  BY <1>4, <1>5, <1>6, <1>7, <1>8 DEF Next, Idle

-----------------------------------------------------------------------------
(* Every step keeps the types of the variables.                            *)
THEOREM TypeCorrect == Spec => []TypeOK
<1>1. Init => TypeOK
  BY DEF Init, TypeOK, PoolState, DrainState, ChannelState, ThreadState, TimerState, Stage
<1>2. TypeOK /\ [Next]_vars => TypeOK'
  <2> SUFFICES ASSUME TypeOK, [Next]_vars PROVE TypeOK'
    OBVIOUS
  <2>0. inbox' \in Seq(UserWorkerMsgs)
    BY InboxTyped DEF TypeOK
  <2> DEFINE head == Head(inbox)
  <2>h. inbox # <<>> =>
          /\ head.type = "Create" => head.main \in Main
          /\ head.type = "SendRequest" => head.req \in Request
          /\ head.type = "Shutdown" => head.key \in Key
    BY Received, MessageFields DEF TypeOK
  <2> USE DEF TypeOK, PoolState, DrainState, ChannelState, ThreadState, TimerState,
              Stage, InFlight, Final, vars, poolVars, drainVars, workerVars,
              requestVars, mainVars
  <2>1. CASE UNCHANGED vars
    BY <2>0, <2>1
  <2>2. ASSUME NEW m \in Main, MainCreate(m) \/ MainEnds(m) PROVE TypeOK'
    BY <2>0, <2>2 DEF MainCreate, MainEnds
  <2>4. ASSUME NEW m \in Main, NEW w \in Worker, NEW r \in Request, MainSend(m, w, r)
        PROVE TypeOK'
    BY <2>0, <2>4 DEF MainSend
  <2>5. ASSUME NEW k \in ApiKeys, ApiShutdown(k) PROVE TypeOK'
    BY <2>0, <2>5 DEF ApiShutdown
  <2> HIDE DEF head
  <2>6. CASE PoolCreate
    BY <2>0, <2>6, <2>h DEF PoolCreate, StartThread, PoolGone, HeadIs, Unused, head
  <2>7. CASE PoolSend
    BY <2>0, <2>7, <2>h DEF PoolSend, Routable, Collect, PoolGone, HeadIs, head
  <2>8. CASE PoolShutdown
    BY <2>0, <2>8, <2>h DEF PoolShutdown, PoolGone, HeadIs, head
  <2>9. ASSUME NEW w \in Worker, DrainStep(w) PROVE TypeOK'
    BY <2>0, <2>9 DEF DrainStep, Signal, AllJoined, Release
  <2>10. ASSUME NEW w \in Worker, ThreadStep(w) PROVE TypeOK'
    <3>1. CASE Boot(w) \/ TimerFires(w)
      BY <2>0, <3>1 DEF Boot, TimerFires, ShutdownSent
    <3>2. CASE ThreadPanics(w) \/ EventLoopEnds(w) \/ StopThread(w)
      BY <2>0, <3>2 DEF ThreadPanics, EventLoopEnds, StopThread, ThreadGone
    <3>3. CASE TakeTerminate(w)
      BY <2>0, <3>3 DEF TakeTerminate, ThreadGone
    <3> QED
      BY <2>10, <3>1, <3>2, <3>3 DEF ThreadStep
  <2>11. ASSUME NEW r \in Request, RequestStep(r) PROVE TypeOK'
    BY <2>0, <2>11 DEF RequestStep, Move, Dispatch, DispatchPanics, Accept, Respond,
       SendFails, Deliver, Fail
  <2> QED
    BY <2>1, <2>2, <2>4, <2>5, <2>6, <2>7, <2>8, <2>9, <2>10, <2>11
    DEF Next, MainStep, PoolStep, Idle
<1> QED
  BY <1>1, <1>2, PTL DEF Spec

-----------------------------------------------------------------------------
(* A worker's terminate sender is in exactly one place, and while the pool *)
(* serves it is dropped only after the thread has ended.                   *)
LEMMA TablesStep ==
    ASSUME TypeOK, TypeOK', TablesAgree, NoPrematureTermination, [Next]_vars
    PROVE  TablesAgree' /\ NoPrematureTermination'
<1> USE DEF TypeOK, TablesAgree, NoPrematureTermination, vars, poolVars, drainVars,
            workerVars, requestVars, mainVars
<1>1. CASE UNCHANGED vars
  BY <1>1
<1>2. CASE MainStep
  BY <1>2 DEF MainStep, MainCreate, MainSend, ApiShutdown, MainEnds
<1>3. CASE PoolCreate
  BY <1>3 DEF PoolCreate, StartThread, PoolGone, HeadIs, Unused, ThreadState
<1>4. CASE PoolSend
  BY <1>4 DEF PoolSend, Routable, Collect, PoolGone, HeadIs
<1>5. CASE PoolShutdown
  BY <1>5 DEF PoolShutdown, PoolGone, HeadIs
<1>6. ASSUME NEW w \in Worker, DrainStep(w)
      PROVE  TablesAgree' /\ NoPrematureTermination'
  BY <1>6 DEF DrainStep, Signal, AllJoined, Release
<1>7. ASSUME NEW w \in Worker, ThreadStep(w)
      PROVE  TablesAgree' /\ NoPrematureTermination'
  <2>1. CASE Boot(w) \/ TimerFires(w)
    BY <2>1 DEF Boot, TimerFires, ShutdownSent
  <2>2. CASE ThreadPanics(w) \/ EventLoopEnds(w) \/ StopThread(w)
    BY <2>2 DEF ThreadPanics, EventLoopEnds, StopThread, ThreadGone
  <2>3. CASE TakeTerminate(w)
    BY <2>3 DEF TakeTerminate, ThreadGone
  <2> QED
    BY <1>7, <2>1, <2>2, <2>3 DEF ThreadStep
<1>8. ASSUME NEW r \in Request, RequestStep(r)
      PROVE  TablesAgree' /\ NoPrematureTermination'
  BY <1>8 DEF RequestStep, Move, Dispatch, DispatchPanics, Accept, Respond, SendFails, Deliver, Fail
<1> QED
  BY <1>1, <1>2, <1>3, <1>4, <1>5, <1>6, <1>7, <1>8 DEF Next, PoolStep, Idle

(* While the pool serves, no worker loses its terminate sender before its  *)
(* thread has ended.                                                       *)
THEOREM TerminateSenderKept == Spec => [](TablesAgree /\ NoPrematureTermination)
<1>1. Init => TablesAgree /\ NoPrematureTermination
  BY DEF Init, TablesAgree, NoPrematureTermination
<1> QED
  BY <1>1, TypeCorrect, TablesStep, PTL DEF Spec

-----------------------------------------------------------------------------
(* A request waiting in the inbox is there once.                           *)
LEMMA SendsStep ==
    ASSUME TypeOK, SendsQueued, [Next]_vars
    PROVE  SendsQueued'
<1> USE DEF SendsQueued
<1>t. /\ inbox \in Seq(UserWorkerMsgs) /\ Len(inbox) \in Nat
      /\ stage \in [Request -> Stage]
      /\ \A i \in 1..Len(inbox) : inbox[i].type = "SendRequest" => inbox[i].req \in Request
  BY MessageFields, LenProperties, ElementOfSeq DEF TypeOK
<1>1. ASSUME UNCHANGED inbox,
             \A r \in Request : stage[r] = "queued" => stage'[r] = "queued"
      PROVE  SendsQueued'
  BY <1>1, <1>t
<1>2. ASSUME NEW msg \in UserWorkerMsgs, msg.type # "SendRequest",
             inbox' = Append(inbox, msg), UNCHANGED stage
      PROVE  SendsQueued'
  BY <1>2, <1>t, Sent
<1>3. CASE MainStep
  <2>1. ASSUME NEW m \in Main, MainCreate(m) PROVE SendsQueued'
    <3>1. PICK e \in BOOLEAN :
                 inbox' = Append(inbox, [type |-> "Create", main |-> m, exists |-> e])
      BY <2>1 DEF MainCreate
    <3>2. UNCHANGED stage
      BY <2>1 DEF MainCreate, requestVars
    <3>3. [type |-> "Create", main |-> m, exists |-> e] \in UserWorkerMsgs
      BY MessagesAreTyped
    <3> QED
      BY <1>2, <3>1, <3>2, <3>3
  <2>2. ASSUME NEW k \in ApiKeys, ApiShutdown(k) PROVE SendsQueued'
    <3>1. [type |-> "Shutdown", key |-> k] \in UserWorkerMsgs
      BY MessagesAreTyped, ConstantsAssumption
    <3> QED
      BY <1>2, <2>2, <3>1 DEF ApiShutdown, requestVars
  <2>3. ASSUME NEW m \in Main, NEW w \in Worker, NEW r \in Request, MainSend(m, w, r)
        PROVE  SendsQueued'
    <3> DEFINE msg == [type |-> "SendRequest", req |-> r]
    <3>1. /\ stage[r] = "idle"
          /\ \A q \in Request : q # r => stage'[q] = stage[q]
      BY <2>3, <1>t DEF MainSend
    <3>2. CASE UNCHANGED inbox
      BY <1>1, <3>1, <3>2
    <3>3. CASE inbox' = Append(inbox, msg) /\ stage'[r] = "queued"
      <4>1. msg \in UserWorkerMsgs
        BY MessagesAreTyped
      <4>2. msg.type = "SendRequest" /\ msg.req = r
        OBVIOUS
      <4> HIDE DEF msg
      <4>3. \A i \in 1..Len(inbox) :
              inbox[i].type = "SendRequest" => inbox[i].req # r
        BY <3>1
      <4> QED
        BY <1>t, <3>1, <3>3, <4>1, <4>2, <4>3, Sent
    <3> QED
      BY <2>3, <1>t, <3>2, <3>3 DEF MainSend
  <2>4. ASSUME NEW m \in Main, MainEnds(m) PROVE SendsQueued'
    BY <1>1, <2>4 DEF MainEnds, poolVars, requestVars
  <2> QED
    BY <1>3, <2>1, <2>2, <2>3, <2>4 DEF MainStep
<1>4. CASE PoolStep
  <2>1. CASE inbox' = <<>>
    BY <2>1
  <2>2. CASE /\ inbox # <<>> /\ inbox' = Tail(inbox)
             /\ \A q \in Request :
                  stage'[q] = stage[q] \/ (Head(inbox).type = "SendRequest" /\ q = Head(inbox).req)
    <3>1. 1 \in 1..Len(inbox) /\ Head(inbox) = inbox[1]
      BY <1>t, <2>2, Received
    <3> QED
      BY <1>t, <2>2, <3>1, MovedUp
  <2>3. inbox' = <<>> \/ (inbox # <<>> /\ inbox' = Tail(inbox))
    BY <1>4 DEF PoolStep, PoolCreate, StartThread, PoolSend, Routable, Collect, PoolShutdown,
       PoolGone, HeadIs
  <2>4. CASE PoolCreate \/ PoolShutdown
    <3>1. inbox' = <<>> \/ UNCHANGED stage
      BY <2>4 DEF PoolCreate, StartThread, PoolShutdown, PoolGone
    <3> QED
      BY <2>1, <2>2, <2>3, <3>1
  <2>5. CASE PoolSend
    <3>1. \/ inbox' = <<>>
          \/ \E to \in {"routed", "unavailable"} :
               stage' = [stage EXCEPT ![Head(inbox).req] = to]
      BY <2>5 DEF PoolSend, Routable, Collect, PoolGone
    <3> QED
      BY <1>t, <2>1, <2>2, <2>3, <2>5, <3>1 DEF PoolSend, Routable, Collect, HeadIs
  <2> QED
    BY <1>4, <2>4, <2>5 DEF PoolStep
<1>5. ASSUME NEW w \in Worker, DrainStep(w) \/ ThreadStep(w) PROVE SendsQueued'
  <2>1. CASE TimerFires(w)
    <3>1. [type |-> "Shutdown", key |-> w] \in UserWorkerMsgs
      BY MessagesAreTyped DEF Key
    <3> QED
      BY <1>1, <1>2, <2>1, <3>1 DEF TimerFires, ShutdownSent, requestVars
  <2>2. CASE ~TimerFires(w)
    BY <1>1, <1>5, <1>t, <2>2 DEF DrainStep, ThreadStep, Signal, AllJoined, Release, Boot,
       ThreadPanics,
       EventLoopEnds, TakeTerminate, StopThread, ThreadGone, poolVars, requestVars
  <2> QED
    BY <2>1, <2>2
<1>6. ASSUME NEW r \in Request, RequestStep(r) PROVE SendsQueued'
  BY <1>1, <1>6, <1>t DEF RequestStep, Dispatch, DispatchPanics, Accept, Respond, SendFails, Deliver,
     Fail, Move, poolVars
<1>7. CASE UNCHANGED vars
  BY <1>1, <1>7 DEF vars, poolVars, requestVars
<1> QED
  BY <1>3, <1>4, <1>5, <1>6, <1>7 DEF Next, Idle

(* A request waits in the inbox at most once, with nothing else done to it. *)
LEMMA SendsCorrect == Spec => []SendsQueued
<1>1. Init => SendsQueued
  BY DEF Init, SendsQueued
<1> QED
  BY <1>1, TypeCorrect, SendsStep, PTL DEF Spec

-----------------------------------------------------------------------------
(* The pool's tables know every request it let through.                    *)
LEMMA FlightsStep ==
    ASSUME TypeOK, TypeOK', TablesAgree, SendsQueued, FlightsTracked, [Next]_vars
    PROVE  FlightsTracked'
<1> DEFINE Tracked(r) ==
        /\ stage[r] # "idle" => target[r] \in Worker /\ thread[target[r]] # "none"
        /\ stage[r] \in InFlight =>
             /\ target[r] \in registered => r \in handles[target[r]]
             /\ drain[target[r]] = "joining" => r \in joined[target[r]]
             /\ drain[target[r]] \notin {"signalled", "released"}
<1>a. /\ \A r \in Request : Tracked(r)
      /\ \A m \in Main : \A w \in held[m] : thread[w] # "none"
  BY DEF FlightsTracked
<1>b. ASSUME \A r \in Request : Tracked(r)',
             \A m \in Main : \A w \in held'[m] : thread'[w] # "none"
      PROVE  FlightsTracked'
  BY <1>b DEF FlightsTracked
<1> USE DEF TypeOK, TablesAgree, InFlight, vars, poolVars, drainVars,
            workerVars, requestVars, mainVars
<1>1. CASE UNCHANGED vars
  BY <1>1 DEF FlightsTracked
<1>2. CASE MainStep
  <2>1. ASSUME NEW m \in Main, NEW w \in Worker, NEW r \in Request, MainSend(m, w, r),
               NEW q \in Request
        PROVE  Tracked(q)'
    BY <1>a, <2>1 DEF MainSend
  <2>2. ASSUME NEW m \in Main, NEW w \in Worker, NEW r \in Request, MainSend(m, w, r)
        PROVE  UNCHANGED <<held, thread>>
    BY <2>2 DEF MainSend
  <2> QED
    BY <1>2, <1>a, <1>b, <2>1, <2>2 DEF MainStep, MainCreate, ApiShutdown, MainEnds
<1>3. CASE PoolCreate
  <2>1. /\ UNCHANGED <<target, drain, joined>>
        /\ \A q \in Request : stage'[q] \in {stage[q], "failed"}
        /\ \A q \in Request : stage[q] = "idle" => stage'[q] = "idle"
    BY <1>3 DEF PoolCreate, StartThread, PoolGone
  <2>2. \A w \in Worker : thread[w] # "none" =>
           /\ thread'[w] # "none"
           /\ w \in registered' => w \in registered /\ handles' = handles
    BY <1>3 DEF PoolCreate, StartThread, PoolGone, Unused
  <2>3. ASSUME NEW q \in Request PROVE Tracked(q)'
    BY <1>a, <2>1, <2>2
  <2>4. ASSUME NEW m \in Main, NEW w \in held'[m] PROVE thread'[w] # "none"
    BY <1>3, <1>a, <2>4 DEF PoolCreate, StartThread, PoolGone, Unused
  <2> QED
    BY <1>b, <2>3, <2>4
<1>4. CASE PoolSend
  <2>1. ASSUME NEW q \in Request PROVE Tracked(q)'
    <3>1. UNCHANGED <<target, drain, joined, thread, held>>
      BY <1>4 DEF PoolSend, Routable, Collect, drainVars, mainVars
    <3> DEFINE p == Head(inbox).req
    <3>2. CASE /\ target[p] \in registered /\ UNCHANGED registered
               /\ handles' = [handles EXCEPT ![target[p]] = @ \cup {p}]
               /\ stage' = [stage EXCEPT ![p] = "routed"]
      <4>1. CASE q = p
        <5>1. target[q] \in Worker /\ thread[target[q]] # "none" /\ drain[target[q]] = "none"
          BY <3>2, <4>1
        <5>2. q \in handles'[target[q]]
          BY <3>2, <4>1, <5>1
        <5> QED
          BY <3>1, <5>1, <5>2
      <4>2. CASE q # p
        BY <1>a, <3>1, <3>2, <4>2
      <4> QED
        BY <4>1, <4>2
    <3>3. CASE UNCHANGED <<handles, registered>> /\ stage' = [stage EXCEPT ![p] = "unavailable"]
      <4>1. stage[p] = "queued"
        BY <1>4, Received DEF PoolSend, Routable, Collect, HeadIs, SendsQueued
      <4> QED
        BY <1>a, <3>1, <3>3, <4>1
    <3>4. CASE PoolGone("bailed", registered)
      <4>1. /\ registered' = {} /\ stage'[q] \in {stage[q], "failed"}
            /\ stage[q] = "idle" => stage'[q] = "idle"
        BY <3>4 DEF PoolGone
      <4> QED
        BY <1>a, <3>1, <4>1
    <3> QED
      BY <1>4, <3>2, <3>3, <3>4 DEF PoolSend, Routable, Collect
  <2> QED
    BY <1>4, <1>a, <1>b, <2>1 DEF PoolSend, Routable, Collect
<1>5. CASE PoolShutdown
  <2> SUFFICES ASSUME NEW q \in Request PROVE Tracked(q)'
    BY <1>5, <1>a, <1>b DEF PoolShutdown
  <2> QED
    BY <1>5, <1>a DEF PoolShutdown, PoolGone, HeadIs
<1> HIDE DEF Tracked
<1> USE DEF FlightsTracked
<1>6. ASSUME NEW w \in Worker, DrainStep(w) PROVE FlightsTracked'
  BY <1>6 DEF DrainStep, Signal, AllJoined, Release, Final
<1>7. ASSUME NEW w \in Worker, ThreadStep(w) PROVE FlightsTracked'
  <2>1. CASE Boot(w) \/ TimerFires(w)
    BY <2>1 DEF Boot, TimerFires, ShutdownSent
  <2>2. CASE ThreadPanics(w) \/ EventLoopEnds(w) \/ StopThread(w)
    BY <2>2 DEF ThreadPanics, EventLoopEnds, StopThread, ThreadGone
  <2>3. CASE TakeTerminate(w)
    BY <2>3 DEF TakeTerminate, ThreadGone
  <2> QED
    BY <1>7, <2>1, <2>2, <2>3 DEF ThreadStep
<1>8. ASSUME NEW r \in Request, RequestStep(r) PROVE FlightsTracked'
  BY <1>8 DEF RequestStep, Move, Dispatch, DispatchPanics, Accept, Respond, SendFails, Deliver, Fail
<1> QED
  BY <1>1, <1>2, <1>3, <1>4, <1>5, <1>6, <1>7, <1>8 DEF Next, PoolStep, Idle

(* The pool's tables know every request it let through.                    *)
LEMMA FlightsCorrect == Spec => []FlightsTracked
<1>1. Init => FlightsTracked
  BY DEF Init, FlightsTracked, InFlight
<1> QED
  BY <1>1, TypeCorrect, TerminateSenderKept, SendsCorrect, FlightsStep, PTL DEF Spec

(* The terminate signal is sent only when every request let through to the *)
(* worker has been processed.                                              *)
THEOREM StopIsGraceful == Spec => []GracefulStop
<1>1. TablesAgree /\ FlightsTracked => GracefulStop
  BY DEF TablesAgree, FlightsTracked, GracefulStop, Pending
<1> QED
  BY <1>1, TerminateSenderKept, FlightsCorrect, PTL

-----------------------------------------------------------------------------
(* Without the API the pool gets at most one Shutdown per worker, from the *)
(* lifetime timer of a worker it has registered.                           *)
LEMMA ShutdownStep ==
    ASSUME TypeOK, TypeOK', TablesAgree, NoPrematureTermination, ShutdownOnce, [Next]_vars
    PROVE  ShutdownOnce'
<1> SUFFICES ASSUME ApiKeys = {} PROVE ShutdownOnce'
  BY DEF ShutdownOnce
<1> DEFINE Once(s, reg, tm) ==
      \A i \in 1..Len(s) :
         s[i].type = "Shutdown" =>
            /\ s[i].key \in reg
            /\ tm[s[i].key] = "fired"
            /\ \A j \in 1..Len(s) : s[j].type = "Shutdown" /\ s[j].key = s[i].key => i = j
<1> DEFINE Timers(d, th, tm) ==
      /\ \A w \in Worker : d[w] # "none" => tm[w] = "fired"
      /\ \A w \in Worker : th[w] \in {"none", "spawned"} => tm[w] = "none"
<1>a. pool # "panicked" /\ Once(inbox, registered, timer) /\ Timers(drain, thread, timer)
  BY DEF ShutdownOnce
<1>b. ASSUME pool' # "panicked", Once(inbox', registered', timer'),
             Timers(drain', thread', timer')
      PROVE  ShutdownOnce'
  BY <1>b DEF ShutdownOnce
<1>t. /\ inbox \in Seq(UserWorkerMsgs) /\ Len(inbox) \in Nat
      /\ registered \subseteq Worker
      /\ timer \in [Worker -> TimerState] /\ drain \in [Worker -> DrainState]
      /\ thread \in [Worker -> ThreadState]
  BY LenProperties DEF TypeOK
<1> HIDE DEF Timers
\* A message that is no Shutdown may come in.
<1>1. ASSUME NEW msg \in UserWorkerMsgs, msg.type # "Shutdown", inbox' = Append(inbox, msg)
      PROVE  Once(inbox', registered, timer)
  BY <1>1, <1>a, <1>t, Sent
\* Messages may be taken out, workers registered, timers not yet fired moved.
<1>2. ASSUME inbox # <<>>, inbox' = Tail(inbox), NEW reg, registered \subseteq reg
      PROVE  Once(inbox', reg, timer)
  BY <1>a, <1>t, <1>2, MovedUp
<1>3. ASSUME NEW tm, \A w \in Worker : timer[w] = "fired" => tm[w] = "fired"
      PROVE  Once(inbox, registered, tm)
  BY <1>a, <1>t, <1>3
<1>c. ASSUME inbox' = <<>> PROVE Once(inbox', registered', timer')
  BY <1>c
<1> HIDE DEF Once
<1> USE DEF poolVars, drainVars, workerVars, requestVars, mainVars, vars
<1>4. CASE UNCHANGED vars
  BY <1>4, <1>a, <1>b
<1>5. CASE MainStep
  <2>1. ASSUME NEW m \in Main, MainCreate(m) PROVE ShutdownOnce'
    <3>1. PICK e \in BOOLEAN :
                 inbox' = Append(inbox, [type |-> "Create", main |-> m, exists |-> e])
      BY <2>1 DEF MainCreate
    <3>2. [type |-> "Create", main |-> m, exists |-> e] \in UserWorkerMsgs
      BY MessagesAreTyped
    <3>3. Once(inbox', registered, timer)
      BY <1>1, <3>1, <3>2
    <3> QED
      BY <1>a, <1>b, <2>1, <3>3 DEF MainCreate
  <2>2. ASSUME NEW m \in Main, NEW w \in Worker, NEW r \in Request, MainSend(m, w, r)
        PROVE  ShutdownOnce'
    <3>1. [type |-> "SendRequest", req |-> r] \in UserWorkerMsgs
      BY MessagesAreTyped
    <3>2. Once(inbox', registered, timer)
      BY <1>1, <1>a, <2>2, <3>1 DEF MainSend
    <3> QED
      BY <1>a, <1>b, <2>2, <3>2 DEF MainSend
  <2>3. ASSUME NEW m \in Main, MainEnds(m) PROVE ShutdownOnce'
    BY <1>a, <1>b, <2>3 DEF MainEnds
  <2> QED
    BY <1>5, <2>1, <2>2, <2>3 DEF MainStep
<1>6. CASE PoolCreate
  <2>1. pool' # "panicked" /\ Timers(drain', thread', timer')
    BY <1>a, <1>6, <1>t DEF PoolCreate, StartThread, PoolGone, Unused, Timers
  <2>2. CASE inbox' = <<>>
    BY <1>b, <1>c, <2>1, <2>2
  <2>3. CASE inbox' = Tail(inbox) /\ registered \subseteq registered'
    BY <1>2, <1>b, <1>6, <2>1, <2>3 DEF PoolCreate, StartThread, HeadIs
  <2> QED
    BY <1>6, <2>2, <2>3 DEF PoolCreate, StartThread, PoolGone
<1>7. CASE PoolSend
  <2>1. pool' # "panicked" /\ Timers(drain', thread', timer')
    BY <1>a, <1>7 DEF PoolSend, Routable, Collect, PoolGone
  <2>2. CASE inbox' = <<>>
    BY <1>b, <1>c, <2>1, <2>2
  <2>3. CASE inbox' = Tail(inbox) /\ registered' = registered
    BY <1>2, <1>b, <1>7, <2>1, <2>3 DEF PoolSend, Routable, Collect, HeadIs
  <2> QED
    BY <1>7, <2>2, <2>3 DEF PoolSend, Routable, Collect, PoolGone
<1>8. CASE PoolShutdown
  <2> DEFINE k == Head(inbox).key
  <2>1. /\ inbox # <<>> /\ k \in registered /\ timer[k] = "fired"
        /\ \A j \in 1..Len(inbox) :
             inbox[j].type = "Shutdown" /\ inbox[j].key = k => j = 1
    BY <1>a, <1>8, <1>t, Received DEF PoolShutdown, HeadIs, Once
  <2>2. /\ inbox' = Tail(inbox) /\ registered' = registered \ {k} /\ UNCHANGED <<pool, timer, thread>>
        /\ drain' = [drain EXCEPT ![k] = "joining"]
    BY <1>8, <2>1 DEF PoolShutdown
  <2>3. Once(inbox', registered, timer)
    BY <1>2, <2>1, <2>2
  <2>4. \A i \in 1..Len(inbox') : inbox'[i].type = "Shutdown" => inbox'[i].key # k
    <3>0. inbox # <<>> /\ inbox' = Tail(inbox)
      BY <2>1, <2>2
    <3>1. \A i \in 1..Len(inbox') :
             i + 1 \in 1..Len(inbox) /\ i + 1 # 1 /\ inbox'[i] = inbox[i + 1]
      BY <1>t, <3>0, MovedUp
    <3> QED
      BY <2>1, <3>1
  <2>5. Once(inbox', registered', timer')
    BY <2>2, <2>3, <2>4 DEF Once
  <2>6. Timers(drain', thread', timer')
    BY <1>a, <1>t, <2>1, <2>2 DEF Timers
  <2> QED
    BY <1>a, <1>b, <2>2, <2>5, <2>6
<1>9. ASSUME NEW w \in Worker, DrainStep(w) PROVE ShutdownOnce'
  <2>1. Timers(drain', thread', timer')
    BY <1>9, <1>a, <1>t DEF DrainStep, Signal, AllJoined, Release, Timers
  <2> QED
    BY <1>9, <1>a, <1>b, <2>1 DEF DrainStep, Signal, AllJoined, Release
<1>10. ASSUME NEW w \in Worker, ThreadStep(w) PROVE ShutdownOnce'
  <2>1. CASE TimerFires(w)
    <3>1. timer' = [timer EXCEPT ![w] = "fired"] /\ UNCHANGED <<pool, registered, drain, thread>>
      BY <2>1 DEF TimerFires, ShutdownSent
    <3>2. Once(inbox, registered, timer')
      BY <1>3, <1>t, <3>1
    <3>3. Timers(drain', thread', timer')
      BY <1>a, <1>t, <2>1, <3>1 DEF Timers, TimerFires, ShutdownSent
    <3>4. CASE UNCHANGED inbox
      BY <1>a, <1>b, <3>1, <3>2, <3>3, <3>4
    <3>5. CASE pool = "serving" /\ inbox' = Append(inbox, [type |-> "Shutdown", key |-> w])
      <4> DEFINE msg == [type |-> "Shutdown", key |-> w]
      <4>1. msg \in UserWorkerMsgs /\ msg.type = "Shutdown" /\ msg.key = w
        BY MessagesAreTyped DEF Key
      <4>2. timer[w] # "fired" /\ drain[w] = "none" /\ thread[w] = "running"
        BY <1>a, <1>t, <2>1 DEF TimerFires, ShutdownSent, Timers
      <4>3. w \in registered
        BY <3>5, <4>2 DEF TablesAgree, NoPrematureTermination, TypeOK, ChannelState
      <4>4. \A i \in 1..Len(inbox) : inbox[i].type = "Shutdown" => inbox[i].key # w
        BY <1>a, <4>2 DEF Once
      <4>5. inbox' = Append(inbox, msg)
        BY <3>5
      <4> HIDE DEF msg
      <4>6. timer'[w] = "fired"
        BY <1>t, <3>1
      <4>7. Once(inbox', registered, timer')
        BY <1>t, <3>2, <4>1, <4>3, <4>4, <4>5, <4>6, Sent DEF Once
      <4> QED
        BY <1>a, <1>b, <3>1, <3>3, <4>7
    <3> QED
      BY <2>1, <3>4, <3>5 DEF TimerFires, ShutdownSent
  <2>2. CASE ~TimerFires(w)
    <3>1. UNCHANGED <<pool, inbox, registered, drain>>
      BY <1>10, <2>2 DEF ThreadStep, Boot, ThreadPanics, EventLoopEnds, TakeTerminate,
         StopThread
    <3>2. \A v \in Worker : /\ timer[v] = "fired" => timer'[v] = "fired"
                            /\ thread'[v] \in {"none", "spawned"} =>
                                 thread'[v] = thread[v] /\ timer'[v] = timer[v]
      <4>1. CASE Boot(w)
        BY <1>t, <1>a, <4>1 DEF Boot, Timers
      <4>2. CASE ThreadPanics(w) \/ EventLoopEnds(w) \/ StopThread(w)
        BY <1>t, <4>2 DEF ThreadPanics, EventLoopEnds, StopThread, ThreadGone
      <4>3. CASE TakeTerminate(w)
        BY <1>t, <4>3 DEF TakeTerminate, ThreadGone
      <4> QED
        BY <1>10, <2>2, <4>1, <4>2, <4>3 DEF ThreadStep
    <3>3. Once(inbox, registered, timer')
      BY <1>3, <3>2
    <3>4. Timers(drain', thread', timer')
      BY <1>a, <3>1, <3>2 DEF Timers
    <3> QED
      BY <1>a, <1>b, <3>1, <3>3, <3>4
  <2> QED
    BY <2>1, <2>2
<1>11. ASSUME NEW r \in Request, RequestStep(r) PROVE ShutdownOnce'
  BY <1>11, <1>a, <1>b DEF RequestStep, Dispatch, DispatchPanics, Accept, Respond, SendFails, Deliver,
     Fail, Move
<1> QED
  BY <1>4, <1>5, <1>6, <1>7, <1>8, <1>9, <1>10, <1>11 DEF Next, PoolStep, Idle

(* As long as only lifetimes end workers, the pool does not panic.         *)
THEOREM PoolKeepsServing == Spec => []PoolNeverPanics
<1>1. Init => ShutdownOnce
  BY DEF Init, ShutdownOnce
<1>2. Spec => []ShutdownOnce
  BY <1>1, TypeCorrect, TerminateSenderKept, ShutdownStep, PTL DEF Spec
<1>3. ShutdownOnce => PoolNeverPanics
  BY DEF ShutdownOnce, PoolNeverPanics
<1> QED
  BY <1>2, <1>3, PTL

-----------------------------------------------------------------------------
(* A key a main worker holds belongs to a registered worker, or to one     *)
(* whose shutdown has begun; so a refused request does too.                *)
LEMMA KeysStep ==
    ASSUME TypeOK, TypeOK', SendsQueued, FlightsTracked, KeysKnown,
           RefusedOnlyAfterShutdown, [Next]_vars
    PROVE  KeysKnown' /\ RefusedOnlyAfterShutdown'
<1>t. \A r \in Request : stage[r] # "idle" => target[r] \in Worker
  BY DEF FlightsTracked
<1> USE DEF TypeOK, KeysKnown, RefusedOnlyAfterShutdown, vars, poolVars, drainVars,
            workerVars, requestVars, mainVars
<1>1. CASE UNCHANGED vars
  BY <1>1
<1>2. CASE MainStep
  <2>1. ASSUME NEW m \in Main, NEW w \in Worker, NEW r \in Request, MainSend(m, w, r)
        PROVE  KeysKnown' /\ RefusedOnlyAfterShutdown'
    <3>1. /\ UNCHANGED <<pool, registered, drain, held>>
          /\ w \in held[m] /\ target'[r] = w
          /\ (stage'[r] = "queued" /\ pool = "serving") \/ stage'[r] = "failed"
          /\ \A q \in Request : q # r => stage'[q] = stage[q] /\ target'[q] = target[q]
      BY <2>1 DEF MainSend
    <3> QED
      BY <1>t, <3>1
  <2> QED
    BY <1>2, <1>t, <2>1 DEF MainStep, MainCreate, ApiShutdown, MainEnds
<1>3. CASE PoolCreate
  <2>1. CASE pool' # "serving"
    <3>1. /\ UNCHANGED <<drain, target>>
          /\ \A r \in Request : stage'[r] # "queued" /\ (stage'[r] = stage[r] \/ stage'[r] = "failed")
      BY <1>3, <2>1 DEF PoolCreate, StartThread, PoolGone, HeadIs
    <3> QED
      BY <2>1, <3>1
  <2>2. CASE pool' = "serving"
    <3>1. /\ UNCHANGED <<pool, drain, target, stage>> /\ registered \subseteq registered'
          /\ \A m \in Main : \A w \in held'[m] : w \in held[m] \/ w \in registered'
      BY <1>3, <2>2 DEF PoolCreate, StartThread, PoolGone, HeadIs, Unused
    <3> QED
      BY <1>t, <3>1
  <2> QED
    BY <2>1, <2>2
<1>4. CASE PoolSend
  <2> DEFINE p == Head(inbox).req
  <2>1. p \in Request /\ stage[p] = "queued"
    BY <1>4, Received, MessageFields DEF PoolSend, Routable, Collect, HeadIs, SendsQueued
  <2> HIDE DEF p
  <2>2. /\ UNCHANGED <<drain, target, held>>
        /\ \/ UNCHANGED <<pool, registered>> /\ target[p] \in registered
              /\ stage' = [stage EXCEPT ![p] = "routed"]
           \/ UNCHANGED <<pool, registered>> /\ target[p] \notin registered
              /\ stage' = [stage EXCEPT ![p] = "unavailable"]
           \/ PoolGone("bailed", registered)
    BY <1>4 DEF PoolSend, Routable, Collect, p
  <2>3. CASE PoolGone("bailed", registered)
    BY <1>t, <2>2, <2>3 DEF PoolGone
  <2> QED
    BY <1>t, <2>1, <2>2, <2>3
<1>5. CASE PoolShutdown
  BY <1>5, <1>t DEF PoolShutdown, PoolGone, HeadIs
<1>6. ASSUME NEW w \in Worker, DrainStep(w) \/ ThreadStep(w)
      PROVE  KeysKnown' /\ RefusedOnlyAfterShutdown'
  <2>1. /\ UNCHANGED <<pool, registered, held, target>>
        /\ \A v \in Worker : drain[v] # "none" => drain'[v] # "none"
        /\ \A r \in Request : stage'[r] \in {"queued", "unavailable"} => stage'[r] = stage[r]
    BY <1>6 DEF DrainStep, ThreadStep, Signal, AllJoined, Release, Boot, ThreadPanics,
       EventLoopEnds, TimerFires, ShutdownSent, TakeTerminate, StopThread, ThreadGone
  <2> QED
    BY <1>t, <2>1
<1>7. ASSUME NEW r \in Request, RequestStep(r)
      PROVE  KeysKnown' /\ RefusedOnlyAfterShutdown'
  BY <1>7, <1>t DEF RequestStep, Move, Dispatch, DispatchPanics, Accept, Respond, SendFails, Deliver, Fail
<1> QED
  BY <1>1, <1>2, <1>3, <1>4, <1>5, <1>6, <1>7 DEF Next, PoolStep, Idle

(* A request is refused only when the shutdown of its worker has begun.    *)
THEOREM RefusalIsJustified == Spec => []RefusedOnlyAfterShutdown
<1>1. Init => KeysKnown /\ RefusedOnlyAfterShutdown
  BY DEF Init, KeysKnown, RefusedOnlyAfterShutdown
<1>2. Spec => [](KeysKnown /\ RefusedOnlyAfterShutdown)
  BY <1>1, TypeCorrect, SendsCorrect, FlightsCorrect, KeysStep, PTL DEF Spec
<1> QED
  BY <1>2, PTL

-----------------------------------------------------------------------------
(* What breaks a request: its thread ends, the pool goes, or, in the       *)
(* release profile, the whole process does.                                *)
LEMMA FailureStep ==
    ASSUME TypeOK, FlightsTracked, FailureIsolated, [Next]_vars
    PROVE  FailureIsolated'
<1>t. \A r \in Request : stage[r] # "idle" => target[r] \in Worker
  BY DEF FlightsTracked
<1> SUFFICES ASSUME PanicAborts PROVE FailureIsolated'
  BY DEF FailureIsolated
<1> DEFINE Excused(r) == thread[target[r]] = "ended" \/ pool # "serving" \/ process = "aborted"
<1> SUFFICES ASSUME NEW q \in Request \ FragileRequests, stage'[q] \in {"broken", "failed"}
             PROVE  Excused(q)'
  BY DEF FailureIsolated
<1>a. stage[q] \in {"broken", "failed"} => Excused(q)
  BY DEF FailureIsolated
<1> USE DEF TypeOK, vars, poolVars, drainVars, workerVars, requestVars, mainVars
<1>1. CASE UNCHANGED vars
  BY <1>1, <1>a, <1>t
<1>2. CASE MainStep
  BY <1>2, <1>a, <1>t DEF MainStep, MainCreate, MainSend, ApiShutdown, MainEnds
<1>3. CASE PoolStep
  <2>1. CASE pool' # "serving"
    BY <2>1
  <2>2. CASE pool' = "serving"
    <3>1. /\ pool = "serving" /\ UNCHANGED target
          /\ stage'[q] = stage[q] \/ stage'[q] \in {"routed", "unavailable"}
          /\ process = "aborted" => process' = "aborted"
          /\ \A w \in Worker : thread[w] = "ended" => thread'[w] = "ended"
      BY <1>3, <2>2 DEF PoolStep, PoolCreate, StartThread, PoolSend, Routable, Collect,
         PoolShutdown, PoolGone, HeadIs, Unused
    <3> QED
      BY <1>a, <1>t, <3>1
  <2> QED
    BY <2>1, <2>2
<1>4. ASSUME NEW w \in Worker, DrainStep(w) PROVE Excused(q)'
  BY <1>4, <1>a, <1>t DEF DrainStep, Signal, AllJoined, Release
<1>5. ASSUME NEW w \in Worker, ThreadStep(w) PROVE Excused(q)'
  <2>1. CASE Boot(w) \/ TimerFires(w)
    BY <2>1, <1>a, <1>t DEF Boot, TimerFires, ShutdownSent
  <2>2. CASE ThreadPanics(w) \/ EventLoopEnds(w) \/ StopThread(w)
    BY <2>2, <1>a, <1>t DEF ThreadPanics, EventLoopEnds, StopThread, ThreadGone
  <2>3. CASE TakeTerminate(w)
    BY <2>3, <1>a, <1>t DEF TakeTerminate, ThreadGone
  <2> QED
    BY <1>5, <2>1, <2>2, <2>3 DEF ThreadStep
<1>6. ASSUME NEW r \in Request, RequestStep(r) PROVE Excused(q)'
  BY <1>6, <1>a, <1>t DEF RequestStep, Move, Dispatch, DispatchPanics, Accept, Respond,
     SendFails, Deliver, Fail
<1> QED
  BY <1>1, <1>2, <1>3, <1>4, <1>5, <1>6 DEF Next, Idle

(* In the release profile a request whose own body and connection hold     *)
(* breaks only with its worker's thread, the pool or the process.          *)
THEOREM FailuresAreIsolated == Spec => []FailureIsolated
<1>1. Init => FailureIsolated
  BY DEF Init, FailureIsolated
<1> QED
  BY <1>1, TypeCorrect, FlightsCorrect, FailureStep, PTL DEF Spec

-----------------------------------------------------------------------------
(* Every step of the pool is a step of UserWorkers, or none.               *)
LEMMA ImplementsStep ==
    ASSUME TypeOK, TypeOK', TablesAgree, TablesAgree', SendsQueued, FlightsTracked, [Next]_vars
    PROVE  [UW!Next]_(UW!vars)
<1> USE DEF vars, poolVars, drainVars, workerVars, requestVars, mainVars
<1>t. \A r \in Request : stage[r] # "idle" => target[r] \in Worker /\ thread[target[r]] # "none"
  BY DEF FlightsTracked
<1>u. ASSUME UNCHANGED <<workerLife, requestCall, target>> PROVE UNCHANGED UW!vars
  BY <1>u DEF UW!vars
<1>l. ASSUME UNCHANGED <<thread, terminate, drain>> PROVE UNCHANGED workerLife
  BY <1>l DEF workerLife, LifeOf
<1>r. ASSUME UNCHANGED stage PROVE UNCHANGED requestCall
  BY <1>r DEF requestCall, CallOf
<1>1. CASE UNCHANGED vars
  BY <1>1, <1>u, <1>l, <1>r
<1>2. CASE MainStep
  <2>1. ASSUME NEW m \in Main, NEW w \in Worker, NEW r \in Request, MainSend(m, w, r)
        PROVE  UW!Ask(r, w)
    <3>1. /\ requestCall[r] = "none" /\ workerLife[w] # "absent"
      BY <2>1 DEF MainSend, requestCall, workerLife, CallOf, LifeOf, FlightsTracked, TypeOK
    <3>2. UNCHANGED workerLife /\ target' = [target EXCEPT ![r] = w]
      BY <2>1, <1>l DEF MainSend
    <3>3. \E c \in {"pending", "refused"} : requestCall' = [requestCall EXCEPT ![r] = c]
      <4>1. PICK s \in {"queued", "failed"} : stage' = [stage EXCEPT ![r] = s]
        BY <2>1 DEF MainSend
      <4>2. CASE s = "queued"
        <5>1. requestCall' = [requestCall EXCEPT ![r] = "pending"]
          BY <4>1, <4>2 DEF requestCall, CallOf, TypeOK
        <5> QED BY <5>1
      <4>3. CASE s = "failed"
        <5>1. requestCall' = [requestCall EXCEPT ![r] = "refused"]
          BY <4>1, <4>3 DEF requestCall, CallOf, TypeOK
        <5> QED BY <5>1
      <4> QED
        BY <4>2, <4>3
    <3> QED
      BY <3>1, <3>2, <3>3 DEF UW!Ask
  <2>2. CASE UNCHANGED <<thread, terminate, drain, stage, target>>
    BY <2>2, <1>u, <1>l, <1>r
  <2> QED
    BY <1>2, <2>1, <2>2 DEF MainStep, MainCreate, MainEnds, ApiShutdown, UW!Next
<1>3. ASSUME NEW state, NEW reg, PoolGone(state, reg), UNCHANGED target
      PROVE  UW!RefusePending
  BY <1>3 DEF PoolGone, UW!RefusePending, requestCall, CallOf, TypeOK, Stage, InFlight, Final
<1>4. CASE PoolCreate
  <2>1. CASE UNCHANGED thread
    <3>1. CASE UNCHANGED <<terminate, stage>>
      BY <1>4, <1>u, <1>l, <1>r, <2>1, <3>1 DEF PoolCreate, StartThread
    <3>2. CASE PoolGone("bailed", registered)
      <4>1. UNCHANGED <<target, drain, thread>>
        BY <1>4, <2>1 DEF PoolCreate, StartThread
      <4>2. \A w \in Worker : terminate[w] = "sent" <=> terminate'[w] = "sent"
        BY <3>2 DEF PoolGone, TypeOK, TablesAgree
      <4>3. UNCHANGED workerLife
        BY <4>1, <4>2 DEF workerLife, LifeOf
      <4> QED
        BY <1>3, <3>2, <4>1, <4>3 DEF UW!Next, UW!Abandon
    <3> QED
      BY <1>4, <2>1, <3>1, <3>2 DEF PoolCreate, StartThread, Unused, TypeOK
  <2>2. ASSUME NEW w \in Unused, NEW started \in {"spawned", "ended"},
               thread' = [thread EXCEPT ![w] = started]
        PROVE  UW!Next
    <3>1. UNCHANGED <<target, drain>> /\ w \in Worker /\ thread[w] = "none"
      BY <1>4, <2>2 DEF PoolCreate, StartThread, Unused
    <3>2. (\A v \in Worker : terminate[v] = "sent" <=> terminate'[v] = "sent")
      BY <1>4, <3>1 DEF PoolCreate, StartThread, PoolGone, TypeOK, TablesAgree, Unused
    <3>3. workerLife[w] = "absent"
      BY <3>1 DEF workerLife, LifeOf
    <3>4. \E l \in {"live", "died"} : workerLife' = [workerLife EXCEPT ![w] = l]
      <4>1. terminate'[w] # "sent" /\ drain[w] = "none"
        BY <3>1, <3>2 DEF TablesAgree
      <4>2. CASE started = "spawned"
        <5>1. workerLife' = [workerLife EXCEPT ![w] = "live"]
          BY <2>2, <3>1, <3>2, <4>1, <4>2 DEF workerLife, LifeOf, TypeOK
        <5> QED BY <5>1
      <4>3. CASE started = "ended"
        <5>1. workerLife' = [workerLife EXCEPT ![w] = "died"]
          BY <2>2, <3>1, <3>2, <4>1, <4>3 DEF workerLife, LifeOf, TypeOK
        <5> QED BY <5>1
      <4> QED
        BY <4>2, <4>3
    <3>5. UNCHANGED requestCall \/ UW!RefusePending
      <4>1. CASE UNCHANGED stage
        BY <4>1, <1>r
      <4>2. CASE \E reg \in SUBSET Worker : PoolGone("bailed", reg)
        BY <1>3, <3>1, <4>2
      <4>3. UNCHANGED stage \/ \E reg \in SUBSET Worker : PoolGone("bailed", reg)
        BY <1>4, <3>1 DEF PoolCreate, StartThread, Unused, TypeOK
      <4> QED
        BY <4>1, <4>2, <4>3
    <3> QED
      BY <3>1, <3>3, <3>4, <3>5 DEF UW!Next, UW!Start
  <2> QED
    BY <1>4, <2>1, <2>2 DEF PoolCreate, StartThread
<1>5. CASE PoolSend
  <2> DEFINE p == Head(inbox).req
  <2>1. p \in Request /\ stage[p] = "queued" /\ requestCall[p] = "pending"
    BY <1>5, Received, MessageFields DEF PoolSend, Routable, Collect, HeadIs, SendsQueued,
       TypeOK, requestCall, CallOf
  <2>2. UNCHANGED <<target, drain, thread>>
    BY <1>5 DEF PoolSend, Routable, Collect
  <2>3. CASE /\ target[p] \in registered /\ stage' = [stage EXCEPT ![p] = "routed"]
             /\ UNCHANGED terminate
    <3>1. workerLife[target[p]] \in {"live", "died"}
      BY <2>1, <2>3, <1>t DEF workerLife, LifeOf, TablesAgree, TypeOK
    <3>2. requestCall' = [requestCall EXCEPT ![p] = "admitted"]
      BY <2>1, <2>3 DEF requestCall, CallOf, TypeOK
    <3> QED
      BY <1>l, <2>1, <2>2, <2>3, <3>1, <3>2 DEF UW!Next, UW!Admit
  <2>4. CASE stage' = [stage EXCEPT ![p] = "unavailable"] /\ UNCHANGED terminate
    <3>1. requestCall' = [requestCall EXCEPT ![p] = "refused"]
      BY <2>1, <2>4 DEF requestCall, CallOf, TypeOK
    <3> QED
      BY <1>l, <2>1, <2>2, <2>4, <3>1 DEF UW!Next, UW!Refuse
  <2>5. CASE PoolGone("bailed", registered)
    <3>1. \A w \in Worker : terminate[w] = "sent" <=> terminate'[w] = "sent"
      BY <2>5 DEF PoolGone, TypeOK, TablesAgree
    <3>2. UNCHANGED workerLife
      BY <2>2, <3>1 DEF workerLife, LifeOf
    <3> QED
      BY <1>3, <2>2, <2>5, <3>2 DEF UW!Next, UW!Abandon
  <2> QED
    BY <1>5, <2>3, <2>4, <2>5 DEF PoolSend, Routable, Collect
<1>6. CASE PoolShutdown
  <2> DEFINE k == Head(inbox).key
  <2>1. UNCHANGED <<target, thread>>
    BY <1>6 DEF PoolShutdown
  <2>2. CASE /\ k \in registered /\ drain' = [drain EXCEPT ![k] = "joining"]
             /\ UNCHANGED <<terminate, stage>>
    <3>1. k \in Worker /\ drain[k] = "none" /\ terminate[k] = "open"
      BY <2>2 DEF TablesAgree, TypeOK
    <3>2. CASE thread[k] = "ended"
      <4>1. UNCHANGED workerLife
        BY <2>1, <2>2, <3>1, <3>2 DEF workerLife, LifeOf, TypeOK
      <4> QED
        BY <1>r, <1>u, <2>1, <2>2, <4>1
    <3>3. CASE thread[k] # "ended"
      <4>0. thread[k] # "none"
        BY <3>1 DEF TablesAgree
      <4>1. workerLife[k] = "live" /\ workerLife' = [workerLife EXCEPT ![k] = "closing"]
        <5>1. workerLife[k] = "live"
          BY <3>1, <3>3, <4>0 DEF workerLife, LifeOf
        <5>2. workerLife' = [workerLife EXCEPT ![k] = "closing"]
          BY <2>1, <2>2, <3>1, <3>3, <4>0 DEF workerLife, LifeOf, TypeOK
        <5> QED BY <5>1, <5>2
      <4> QED
        BY <1>r, <2>1, <2>2, <3>1, <4>1 DEF UW!Next, UW!Close
    <3> QED
      BY <3>2, <3>3
  <2>3. CASE PoolGone("panicked", registered) /\ UNCHANGED drain
    <3>1. \A w \in Worker : terminate[w] = "sent" <=> terminate'[w] = "sent"
      BY <2>3 DEF PoolGone, TypeOK, TablesAgree
    <3>2. UNCHANGED workerLife
      BY <2>1, <2>3, <3>1 DEF workerLife, LifeOf
    <3> QED
      BY <1>3, <2>1, <2>3, <3>2 DEF UW!Next, UW!Abandon
  <2> QED
    BY <1>6, <2>2, <2>3 DEF PoolShutdown
<1>7. ASSUME NEW w \in Worker, DrainStep(w) PROVE [UW!Next]_(UW!vars)
  <2>1. UNCHANGED <<thread, stage, target>>
    BY <1>7 DEF DrainStep, Signal, AllJoined, Release
  <2>2. CASE Signal(w) /\ thread[w] # "ended"
    <3>0. /\ drain[w] = "joining" /\ thread[w] # "none" /\ terminate[w] = "open"
          /\ terminate' = [terminate EXCEPT ![w] = "sent"]
          /\ drain' = [drain EXCEPT ![w] = "signalled"]
      BY <2>2 DEF Signal, AllJoined, TablesAgree
    <3>1. workerLife[w] = "closing" /\ workerLife' = [workerLife EXCEPT ![w] = "retired"]
      <4>1. workerLife[w] = "closing"
        BY <2>2, <3>0 DEF workerLife, LifeOf
      <4>2. workerLife' = [workerLife EXCEPT ![w] = "retired"]
        BY <2>1, <3>0 DEF workerLife, LifeOf, TypeOK
      <4> QED BY <4>1, <4>2
    <3>2. \A r \in Request : target[r] = w => requestCall[r] # "admitted"
      BY <2>2 DEF Signal, AllJoined, FlightsTracked, requestCall, CallOf, InFlight, Final
    <3> QED
      BY <1>r, <2>1, <3>1, <3>2 DEF UW!Next, UW!Retire
  <2>3. CASE Signal(w) /\ thread[w] = "ended"
    <3>1. UNCHANGED workerLife
      BY <2>1, <2>3 DEF Signal, AllJoined, workerLife, LifeOf, TypeOK, TablesAgree
    <3> QED
      BY <1>r, <1>u, <2>1, <3>1
  <2>4. CASE Release(w)
    <3>1. UNCHANGED workerLife
      BY <2>1, <2>4 DEF Release, workerLife, LifeOf, TypeOK, TablesAgree
    <3> QED
      BY <1>r, <1>u, <2>1, <3>1
  <2> QED
    BY <1>7, <2>2, <2>3, <2>4 DEF DrainStep
<1>8. ASSUME NEW w \in Worker, ThreadStep(w) PROVE [UW!Next]_(UW!vars)
  <2>1. UNCHANGED <<terminate, drain, target>>
    BY <1>8 DEF ThreadStep, Boot, ThreadPanics, EventLoopEnds, TimerFires, ShutdownSent,
       TakeTerminate, StopThread
  <2>2. CASE thread[w] \in {"spawned", "running"} /\ UNCHANGED stage
             /\ \E to \in {"running", "stopping"} : thread' = [thread EXCEPT ![w] = to]
    <3>1. UNCHANGED workerLife
      BY <2>1, <2>2 DEF workerLife, LifeOf, TypeOK
    <3> QED
      BY <1>r, <1>u, <2>1, <2>2, <3>1
  <2>3. CASE UNCHANGED <<thread, stage>>
    BY <1>r, <1>u, <1>l, <2>1, <2>3
  <2>4. CASE thread[w] \in {"spawned", "running", "stopping"} /\ ThreadGone(w)
    <3>1. UNCHANGED requestCall
      BY <2>1, <2>4 DEF ThreadGone, requestCall, CallOf, TypeOK
    <3>2. CASE terminate[w] = "sent"
      <4>1. UNCHANGED workerLife
        BY <2>1, <2>4, <3>2 DEF ThreadGone, workerLife, LifeOf, TypeOK
      <4> QED
        BY <1>u, <2>1, <3>1, <4>1
    <3>3. CASE terminate[w] # "sent"
      <4>1. workerLife[w] \in {"live", "closing"}
        BY <2>4, <3>3 DEF workerLife, LifeOf
      <4>2. workerLife' = [workerLife EXCEPT ![w] = "died"]
        BY <2>1, <2>4, <3>3 DEF ThreadGone, workerLife, LifeOf, TypeOK
      <4> QED
        BY <2>1, <3>1, <4>1, <4>2 DEF UW!Next, UW!Die
    <3> QED
      BY <3>2, <3>3
  <2> QED
    BY <1>8, <2>2, <2>3, <2>4
    DEF ThreadStep, Boot, ThreadPanics, EventLoopEnds, TimerFires, ShutdownSent,
       TakeTerminate, StopThread
<1>9. ASSUME NEW r \in Request, RequestStep(r) PROVE [UW!Next]_(UW!vars)
  <2>1. UNCHANGED <<workerLife, target>>
    BY <1>9, <1>l DEF RequestStep, Dispatch, DispatchPanics, Accept, Respond, SendFails, Deliver, Fail,
       Move
  <2>2. CASE Dispatch(r) \/ DispatchPanics(r) \/ Accept(r) \/ SendFails(r) \/ Deliver(r)
    <3>1. UNCHANGED requestCall
      BY <2>2 DEF Dispatch, DispatchPanics, Accept, SendFails, Deliver, Move, requestCall,
         CallOf, TypeOK
    <3> QED
      BY <1>u, <2>1, <3>1
  <2>3. CASE Respond(r)
    <3>1. requestCall[r] = "admitted" /\ requestCall' = [requestCall EXCEPT ![r] = "answered"]
      BY <2>3 DEF Respond, Move, requestCall, CallOf, TypeOK
    <3>2. workerLife[target[r]] \in {"live", "closing"}
      <4>1. target[r] \in Worker /\ thread[target[r]] = "running" /\ terminate[target[r]] # "sent"
        BY <1>t, <2>3 DEF Respond, Move, TablesAgree, FlightsTracked, InFlight
      <4> QED
        BY <4>1 DEF workerLife, LifeOf
    <3> QED
      BY <2>1, <3>1, <3>2 DEF UW!Next, UW!Answer
  <2>4. CASE Fail(r)
    <3>1. requestCall[r] = "admitted" /\ requestCall' = [requestCall EXCEPT ![r] = "refused"]
      BY <2>4 DEF Fail, Move, requestCall, CallOf, TypeOK
    <3> QED
      BY <2>1, <3>1 DEF UW!Next, UW!Refuse
  <2> QED
    BY <1>9, <2>2, <2>3, <2>4 DEF RequestStep
<1> QED
  BY <1>1, <1>2, <1>4, <1>5, <1>6, <1>7, <1>8, <1>9 DEF Next, PoolStep, Idle

(* The pool with its tables, channels and tasks implements UserWorkers.    *)
THEOREM PoolImplementsUserWorkers == Spec => ImplementsUserWorkers
<1>1. Init => UW!Init
  BY DEF Init, UW!Init, workerLife, requestCall, LifeOf, CallOf
<1> QED
  BY <1>1, TypeCorrect, TerminateSenderKept, SendsCorrect, FlightsCorrect, ImplementsStep, PTL
  DEF Spec, ImplementsUserWorkers, UW!Spec

=============================================================================
