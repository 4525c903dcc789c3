----------------------------- MODULE RequestBody -----------------------------
(***************************************************************************)
(* The body of one request on its way through a main worker: from the      *)
(* client's connection through UserWorker.fetch (sb_workers/user_workers.js*)
(* and lib.rs), which pipes it into a channel of capacity one, to the      *)
(* connection that carries the request to the user worker and reads the    *)
(* other end of the channel (MpscByteStream).                              *)
(*                                                                         *)
(* A chunk is its number.  Two things are not in this repository: the sink *)
(* writableStreamForRid makes (deno_web), which closes its resource and    *)
(* may call the resource's shutdown before that; and hyper's connection,   *)
(* which stops reading when the announced length is reached.               *)
(***************************************************************************)
EXTENDS Naturals, Sequences

CONSTANTS
    Lengths,       \* numbers of chunks a body may have
    Framings,      \* subset of {"content-length", "chunked"}
    ClientMayGo,   \* TRUE: the client may disconnect while it sends
    ReadsBody,     \* TRUE: the worker's handler reads the body before it answers
    ShutsDown,     \* subset of BOOLEAN: whether the sink's close calls shutdown
    Capacity,      \* of the channel MpscByteStream::new makes
    EndOfBody      \* the value None that shutdown sends

\* What the constants have to be.
ConstantsOK ==
    /\ Lengths \subseteq Nat
    /\ Framings \subseteq {"content-length", "chunked"}
    /\ ClientMayGo \in BOOLEAN /\ ReadsBody \in BOOLEAN /\ ShutsDown \subseteq BOOLEAN
    /\ Capacity \in Nat \ {0}
    /\ EndOfBody \notin Nat

VARIABLES
    length,   \* chunks the body has
    framing,  \* the header that announces it
    shuts,    \* the sink calls shutdown
    client,   \* "sending", "done" or "gone"
    arrived,  \* chunks that have come from the client
    fetch,    \* where UserWorker.fetch is
    written,  \* chunks the body resource has taken
    channel,  \* the channel between the body resource and the stream
    sender,   \* the channel's two ends exist
    receiver,
    shutdown, \* MpscByteStream.shutdown
    conn,     \* hyper's connection to the user worker, by the request's body
    got,      \* chunks the user worker got
    request   \* the built request is in the resource table

clientVars == <<length, framing, shuts, client, arrived>>
streamVars == <<channel, sender, receiver, shutdown>>
vars == <<clientVars, fetch, written, streamVars, conn, got, request>>

FetchState == {"idle", "piping", "piped", "sent", "answered", "failed"}
Returned   == {"answered", "failed"}

Init ==
    /\ length \in Lengths /\ framing \in Framings /\ shuts \in ShutsDown
    /\ client = "sending" /\ arrived = 0
    /\ fetch = "idle" /\ written = 0
    /\ channel = <<>> /\ sender = FALSE /\ receiver = FALSE /\ shutdown = FALSE
    /\ conn = "none" /\ got = <<>>
    /\ request = FALSE

-----------------------------------------------------------------------------
(* The client.                                                             *)

ClientSends ==
    /\ client = "sending"
    /\ IF arrived < length
       THEN arrived' = arrived + 1 /\ UNCHANGED client
       ELSE client' = "done" /\ UNCHANGED arrived
    /\ UNCHANGED <<length, framing, shuts, fetch, written, streamVars, conn, got, request>>

ClientGoes ==
    /\ ClientMayGo /\ client = "sending"
    /\ client' = "gone"
    /\ UNCHANGED <<length, framing, shuts, arrived, fetch, written, streamVars, conn, got, request>>

-----------------------------------------------------------------------------
(* UserWorker.fetch                                                        *)

\* The request has a body if its headers announce one that is not empty.
AnnouncedByLength == framing = "content-length" /\ length > 0   \* mutant
HasBody == framing = "chunked" \/ length > 0

\* op_user_worker_fetch_build: the request, and a channel for its body.
Build ==
    /\ fetch = "idle"
    /\ request' = TRUE
    /\ fetch' = IF HasBody THEN "piping" ELSE "piped"
    /\ sender' = HasBody /\ receiver' = HasBody
    /\ UNCHANGED <<clientVars, written, channel, shutdown, conn, got>>

\* The channel takes another value.
HasRoom == Len(channel) < Capacity

\* UserWorkerRequestBodyResource.write completes when the channel has room.
\* Its other end waits in the resource table for op_user_worker_fetch_send.
Write ==
    /\ fetch = "piping" /\ written < arrived
    /\ HasRoom
    /\ channel' = Append(channel, written + 1)
    /\ written' = written + 1
    /\ UNCHANGED <<clientVars, fetch, sender, receiver, shutdown, conn, got, request>>

\* pipeTo comes to the end and closes the sink, whose end of the channel goes.
PipeEnds ==
    /\ fetch = "piping" /\ client = "done" /\ written = length
    /\ \/ ~shuts /\ UNCHANGED channel
       \/ shuts /\ HasRoom /\ channel' = Append(channel, EndOfBody)
    /\ sender' = FALSE
    /\ fetch' = "piped"
    /\ UNCHANGED <<clientVars, written, receiver, shutdown, conn, got, request>>

\* The client's side fails: what was read is written first, then fetch throws.
\* The built request stays in the resource table.
PipeFails ==
    /\ fetch = "piping" /\ client = "gone" /\ written = arrived
    /\ sender' = FALSE
    /\ fetch' = "failed"
    /\ UNCHANGED <<clientVars, written, channel, receiver, shutdown, conn, got, request>>

\* op_user_worker_fetch_send: the request is taken from the table and goes
\* through the pool to a connection with the worker, or is refused.
FetchSend ==
    /\ fetch = "piped"
    /\ request' = FALSE
    /\ \/ /\ fetch' = "sent"
          /\ conn' = IF HasBody THEN "reading" ELSE "complete"
          /\ UNCHANGED <<channel, receiver>>
       \/ /\ fetch' = "failed"
          /\ channel' = <<>> /\ receiver' = FALSE
          /\ UNCHANGED conn
    /\ UNCHANGED <<clientVars, written, sender, shutdown, got>>

\* send_request failed, op_user_worker_fetch_send throws.
SendFails ==
    /\ fetch = "sent" /\ conn = "broken"
    /\ fetch' = "failed"
    /\ UNCHANGED <<clientVars, written, streamVars, conn, got, request>>

-----------------------------------------------------------------------------
(* The connection to the user worker.                                      *)

\* What poll_next does when the channel is empty and its sender gone: the
\* stream ends after an explicit end only, otherwise it is an error.
EndsLazily == UNCHANGED conn   \* mutant: pending for ever
Ends == conn' = IF shutdown THEN "complete" ELSE "broken"

\* poll_next finds the explicit end, a chunk, or a channel that is closed.
PollNext ==
    /\ conn = "reading"
    /\ \/ /\ channel # <<>> /\ Head(channel) = EndOfBody
          /\ channel' = Tail(channel)
          /\ shutdown' = TRUE
          /\ conn' = "complete"
          /\ UNCHANGED <<got, receiver>>
       \/ /\ channel # <<>> /\ Head(channel) # EndOfBody
          /\ channel' = Tail(channel)
          /\ got' = Append(got, Head(channel))
          /\ IF framing = "content-length" /\ Len(got) + 1 = length
             THEN conn' = "complete" /\ receiver' = FALSE
             ELSE UNCHANGED <<conn, receiver>>
          /\ UNCHANGED shutdown
       \/ /\ channel = <<>> /\ ~sender
          /\ Ends
          /\ UNCHANGED <<channel, shutdown, got, receiver>>
    /\ UNCHANGED <<clientVars, fetch, written, sender, request>>

\* The worker answers; the task that polls the connection is aborted.
Answer ==
    /\ fetch = "sent" /\ conn \in {"reading", "complete"}
    /\ ReadsBody => conn = "complete"
    /\ fetch' = "answered"
    /\ conn' = IF conn = "reading" THEN "broken" ELSE conn
    /\ channel' = <<>> /\ receiver' = FALSE
    /\ UNCHANGED <<clientVars, written, sender, shutdown, got, request>>

\* The worker's end of the connection goes, with the worker's thread.
WorkerGoes ==
    /\ fetch = "sent" /\ conn \in {"reading", "complete"}
    /\ fetch' = "failed"
    /\ conn' = IF conn = "reading" THEN "broken" ELSE conn
    /\ channel' = <<>> /\ receiver' = FALSE
    /\ UNCHANGED <<clientVars, written, sender, shutdown, got, request>>

Step == \/ Build \/ Write \/ PipeEnds \/ PipeFails \/ FetchSend \/ SendFails
        \/ PollNext \/ Answer

Next == ClientSends \/ ClientGoes \/ Step \/ WorkerGoes

Spec == Init /\ [][Next]_vars

\* A client sends on or goes away; ready tasks are polled; the worker answers.
FairSpec == Spec /\ WF_vars(ClientSends \/ ClientGoes) /\ WF_vars(Step)

-----------------------------------------------------------------------------
\* The types of the variables.
TypeOK ==
    /\ length \in Lengths /\ framing \in Framings /\ shuts \in ShutsDown
    /\ client \in {"sending", "done", "gone"} /\ arrived \in 0..length
    /\ fetch \in FetchState /\ written \in 0..arrived
    /\ channel \in Seq((1..length) \cup {EndOfBody}) /\ Len(channel) <= Capacity
    /\ sender \in BOOLEAN /\ receiver \in BOOLEAN /\ shutdown \in BOOLEAN
    /\ conn \in {"none", "reading", "complete", "broken"}
    /\ got \in Seq(1..length)
    /\ request \in BOOLEAN

(* A body reaches the user worker in order and without gaps, and one that  *)
(* looks complete to it is: through the client's connection, the channel   *)
(* and the end-of-stream rule of MpscByteStream.                           *)
BodyWhole ==
    /\ got = [i \in 1..Len(got) |-> i]
    /\ conn = "complete" => Len(got) = length

(* A request whose body, with its end if that is sent, fits into the       *)
(* channel always comes to an end: it is answered or fails, whatever       *)
(* client and worker do.                                                   *)
SmallBodiesReturn ==
    []<>(length + (IF shuts THEN 1 ELSE 0) <= Capacity => fetch \in Returned \cup {"idle"})

(* "Transfer-Encoding: chunked", two chunks, status 200                    *)
(* (main_worker_tests.rs:98-118): a chunked body gets to the user worker   *)
(* and is answered, if neither the client nor the worker goes.             *)
ChunkedBodyAnswered ==
    framing = "chunked" /\ fetch = "piping" ~> fetch \in Returned

=============================================================================
