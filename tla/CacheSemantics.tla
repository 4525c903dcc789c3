--------------------------- MODULE CacheSemantics ---------------------------
(***************************************************************************)
(* CacheSemantics of http_util.rs: may a file of the HTTP cache be used    *)
(* without asking its server?  The file fetcher asks each time it finds    *)
(* one, under CacheSetting::RespectHeaders.                                *)
(*                                                                         *)
(* Time is in seconds.  A response is a record of what the code reads from *)
(* its headers, Absent where there is none: noCache, varyAny, maxAge,      *)
(* minFresh, maxStale, age, expires (Invalid when it cannot be parsed),    *)
(* lastModified, date, and the time it was cached.                         *)
(***************************************************************************)
EXTENDS Integers

CONSTANTS
    Responses,  \* the responses there may be in the cache
    Times,      \* what the clock may show
    MaxSecs     \* the largest Duration (u64 seconds)

VARIABLES
    response,   \* the response in the cache; never changes
    now         \* the clock

vars == <<response, now>>

Absent == -1
Invalid == -2

Seconds == Nat \cup {Absent}
Response ==
    [noCache : BOOLEAN, varyAny : BOOLEAN, maxAge : Seconds, minFresh : Seconds, maxStale : Seconds,
     age : Seconds, expires : Seconds \cup {Invalid}, lastModified : Seconds, date : Seconds,
     cached : Nat]
ConstantsOK == Responses \subseteq Response /\ Times \subseteq Nat /\ MaxSecs \in Nat


\* A Duration is never negative: duration_since fails, or its error counts as 0.
Since(t, u) == IF t < u THEN 0 ELSE t - u

ServerDate == IF response.date = Absent THEN response.cached ELSE response.date

ResidentSwapped == Since(response.cached, now)   \* mutant: of another direction
Resident == Since(now, response.cached)
HeaderAge == IF response.age = Absent THEN 0 ELSE response.age
Age == HeaderAge + Resident

\* How long the response may be used, by the first of its headers that says so.
MaxAge ==
    IF response.noCache \/ response.varyAny THEN 0
    ELSE IF response.maxAge # Absent THEN response.maxAge
    ELSE IF response.expires = Invalid THEN 0
    ELSE IF response.expires # Absent THEN Since(response.expires, ServerDate)
    ELSE IF response.lastModified # Absent THEN Since(ServerDate, response.lastModified) \div 10
    ELSE 0

TimeToLive == Since(MaxAge, Age)
IsStale == MaxAge <= Age
AnyStale == response.maxStale # Absent    \* mutant: however stale
AllowsStale == response.maxStale # Absent /\ response.maxStale > Age - MaxAge

ShouldUse ==
    /\ ~response.noCache
    /\ response.maxAge # Absent => Age <= response.maxAge
    /\ response.minFresh # Absent => TimeToLive >= response.minFresh
    /\ IsStale => AllowsStale

\* The sum of two Durations panics when it does not fit; a response with no-cache is
\* refused before anything is added.
Panics == ~response.noCache /\ Age > MaxSecs

Answer == IF Panics THEN "panic" ELSE IF ShouldUse THEN "use" ELSE "fetch"

-----------------------------------------------------------------------------

Init == response \in Responses /\ now \in Times

\* The clock goes on, or is set back.
Tick == now' \in Times /\ UNCHANGED response

Next == Tick

Spec == Init /\ [][Next]_vars

-----------------------------------------------------------------------------
(* Properties                                                              *)

TypeOK == response \in Responses /\ now \in Times

\* A response that has gone stale stays stale for as long as the clock does not go back:
\* what was refused once is not used later without having been fetched again.
FreshnessStep == now' >= now /\ Answer = "fetch" => Answer' # "use"
FreshnessFades == [][FreshnessStep]_vars

\* A response is used only before the end of what its server allowed: never past its
\* max-age, never with no-cache, and past an Expires or a vary only by less than max-stale.
UsedInTime ==
    Answer = "use" =>
        /\ ~response.noCache
        /\ response.maxAge # Absent => now - response.cached <= response.maxAge
        /\ response.expires \notin {Absent, Invalid} /\ response.maxAge = Absent /\ response.maxStale = Absent =>
               /\ response.expires > ServerDate
               /\ now - response.cached < response.expires - ServerDate
        /\ response.maxStale # Absent => Age - MaxAge < response.maxStale
=============================================================================
