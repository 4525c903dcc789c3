----------------------------- MODULE FileFetcher -----------------------------
(***************************************************************************)
(* Fetching remote modules: FileFetcher::fetch_remote and fetch_cached of  *)
(* module_fetcher/src/file_fetcher.rs on the HTTP cache of                 *)
(* cache/http_cache.rs, whose directory the worker threads of this process *)
(* share with other processes and without locks.                           *)
(*                                                                         *)
(* An entry of the cache is a content file and a metadata file with the    *)
(* response's headers, each replaced in one step (atomic_write_file).  A   *)
(* redirect is an entry with empty content and a location header.  The     *)
(* servers are the environment: a URL has a sequence of responses, of      *)
(* which one is current, and a request with a matching ETag gets 304.      *)
(***************************************************************************)
EXTENDS Integers, Sequences

CONSTANTS
    Loader,       \* module loaders, one in each worker
    Settings,     \* CacheSettings they may have: "Use", "ReloadAll", "Only"
    Url,
    Root,         \* URLs that are imported; others are only redirected to
    Served,       \* Served[u]: the responses u has, one after the other
    MaxRedirects, \* 10 in the code
    Faults,       \* requests and writes may fail
    Body, Etag,
    Empty, NoFile, None

Status == {"code", "redirect", "failure"}

\* bare: the location header is a relative path without a leading slash or dot.
Response == [status : Status, body : Body \cup {Empty}, etag : Etag \cup {None},
             location : Url \cup {None}, bare : BOOLEAN]

\* The headers of a response that are used later on.
Headers == [location : Url \cup {None}, bare : BOOLEAN, etag : Etag \cup {None}]

\* What the constants have to be.
ConstantsOK ==
    /\ Settings \subseteq [Loader -> {"Use", "ReloadAll", "Only"}]
    /\ Root \subseteq Url
    /\ Served \in [Url -> Seq(Response)] /\ \A u \in Url : Served[u] # <<>>
    /\ \A u \in Url : \A i \in DOMAIN Served[u] :
           /\ Served[u][i].status = "redirect" <=> Served[u][i].location # None
           /\ Served[u][i].status = "code" <=> Served[u][i].body # Empty
           /\ Served[u][i].etag # None => Served[u][i].status = "code"
           /\ Served[u][i].bare => Served[u][i].status = "redirect"
    /\ MaxRedirects \in Nat
    /\ Faults \in BOOLEAN
    /\ Empty \notin Body /\ NoFile \notin Body \cup {Empty} \cup Headers
    /\ None \notin Etag /\ None \notin Url

VARIABLES
    current,  \* current[u]: index of u's current response
    content,  \* content[u], metadata[u]: the two files of u's entry
    metadata,
    setting,  \* setting[l]: l's cache setting
    task,     \* task[l]: the fetch l is at
    asked,    \* asked[l]: what was current when l began it
    memory,   \* memory[l]: l's FileCache
    result    \* result[l]: what its last fetch came to

disk == <<content, metadata>>
vars == <<current, disk, setting, task, asked, memory, result>>

WithoutLocation(r) == [location |-> None, bare |-> FALSE, etag |-> r.etag]   \* mutant
HeadersOf(r) == [location |-> r.location, bare |-> r.bare, etag |-> r.etag]

Pc == {"idle", "remote", "open", "read", "download", "asking", "store", "save"}

\* specifier and limit are fetch_remote's, link and links fetch_cached's, which is
\* called to "use" the cache or after a 304, to find what was "validated".
Task == [pc : Pc, root : Url \cup {None}, specifier : Url \cup {None},
         limit : (-1)..MaxRedirects,
         link : Url \cup {None}, links : (-1)..MaxRedirects,
         purpose : {"use", "validated"},
         opened : Body \cup {Empty, None}, etag : Etag \cup {None},
         response : Response \cup {None}]

Idle == [pc |-> "idle", root |-> None, specifier |-> None, limit |-> 0,
         link |-> None, links |-> 0, purpose |-> "use", opened |-> None,
         etag |-> None, response |-> None]

Outcome == {"none", "file", "io", "redirects", "location", "not cached", "panic"}
Result == [outcome : Outcome, root : Url \cup {None}, url : Url \cup {None},
           body : Body \cup {Empty, None}]
NoResult == [outcome |-> "none", root |-> None, url |-> None, body |-> None]

Init ==
    /\ current = [u \in Url |-> 1]
    /\ content = [u \in Url |-> NoFile] /\ metadata = [u \in Url |-> NoFile]
    /\ setting \in Settings
    /\ task = [l \in Loader |-> Idle]
    /\ asked = [l \in Loader |-> current]
    /\ memory = [l \in Loader |-> [u \in Url |-> NoResult]]
    /\ result = [l \in Loader |-> NoResult]

-----------------------------------------------------------------------------
Goes(l, t) ==
    /\ task' = [task EXCEPT ![l] = t]
    /\ UNCHANGED <<asked, memory, result>>

\* The fetch returns a file, which goes into memory under the URL asked for.
Returns(l, u, b) ==
    LET r == [outcome |-> "file", root |-> task[l].root, url |-> u, body |-> b]
    IN  /\ task' = [task EXCEPT ![l] = Idle]
        /\ result' = [result EXCEPT ![l] = r]
        /\ memory' = [memory EXCEPT ![l][r.root] = r]
        /\ UNCHANGED asked

\* It returns an error, or panics.
Fails(l, why) ==
    /\ task' = [task EXCEPT ![l] = Idle]
    /\ result' = [result EXCEPT ![l] = [NoResult EXCEPT !.outcome = why,
                                                        !.root = task[l].root]]
    /\ UNCHANGED <<asked, memory>>

\* The responses with code there are now.
CodeNow == [u \in Url |-> IF Served[u][1].location = None THEN current[u] ELSE 1]

\* fetch_with_accept for a remote URL: from memory, or by fetch_remote.
Fetch(l, u) ==
    /\ task[l].pc = "idle"
    /\ asked' = [asked EXCEPT ![l] = CodeNow]
    /\ IF memory[l][u] # NoResult
       THEN /\ result' = [result EXCEPT ![l] = memory[l][u]]
            /\ UNCHANGED task
       ELSE /\ result' = [result EXCEPT ![l] = NoResult]
            /\ task' = [task EXCEPT ![l] = [Idle EXCEPT
                   !.pc = "remote", !.root = u, !.specifier = u, !.limit = MaxRedirects]]
    /\ UNCHANGED <<current, disk, setting, memory>>

\* The head of fetch_remote.
Remote(l) ==
    LET t == task[l] IN
    /\ t.pc = "remote"
    /\ IF t.limit < 0 THEN Fails(l, "redirects")
       ELSE IF setting[l] # "ReloadAll"
       THEN Goes(l, [t EXCEPT !.pc = "open", !.link = t.specifier, !.links = t.limit,
                              !.purpose = "use"])
       ELSE Goes(l, [t EXCEPT !.pc = "download"])
    /\ UNCHANGED <<current, disk, setting>>

-----------------------------------------------------------------------------
(* fetch_cached                                                            *)

\* A redirect leaves one less.
Same(n) == n         \* mutant
Fewer(n) == n - 1

\* It returns None: the URL is downloaded unless that is not wanted; after a 304
\* there has to be a file.
Missing(l) ==
    IF task[l].purpose = "validated" THEN Fails(l, "panic")
    ELSE IF setting[l] = "Only" THEN Fails(l, "not cached")
    ELSE Goes(l, [task[l] EXCEPT !.pc = "download", !.link = None, !.links = 0])

\* The content file is opened: whatever replaces it later, this one is read.
Open(l) ==
    LET t == task[l] IN
    /\ t.pc = "open"
    /\ IF t.links < 0 THEN Fails(l, "redirects")
       ELSE IF content[t.link] = NoFile THEN Missing(l)
       ELSE Goes(l, [t EXCEPT !.pc = "read", !.opened = content[t.link]])
    /\ UNCHANGED <<current, disk, setting>>

\* The metadata file is read; resolve_import takes no bare location.
Read(l) ==
    LET t == task[l]
        h == metadata[t.link]
    IN  /\ t.pc = "read"
        /\ IF h = NoFile THEN Missing(l)
           ELSE IF h.location = None THEN Returns(l, t.link, t.opened)
           ELSE IF h.bare THEN Fails(l, "location")
           ELSE Goes(l, [t EXCEPT !.pc = "open", !.opened = None,
                                  !.link = h.location, !.links = Fewer(t.links)])
        /\ UNCHANGED <<current, disk, setting>>

-----------------------------------------------------------------------------
(* The rest of fetch_remote                                                *)

\* The request is sent with the ETag the cache has for the URL.
Ask(l) ==
    LET t == task[l]
        known == content[t.specifier] # NoFile /\ metadata[t.specifier] # NoFile
    IN  /\ t.pc = "download"
        /\ Goes(l, [t EXCEPT !.pc = "asking", !.opened = None,
                     !.etag = IF known THEN metadata[t.specifier].etag ELSE None])
        /\ UNCHANGED <<current, disk, setting>>

\* fetch_once gets the current response, or 304 if the ETag is still that of the
\* code: then the cache is consulted, with all redirects allowed again.
Answered(l) ==
    LET t == task[l]
        r == Served[t.specifier][current[t.specifier]]
    IN  /\ t.pc = "asking"
        /\ IF r.status = "failure" THEN Fails(l, "io")
           ELSE IF t.etag # None /\ r.etag = t.etag
           THEN Goes(l, [t EXCEPT !.pc = "open", !.link = t.specifier, !.etag = None,
                                  !.links = MaxRedirects, !.purpose = "validated"])
           ELSE Goes(l, [t EXCEPT !.pc = "store", !.etag = None, !.response = r])
        /\ UNCHANGED <<current, disk, setting>>

\* HttpCache.set writes the content file, then the metadata file.
MetadataFirst == <<"metadata", "content">>   \* mutant
Order == <<"content", "metadata">>

Writes(file, u, r) ==
    /\ content' = IF file = "content" THEN [content EXCEPT ![u] = r.body] ELSE content
    /\ metadata' = IF file = "metadata" THEN [metadata EXCEPT ![u] = HeadersOf(r)]
                                        ELSE metadata

Store(l) ==
    LET t == task[l] IN
    /\ t.pc = "store"
    /\ Writes(Order[1], t.specifier, t.response)
    /\ Goes(l, [t EXCEPT !.pc = "save"])
    /\ UNCHANGED <<current, setting>>

\* After the second file a redirect is followed, code is returned.
Save(l) ==
    LET t == task[l]
        r == t.response
    IN  /\ t.pc = "save"
        /\ Writes(Order[2], t.specifier, r)
        /\ IF r.status = "redirect"
           THEN Goes(l, [t EXCEPT !.pc = "remote", !.specifier = r.location,
                                  !.limit = Fewer(t.limit), !.response = None])
           ELSE Returns(l, t.specifier, r.body)
        /\ UNCHANGED <<current, setting>>

\* The request, or either write, fails.
IoFails(l) ==
    /\ Faults /\ task[l].pc \in {"asking", "store", "save"}
    /\ Fails(l, "io")
    /\ UNCHANGED <<current, disk, setting>>

\* The worker ends, by its lifetime or a crash, and another takes its place.
WorkerEnds(l) ==
    /\ task' = [task EXCEPT ![l] = Idle]
    /\ asked' = [asked EXCEPT ![l] = [u \in Url |-> 1]]
    /\ memory' = [memory EXCEPT ![l] = [u \in Url |-> NoResult]]
    /\ result' = [result EXCEPT ![l] = NoResult]
    /\ UNCHANGED <<current, disk, setting>>

ServerChanges(u) ==
    /\ current[u] < Len(Served[u])
    /\ current' = [current EXCEPT ![u] = @ + 1]
    /\ UNCHANGED <<disk, setting, task, asked, memory, result>>

Step(l) == \/ Remote(l) \/ Open(l) \/ Read(l) \/ Ask(l) \/ Answered(l)
           \/ Store(l) \/ Save(l)

Next ==
    \/ \E l \in Loader : \/ \E u \in Root : Fetch(l, u)
                         \/ Step(l) \/ IoFails(l) \/ WorkerEnds(l)
    \/ \E u \in Url : ServerChanges(u)

Spec == Init /\ [][Next]_vars

\* Requests are answered or fail, tasks that are ready are polled.
FairSpec == Spec /\ \A l \in Loader : WF_vars(Step(l))

-----------------------------------------------------------------------------
\* The types of the variables.
TypeOK ==
    /\ current \in [Url -> Nat] /\ \A u \in Url : current[u] \in DOMAIN Served[u]
    /\ content \in [Url -> Body \cup {Empty, NoFile}]
    /\ metadata \in [Url -> Headers \cup {NoFile}]
    /\ setting \in Settings
    /\ task \in [Loader -> Task]
    /\ asked \in [Loader -> [Url -> Nat]]
    /\ memory \in [Loader -> [Url -> Result]]
    /\ result \in [Loader -> Result]

\* A URL always redirects to the same place or never; how the place is written may change.
RedirectsStay ==
    \A u \in Url : \A i \in DOMAIN Served[u] :
        Served[u][i].status # "failure" => Served[u][i].location = Served[u][1].location

\* Where u leads in at most n redirects, if no redirect ever changes.
Leads[n \in 0..MaxRedirects] ==
    [u \in Url |-> LET r == Served[u][1] IN
                   IF n = 0 \/ r.location = None THEN u ELSE Leads[n - 1][r.location]]

Target(u) == Leads[MaxRedirects][u]

(* With redirects that lead to the same place, what a fetch returns is     *)
(* code of the URL at the end of the redirects: whether it comes from      *)
(* memory, from the disk, from a server or from the disk after a 304,      *)
(* after crashes and failures of anyone, and whoever else writes the same  *)
(* entries.                                                                *)
FetchCorrect ==
    \A l \in Loader :
        LET r == result[l] IN
        r.outcome = "file" =>
            /\ r.url = Target(r.root)
            /\ \E i \in 1..current[r.url] : Served[r.url][i].body = r.body

\* On the way from u somebody was redirected by a location that resolve_import does not take.
BareOnTheWay(u) ==
    \E n \in 0..MaxRedirects :
        LET v == Leads[n][u] IN \E i \in 1..current[v] : Served[v][i].bare

(* With redirects that lead to the same place, a fetch fails for a reason: *)
(* there are too many redirects only if the URL has too many, something is *)
(* not cached only for who wants nothing else, and a 304 never leaves the  *)
(* fetch without a file.  A redirect that was followed from the network    *)
(* can be followed from the cache ("This is a recursive operation if       *)
(* source file has redirections", file_fetcher.rs:235), except for a bare  *)
(* location, which the cache stores and does not resolve: that alone is    *)
(* the reason, and never for who reloads.                                  *)
FailuresJustified ==
    \A l \in Loader :
        LET r == result[l] IN
        /\ r.outcome = "redirects" => Served[Target(r.root)][1].location # None
        /\ r.outcome = "not cached" => setting[l] = "Only"
        /\ r.outcome = "location" => setting[l] # "ReloadAll" /\ BareOnTheWay(r.root)
        /\ r.outcome # "panic"

(* A fetch comes to an end, also in a circle of redirects.                 *)
FetchesReturn ==
    \A l \in Loader : []<>(task[l].pc = "idle")

\* A server gives an ETag to one of its responses only.
EtagsDiffer ==
    \A u \in Url : \A i, j \in DOMAIN Served[u] :
        i # j /\ Served[u][i].etag # None => Served[u][i].etag # Served[u][j].etag

\* No other loader writes to the cache.
Alone(l) == \A k \in Loader \ {l} : setting[k] = "Only"

\* The URL had this code after the first fetch of it began.
Fresh(l) ==
    LET r == result[l] IN
    \E i \in asked[l][r.url]..current[r.url] : Served[r.url][i].body = r.body

(* "No cached source files should be used, and all files should be         *)
(* reloaded" (util/cache_setting.rs:7): with ReloadAll a fetch returns     *)
(* code that its server had after the first fetch of the URL began, also   *)
(* if the worker, or those before it, stopped between an entry's two       *)
(* files.  Loaders that write the same entry at the same time can break    *)
(* it, and so can a server that uses an ETag again: the content of one     *)
(* response may stay with the ETag of another.                             *)
ReloadStep ==
    \A l \in Loader :
        setting[l] = "ReloadAll" /\ Alone(l) /\ task[l].pc # "idle"
        /\ result'[l].outcome = "file" => Fresh(l)'
ReloadIsFresh == [][ReloadStep]_vars

=============================================================================
