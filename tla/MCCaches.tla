------------------------------ MODULE MCCaches ------------------------------
(* Small instances of Caches for TLC.                                      *)
EXTENDS Caches

CONSTANTS h1, h2, h3, k1, k2, s1, s2, v1, v2, l1, l2, l3, c1, c2, c3, ua, ub, uc, b1, b2, e1, e2

-----------------------------------------------------------------------------
\* The databases: two handles of one release and one of another, two tables, one error.
TwoReleases == [h \in Handle |-> IF h = h3 THEN v2 ELSE v1]
OneText == {<<k2, s1>>}
TwoTables == <<{k1}, {k2}>>

-----------------------------------------------------------------------------
\* The emit cache: two loaders of one release and one of another, a module that has two texts;
\* the releases agree on one of them.
Releases == [l \in Emitter |-> IF l = l3 THEN v2 ELSE v1]
Transpilers ==
    [v \in Version |-> [s \in Source |-> IF s = s1 THEN c1 ELSE IF v = v1 THEN c2 ELSE c3]]

-----------------------------------------------------------------------------
\* The file fetcher: two loaders, a redirect to code that is replaced once, written first as a URL
\* and then as a bare path, and a circle of redirects; anything may fail, workers end.  Of two
\* settings one order is enough; who uses a cache that has nothing asks and writes as a second
\* reloader would.
CodeOf(b, e) ==
    [status |-> "code", body |-> b, etag |-> e, location |-> None, bare |-> FALSE]
RedirectTo(u, written) ==
    [status |-> "redirect", body |-> Empty, etag |-> None, location |-> u, bare |-> written = "bare"]

TwoSettings ==
    {[l \in Loader |-> IF l = l1 THEN "ReloadAll" ELSE other] : other \in {"Use", "Only"}}
Answers ==
    [u \in Url |->
        CASE u = ua -> << RedirectTo(ub, "absolute"), RedirectTo(ub, "bare") >>
          [] u = ub -> << CodeOf(b1, e1), CodeOf(b2, e2) >>
          [] u = uc -> << RedirectTo(uc, "absolute") >>]

\* What the proofs about fetches take for granted holds of these answers.
ASSUME AnswersStay == Fetch!RedirectsStay /\ Fetch!EtagsDiffer

-----------------------------------------------------------------------------
\* Ages: headers one by one and together, an age that does not fit, a clock that is set back.
SomeResponses ==
    [noCache : BOOLEAN, varyAny : BOOLEAN, maxAge : {-1, 0, 2}, minFresh : {-1, 1},
     maxStale : {-1, 2}, age : {-1, 1, 20}, expires : {-2, -1, 8},
     lastModified : {-1, 0}, date : {-1, 5}, cached : {4, 20}]

\* The incremental cache: two programs, one file, two configurations; one text has a hash that is
\* not written.
=============================================================================
