-------------------------------- MODULE Files --------------------------------
(***************************************************************************)
(* Which files of a project are meant: FilesConfig::matches_specifier of   *)
(* args/config_file.rs says it of one module, collect_specifiers with its  *)
(* FileCollector (util/fs.rs) lists them all by walking the directories.   *)
(*                                                                         *)
(* A path is the sequence of its names, from the root.  A case is the tree *)
(* and the configuration: [dirs, files, links, include, exclude, cwd],     *)
(* dirs and files canonical paths, links[p] where the symlink p leads, or  *)
(* Nowhere if it does not resolve.  WalkDir returns entries in any order;  *)
(* that the list of each directory is sorted and that an include may be a  *)
(* URL, which is listed as it is, is left out.                             *)
(***************************************************************************)
EXTENDS Naturals, Sequences, SequencesExt

CONSTANTS
    Cases,
    Skipped,      \* names that read node_modules or .git in lower case
    Wanted(_)     \* the predicate of the collector on the name of a file

VARIABLES
    case,      \* the tree and the configuration; never changes
    next,      \* the place in include
    top,       \* the directory that is walked
    entries,   \* the entries WalkDir has yet to return
    prepared   \* the paths returned so far

vars == <<case, next, top, entries, prepared>>

\* What the tree and the configuration of a case are like: every directory but the root is in
\* one, as are files and links, and nothing lies below a file or a link.
CaseOK(k) ==
    LET all == k.dirs \cup k.files IN
    /\ all \subseteq Seq(STRING) /\ <<>> \in k.dirs /\ k.dirs \cap k.files = {}
    /\ DOMAIN k.links \subseteq Seq(STRING) \ all
    /\ \A p \in all \cup DOMAIN k.links : \A n \in 0..Len(p) - 1 : SubSeq(p, 1, n) \in k.dirs
    /\ k.cwd \in Seq(STRING) /\ k.include \in Seq(Seq(STRING)) /\ k.exclude \subseteq Seq(STRING)

Dirs == case.dirs
Links == DOMAIN case.links
Nowhere == <<"nowhere">>

StartsWith(p, q) == IsPrefix(q, p)
Parent(p) == Front(p)
Name(p) == Last(p)

\* canonicalize_path, when it succeeds: the names of p one after the other
Enter(d, name) == LET p == Append(d, name) IN IF p \in Links THEN case.links[p] ELSE p
Canonical(p) ==
    LET at[i \in 0..Len(p)] == IF i = 0 THEN <<>> ELSE Enter(at[i - 1], p[i]) IN at[Len(p)]
Exists(p) == Canonical(p) \in Dirs \cup case.files

\* include is the directory of the program when it is empty
Include == IF case.include = <<>> THEN << case.cwd >> ELSE case.include
\* add_ignore_paths: only those that exist
Ignored == {Canonical(p) : p \in {e \in case.exclude : Exists(e)}}

-----------------------------------------------------------------------------
(* collect_specifiers                                                      *)

Init ==
    /\ case \in Cases
    /\ next = 1 /\ top = Nowhere /\ entries = {} /\ prepared = <<>>

\* The next of include: a directory is walked, anything else is taken as it is.
NextInclude ==
    /\ entries = {} /\ next <= Len(Include)
    /\ next' = next + 1
    /\ LET p == Include[next] IN
       IF Canonical(p) \in Dirs
       THEN top' = Canonical(p) /\ entries' = {Canonical(p)} /\ UNCHANGED prepared
       ELSE prepared' = Append(prepared, p) /\ UNCHANGED <<top, entries>>
    /\ UNCHANGED case

IsIgnored(c) == \E i \in Ignored : StartsWith(c, i)
SkipAlsoTop(c) == c # <<>> /\ Name(c) \in Skipped      \* mutant: also the one that is asked for
SkipsDir(c) == c # <<>> /\ Name(c) \in Skipped /\ c # top

\* An entry of WalkDir, which does not follow links: a directory is descended into, a file
\* or a link is taken if the predicate likes its name.
Children(d) == {p \in Dirs \cup case.files \cup Links : p # <<>> /\ Parent(p) = d}
Visit(e) ==
    LET c == Canonical(e) IN
    /\ e \in entries
    /\ IF e \in Dirs
       THEN /\ entries' = (entries \ {e}) \cup (IF IsIgnored(c) \/ SkipsDir(c) THEN {} ELSE Children(e))
            /\ UNCHANGED prepared
       ELSE /\ entries' = entries \ {e}
            /\ prepared' = IF Exists(e) /\ ~IsIgnored(c) /\ Wanted(Name(e))
                           THEN Append(prepared, c) ELSE prepared
    /\ UNCHANGED <<case, next, top>>

Done == entries = {} /\ next > Len(Include)
Next == NextInclude \/ (\E e \in entries : Visit(e))

Spec == Init /\ [][Next]_vars

-----------------------------------------------------------------------------
(* The configuration                                                       *)

\* FilesConfig::matches_specifier, of the path of a module
MatchesSpecifier(p) ==
    /\ ~\E i \in case.exclude : StartsWith(p, i)
    /\ case.include = <<>> \/ \E i \in Range(case.include) : StartsWith(p, i)

-----------------------------------------------------------------------------
(* Properties                                                              *)

Walked == {Canonical(i) : i \in {j \in Range(Include) : Canonical(j) \in Dirs}}
Given == {i \in Range(Include) : Canonical(i) \notin Dirs}

\* p lies below d, and between them is no directory node_modules or .git
InReach(p, d) == StartsWith(p, d) /\ \A i \in Len(d) + 1..Len(p) - 1 : p[i] \notin Skipped

\* The files and links that are meant: in reach of a directory of include, of a wanted name,
\* leading somewhere, and not excluded, neither by their own path nor by where they lead.
Meant ==
    {e \in case.files \cup Links :
        /\ \E d \in Walked : InReach(e, d)
        /\ Wanted(Name(e)) /\ Exists(e) /\ ~IsIgnored(e) /\ ~IsIgnored(Canonical(e))}

\* "Collects module specifiers that satisfy the given predicate as a file path, by recursively
\* walking `include`" (util/fs.rs:252): the list is what these lead to, none missing, none
\* too many, and what of include is no directory, as it was given.  So the predicate and
\* node_modules are about the path of the entry: a link of a wanted name lists a directory,
\* or a file in a node_modules, if it leads there; and what include names itself is listed
\* though the predicate dislikes it or exclude names it, too.
Collected == Done => Range(prepared) = Given \cup {Canonical(e) : e \in Meant}

\* Without symlinks walking and asking one by one agree: of the files that include does not
\* name itself, the list has those that match (config_file.rs:327), that the predicate likes,
\* and that are in reach.
Agree ==
    Done /\ Links = {} =>
        \A f \in case.files \ Given :
            f \in Range(prepared) <=>
                MatchesSpecifier(f) /\ Wanted(Name(f)) /\ \E i \in Range(Include) : InReach(f, i)
=============================================================================
