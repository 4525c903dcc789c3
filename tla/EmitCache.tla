------------------------------ MODULE EmitCache ------------------------------
(***************************************************************************)
(* The emit cache of module_fetcher (cache/emit.rs, used by                *)
(* emit_parsed_source in emit.rs): per module, a file with the transpiled  *)
(* code and a file with metadata about it, in a directory that the worker  *)
(* threads of this process share with each other and with other processes, *)
(* of this and other releases.  Nothing is locked.                         *)
(*                                                                         *)
(* The module models one specifier.  Each file is replaced in one step: it *)
(* is written under a random name and renamed (atomic_write_file).  What   *)
(* of a source matters is its text with the emit options, of which         *)
(* get_source_hash is a hash: both hashes are taken to be injective.       *)
(***************************************************************************)
EXTENDS Naturals

CONSTANTS
    Loader,    \* the module loaders that share the directory
    Source,    \* texts the module has had
    Version,   \* releases
    VersionOf, \* VersionOf[l]: the release l belongs to
    Code,      \* transpiled texts
    Transpile, \* Transpile[v][s]: what release v makes of source s
    NoFile, None

\* What the constants have to be.
ConstantsOK ==
    /\ VersionOf \in [Loader -> Version]
    /\ Transpile \in [Version -> [Source -> Code]]
    /\ NoFile \notin Code

VARIABLES
    meta,   \* the .meta file
    emit,   \* the .js file
    pc,     \* where each loader is in emit_parsed_source
    source, \* the source it has
    seen,   \* the metadata it has read
    result  \* the code it returned

files == <<meta, emit>>
vars == <<files, pc, source, seen, result>>

\* compute_emit_hash: of the code and the release.
HashOfCode(c, v) == [code |-> c]   \* mutant: the release is forgotten
EmitHash(c, v) == [code |-> c, version |-> v]

EmitMetadata == [source_hash : Source,
                 emit_hash : {EmitHash(c, v) : c \in Code, v \in Version}]

NewMetadata(l) ==
    [source_hash |-> source[l],
     emit_hash |-> EmitHash(Transpile[VersionOf[l]][source[l]], VersionOf[l])]

Init ==
    /\ meta = NoFile /\ emit = NoFile
    /\ pc = [l \in Loader |-> "idle"]
    /\ source = [l \in Loader |-> None]
    /\ seen = [l \in Loader |-> None]
    /\ result = [l \in Loader |-> None]

\* emit_parsed_source is called for the module, whose text may have changed.
Load(l, s) ==
    /\ pc[l] \in {"idle", "returned"}
    /\ pc' = [pc EXCEPT ![l] = "get"]
    /\ source' = [source EXCEPT ![l] = s]
    /\ result' = [result EXCEPT ![l] = None]
    /\ UNCHANGED <<files, seen>>

\* The metadata is about the source the caller has.
ForSource(m, s) == m.source_hash = s

\* get_emit_code: the metadata is read and compared with the source.
ReadMeta(l) ==
    /\ pc[l] = "get"
    /\ IF meta # NoFile /\ ForSource(meta, source[l])
       THEN /\ seen' = [seen EXCEPT ![l] = meta]
            /\ pc' = [pc EXCEPT ![l] = "verify"]
       ELSE /\ pc' = [pc EXCEPT ![l] = "miss"]
            /\ UNCHANGED seen
    /\ UNCHANGED <<files, source, result>>

\* get_emit_code: the code is read and compared with the metadata.
ReadEmit(l) ==
    /\ pc[l] = "verify"
    /\ IF emit # NoFile /\ seen[l].emit_hash = EmitHash(emit, VersionOf[l])
       THEN /\ result' = [result EXCEPT ![l] = emit]
            /\ pc' = [pc EXCEPT ![l] = "returned"]
       ELSE /\ pc' = [pc EXCEPT ![l] = "miss"]
            /\ UNCHANGED result
    /\ seen' = [seen EXCEPT ![l] = None]
    /\ UNCHANGED <<files, source>>

\* set_emit_code: the metadata is stored before the code it is about.
WriteMeta(l) ==
    /\ pc[l] = "miss"
    /\ meta' = NewMetadata(l)
    /\ pc' = [pc EXCEPT ![l] = "save"]
    /\ UNCHANGED <<emit, source, seen, result>>

\* The transpiled code is returned, whether or not it could be stored.
Transpiled(l) ==
    /\ result' = [result EXCEPT ![l] = Transpile[VersionOf[l]][source[l]]]
    /\ pc' = [pc EXCEPT ![l] = "returned"]
    /\ UNCHANGED <<meta, source, seen>>

WriteEmit(l) ==
    /\ pc[l] = "save"
    /\ emit' = Transpile[VersionOf[l]][source[l]]
    /\ Transpiled(l)

\* Either write fails: the error is logged (a debug build panics: Stop).
WriteFails(l) ==
    /\ pc[l] \in {"miss", "save"}
    /\ Transpiled(l)
    /\ UNCHANGED emit

\* The source does not parse, the thread panics or the process is killed.
Stop(l) ==
    /\ pc[l] \notin {"idle", "returned"}
    /\ pc' = [pc EXCEPT ![l] = "idle"]
    /\ source' = [source EXCEPT ![l] = None]
    /\ seen' = [seen EXCEPT ![l] = None]
    /\ UNCHANGED <<files, result>>

LoaderStep(l) ==
    \/ \E s \in Source : Load(l, s)
    \/ ReadMeta(l) \/ ReadEmit(l)
    \/ WriteMeta(l) \/ WriteEmit(l) \/ WriteFails(l)
    \/ Stop(l)

Next == \E l \in Loader : LoaderStep(l)

Spec == Init /\ [][Next]_vars

-----------------------------------------------------------------------------
\* The types of the variables.
TypeOK ==
    /\ meta \in EmitMetadata \cup {NoFile}
    /\ emit \in Code \cup {NoFile}
    /\ pc \in [Loader -> {"idle", "get", "verify", "miss", "save", "returned"}]
    /\ source \in [Loader -> Source \cup {None}]
    /\ seen \in [Loader -> EmitMetadata \cup {None}]
    /\ result \in [Loader -> Code \cup {None}]

(* "Cached emits from previous CLI releases will not be returned or emits  *)
(* that do not match the source" (cache/emit.rs:42-43): however loaders    *)
(* overlap and wherever they stop, the code a loader gets is what its own  *)
(* release makes of the source it has.                                     *)
EmitCorrect ==
    \A l \in Loader :
        pc[l] = "returned" => result[l] = Transpile[VersionOf[l]][source[l]]

(* What EmitCorrect rests on: the two files may be of different writers,   *)
(* but the metadata on disk always describes the code that some release    *)
(* makes of its source, and so does the metadata a loader has read, of the *)
(* loader's own source.                                                    *)
Truthful(m) ==
    \E v \in Version : m.emit_hash = EmitHash(Transpile[v][m.source_hash], v)

MetadataTruthful ==
    /\ meta # NoFile => Truthful(meta)
    /\ \A l \in Loader : pc[l] = "verify" =>
           /\ Truthful(seen[l])
           /\ seen[l].source_hash = source[l]

\* A loader that is at work has a source, and one that compares has metadata.
Working ==
    \A l \in Loader :
        /\ pc[l] # "idle" => source[l] \in Source
        /\ pc[l] = "verify" => seen[l] \in EmitMetadata

\* The inductive invariant.
Inv == TypeOK /\ Working /\ MetadataTruthful /\ EmitCorrect

=============================================================================
