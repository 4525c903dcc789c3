-------------------------- MODULE IncrementalCache --------------------------
(***************************************************************************)
(* The incremental cache (cache/incremental.rs): a program that formats or *)
(* lints files skips those that it, or a program before it, has recorded   *)
(* with the same text and configuration.  What is recorded in the past is  *)
(* read when the cache is made; what is new goes through a channel to a    *)
(* task that writes it into the table, and is lost when the program ends   *)
(* before the task has come to it.                                         *)
(*                                                                         *)
(* A text stands for its hash; what two texts of one hash would do is left *)
(* out.  A statement on the table is atomic (CacheDb).                     *)
(***************************************************************************)
EXTENDS Naturals, Sequences

CONSTANTS
    Program, File, State,
    Text,
    Big,         \* texts whose hash has its highest bit set: rusqlite writes no such u64
    None,
    MaxSent,     \* bound on the messages that wait in a channel
    MaxWaits     \* bound on the calls of wait_completion

VARIABLES
    table,       \* table[f]: [state, text], or None
    prog,        \* prog[p]: the cache of program p, see Off
    recorded     \* history: every <<file, state, text>> that update_file was called with

vars == <<table, prog, recorded>>

Update(f, t) == [kind |-> "update", file |-> f, text |-> t]
Exit == [kind |-> "exit"]

\* previous: previous_hashes, by file; task: whether its task still receives; handle: whether
\* the JoinHandle is still there; waits: calls of wait_completion so far; waited: the first
\* of them has returned; owed: what has been sent before that call and is not yet written
NewCache(up, state, previous) ==
    [up |-> up, state |-> state, previous |-> previous, channel |-> <<>>, task |-> up,
     handle |-> up, waits |-> 0, waited |-> FALSE, owed |-> {}]
Off == NewCache(FALSE, None, [f \in File |-> None])

Row == [state : State, text : Text]
Message == [kind : {"update"}, file : File, text : Text] \cup {Exit}
Programs ==
    [up : BOOLEAN, state : State \cup {None}, previous : [File -> Text \cup {None}],
     channel : Seq(Message), task : BOOLEAN, handle : BOOLEAN, waits : Nat, waited : BOOLEAN,
     owed : SUBSET (File \X Text)]

ConstantsOK ==
    /\ None \notin Text /\ None \notin Row
    /\ MaxSent \in Nat /\ MaxWaits \in Nat

TypeOK ==
    /\ table \in [File -> Row \cup {None}]
    /\ prog \in [Program -> Programs]
    /\ recorded \subseteq File \X State \X Text

Init ==
    /\ table = [f \in File |-> None]
    /\ prog = [p \in Program |-> Off]
    /\ recorded = {}

\* get_source_hash: a row counts under the configuration it was written with
SourceHash(f, s) == IF table[f] # None /\ table[f].state = s THEN table[f].text ELSE None

\* IncrementalCache::new
Start(p, s, files) ==
    /\ ~prog[p].up
    /\ prog' = [prog EXCEPT ![p] =
                  NewCache(TRUE, s, [f \in File |-> IF f \in files THEN SourceHash(f, s)
                                                     ELSE None])]
    /\ UNCHANGED <<table, recorded>>

\* Nothing is sent for a file that had this text when the program started.
UpdateFile(p, f, t) ==
    /\ prog[p].up /\ Len(prog[p].channel) < MaxSent
    /\ recorded' = recorded \cup {<<f, prog[p].state, t>>}
    /\ prog' = IF prog[p].previous[f] = t \/ ~prog[p].task THEN prog
               ELSE [prog EXCEPT ![p].channel = Append(@, Update(f, t)),
                                 ![p].owed = IF prog[p].waits = 0 THEN @ \cup {<<f, t>>} ELSE @]
    /\ UNCHANGED table

\* The task: set_source_hash, whose error is ignored; it ends at Exit, and the channel with it.
Receive(p) ==
    LET m == Head(prog[p].channel) IN
    /\ prog[p].up /\ prog[p].task /\ prog[p].channel # <<>>
    /\ \/ /\ m.kind = "update"
          /\ table' = IF m.text \in Big THEN table
                      ELSE [table EXCEPT ![m.file] = [state |-> prog[p].state, text |-> m.text]]
          /\ prog' = [prog EXCEPT ![p].channel = Tail(@), ![p].owed = @ \ {<<m.file, m.text>>}]
       \/ /\ m.kind = "exit"
          /\ prog' = [prog EXCEPT ![p].channel = <<>>, ![p].task = FALSE]
          /\ UNCHANGED table
    /\ UNCHANGED recorded

\* wait_completion: the first call takes the handle and waits for the task, another one
\* that comes meanwhile returns at once.
Wait(p) ==
    /\ prog[p].up /\ prog[p].waits < MaxWaits /\ Len(prog[p].channel) < MaxSent
    /\ prog' = [prog EXCEPT ![p].waits = @ + 1,
                            ![p].handle = FALSE,
                            ![p].channel = IF prog[p].task THEN Append(@, Exit) ELSE @]
    /\ UNCHANGED <<table, recorded>>
TaskDone(p) == ~prog[p].task
WaitReturns(p) ==
    /\ prog[p].up /\ prog[p].waits > 0 /\ ~prog[p].waited /\ TaskDone(p)
    /\ prog' = [prog EXCEPT ![p].waited = TRUE]
    /\ UNCHANGED <<table, recorded>>

\* The program ends, or is killed.
Stop(p) ==
    /\ prog[p].up
    /\ prog' = [prog EXCEPT ![p] = Off]
    /\ UNCHANGED <<table, recorded>>

Next ==
    \E p \in Program :
        \/ \E s \in State, files \in SUBSET File : Start(p, s, files)
        \/ \E f \in File, t \in Text : UpdateFile(p, f, t)
        \/ Receive(p) \/ Wait(p) \/ WaitReturns(p) \/ Stop(p)

Spec == Init /\ [][Next]_vars

-----------------------------------------------------------------------------
(* Properties                                                              *)

IsFileSame(p, f, t) == prog[p].up /\ prog[p].previous[f] = t

\* "we know it is already formatted or has no lint diagnostics": a file is skipped only if some program has
\* recorded that very text of that file under the same configuration, whatever programs ran
\* meanwhile, under whatever configuration, and wherever they were killed.
SkippedWasRecorded ==
    \A p \in Program, f \in File, t \in Text :
        IsFileSame(p, f, t) => <<f, prog[p].state, t>> \in recorded

\* When wait_completion has returned to its first caller, all that was recorded before has
\* been tried to write.
WaitedIsTried == \A p \in Program : prog[p].waited => prog[p].owed = {}
=============================================================================
