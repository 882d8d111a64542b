------------------------------ MODULE FileMonitor ------------------------------
(***************************************************************************)
(* The file monitor: the observer's thread puts an event on the queue when *)
(* a file of a tracked type is created, changed or renamed in a watched    *)
(* directory; the writer's thread reads the file later, several times, and *)
(* records what it read.                                                   *)
(*                                                                         *)
(* What a file holds is the number of the write that put it there.  The    *)
(* watched directories are empty at first: a file that is not touched      *)
(* while the agent runs is never examined.  A batch of QueueWriter stands  *)
(* for each of its events.                                                 *)
(***************************************************************************)
EXTENDS Naturals, Sequences, FiniteSets

CONSTANTS
    Paths,        \* files of a tracked type in watched directories
    Bad,          \* the contents that a rule matches
    Reads,        \* how often a row's file is read (hash_file, read_sample, scan_file)
    MaxWrites,    \* bound: how often files are written
    MaxFailures   \* bound: reads and commits that fail

ASSUME FileMonitorAssumption ==
    {Reads, MaxWrites, MaxFailures} \subseteq Nat /\ Bad \subseteq 1..MaxWrites

VARIABLES
    disk,         \* what each file holds, 0 when there is none
    writes,       \* how often a file was written
    erased,       \* history: what users deleted or overwrote
    fileEvents,   \* the queue between the observer and the writer
    inHand,       \* the event being written: its path, the reads left, what they found; or nothing
    records,      \* by path: the contents its latest row was read from
    unrecorded,   \* history: paths whose latest row was rolled back
    suspects,     \* paths of rows that a rule matches and no poll has seen
    failures      \* how many reads and commits failed

userVars == <<disk, writes, erased>>
recordVars == <<inHand, records, unrecorded>>
fileVars == <<userVars, fileEvents, recordVars, suspects, failures>>

Fails == failures < MaxFailures /\ failures' = failures + 1

Content == 1..MaxWrites

NoRecord == {0}

FileTypeOK ==
    /\ disk \in [Paths -> {0} \cup Content]
    /\ writes \in 0..MaxWrites /\ erased \subseteq Content
    /\ fileEvents \in Seq(Paths)
    /\ inHand \subseteq [path : Paths, left : 0..Reads, found : SUBSET Content]
    /\ Cardinality(inHand) <= 1
    /\ records \in [Paths -> {NoRecord} \cup SUBSET Content]
    /\ unrecorded \subseteq Paths /\ suspects \subseteq Paths /\ failures \in 0..MaxFailures

FileInit ==
    /\ disk = [p \in Paths |-> 0] /\ writes = 0 /\ erased = {}
    /\ fileEvents = <<>> /\ inHand = {}
    /\ records = [p \in Paths |-> NoRecord] /\ unrecorded = {} /\ suspects = {} /\ failures = 0
-----------------------------------------------------------------------------
(* The observer: _Handler. *)

\* Fault: a rename into a tracked name is not handled.
HandledWithoutMoves == {"created", "modified"}

\* Deletions have no handler.
Handled == {"created", "modified", "moved"}

Observe(p, how) == fileEvents' = IF how \in Handled THEN Append(fileEvents, p) ELSE fileEvents

\* Somebody writes the file, or renames a finished download to it.
WriteFile(p, how) ==
    /\ writes < MaxWrites
    /\ how = "modified" => disk[p] # 0
    /\ writes' = writes + 1
    /\ erased' = (erased \cup {disk[p]}) \ {0}
    /\ disk' = [disk EXCEPT ![p] = writes + 1]
    /\ Observe(p, how)
    /\ UNCHANGED <<recordVars, suspects, failures>>

DeleteFile(p) ==
    /\ disk[p] # 0
    /\ erased' = erased \cup {disk[p]}
    /\ disk' = [disk EXCEPT ![p] = 0]
    /\ UNCHANGED <<writes, fileEvents, recordVars, suspects, failures>>
-----------------------------------------------------------------------------
(* The writer: _write_batch and _write_one. *)

TakeFileEvent ==
    /\ inHand = {} /\ fileEvents # <<>>
    /\ inHand' = {[path |-> Head(fileEvents), left |-> Reads, found |-> {}]}
    /\ fileEvents' = Tail(fileEvents)
    /\ UNCHANGED <<userVars, records, unrecorded, suspects, failures>>

\* Each read finds what the file holds now, or nothing: it is gone, locked
\* or too large.
ReadFile ==
    \E e \in inHand :
        /\ e.left > 0
        /\ \/ /\ inHand' = {[e EXCEPT !.left = @ - 1, !.found = (@ \cup {disk[e.path]}) \ {0}]}
              /\ UNCHANGED failures
           \/ inHand' = {[e EXCEPT !.left = @ - 1]} /\ Fails
        /\ UNCHANGED <<userVars, fileEvents, records, unrecorded, suspects>>

CommitFile ==
    \E e \in inHand :
        /\ e.left = 0
        /\ inHand' = {}
        /\ records' = [records EXCEPT ![e.path] = e.found]
        /\ unrecorded' = unrecorded \ {e.path}
        /\ suspects' = suspects \cup (IF e.found \cap Bad # {} THEN {e.path} ELSE {})
        /\ UNCHANGED <<userVars, fileEvents, failures>>

\* A query or the commit raises: the batch is dropped.
DropFile ==
    \E e \in inHand :
        /\ Fails
        /\ inHand' = {}
        /\ unrecorded' = unrecorded \cup {e.path}
        /\ UNCHANGED <<userVars, fileEvents, records, suspects>>
-----------------------------------------------------------------------------
FileStep ==
    \/ \E p \in Paths : DeleteFile(p) \/ \E how \in {"created", "modified", "moved"} : WriteFile(p, how)
    \/ TakeFileEvent \/ ReadFile \/ CommitFile \/ DropFile
-----------------------------------------------------------------------------
(* Properties *)

(***************************************************************************)
(* However often a file is changed, renamed, quarantined or restored while *)
(* it is being read: once nothing of it is queued or in hand, its latest   *)
(* row was read from what the file holds now and from nothing else (every  *)
(* read of _write_one comes after the event; _Handler hears of every way   *)
(* by which a content arrives).                                            *)
(***************************************************************************)
RecordsCatchUp ==
    \A p \in Paths :
        \/ disk[p] = 0 \/ p \in unrecorded
        \/ \E i \in 1..Len(fileEvents) : fileEvents[i] = p
        \/ \E e \in inHand : e.path = p
        \/ records[p] \subseteq {disk[p]}
=============================================================================
