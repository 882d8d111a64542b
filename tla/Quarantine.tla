------------------------------ MODULE Quarantine ------------------------------
(***************************************************************************)
(* Quarantine and restore: the handlers of api/routes/response.py, each in *)
(* a pool thread, the automatic responses in the correlation monitor's     *)
(* thread, and response/actions.py, which both call, over the files that   *)
(* the file monitor watches and their users write.                         *)
(*                                                                         *)
(* A quarantined file gets a fresh random name; names are numbers here.    *)
(* shutil.move renames, or, if that is refused (another volume, a file     *)
(* that somebody holds open), copies and then removes the source; either   *)
(* may fail.  A handler that fails after a move or a copy stands also for  *)
(* an agent that ends there.                                               *)
(***************************************************************************)
EXTENDS FileMonitor

CONSTANTS
    Handlers,     \* pool threads of the API
    AutoThread,   \* the correlation monitor's thread
    MaxNames      \* bound: how many files are quarantined

ASSUME QuarantineAssumption == MaxNames \in Nat /\ AutoThread \notin Handlers

VARIABLES
    vault,        \* the quarantine directory: what each name holds, 0 for none
    origin,       \* history: for whom, and from which path, each name was made
    items,        \* QuarantineItem.restored by name, as committed
    named,        \* names that a committed admin_action row tells of
    broken,       \* history: names whose move was not followed by its commit
    stray,        \* history: names of copies that a failed quarantine left
    copied,       \* history: contents that were copied, not renamed
    handler,      \* by thread: where it is in its call
    raced         \* history: a path was filled under a call that relies on it

vaultVars == <<vault, origin, items, named, broken, stray, copied>>
quarantineVars == <<fileVars, vaultVars, handler, raced>>

Threads == Handlers \cup {AutoThread}
Names == 1..MaxNames
Operations == {"quarantine", "startup", "auto", "restore"}

QuarantineTypeOK ==
    /\ FileTypeOK
    /\ vault \in [Names -> {0} \cup Content]
    /\ origin \in Seq([op : Operations, path : Paths]) /\ Len(origin) <= MaxNames
    /\ items \in [Names -> {"none", "kept", "restored"}]
    /\ {named, broken, stray} \subseteq SUBSET Names /\ copied \subseteq Content
    /\ handler \in [Threads -> [at : {"idle", "checked", "found", "cleared", "copied", "moved"},
                                op : Operations, path : Paths, name : 0..MaxNames]]
    /\ raced \in BOOLEAN

QuarantineInit ==
    /\ FileInit
    /\ vault = [n \in Names |-> 0] /\ origin = <<>>
    /\ items = [n \in Names |-> "none"] /\ named = {} /\ broken = {}
    /\ stray = {} /\ copied = {}
    /\ \E p \in Paths : handler = [t \in Threads |->
           [at |-> "idle", op |-> "restore", path |-> p, name |-> 0]]
    /\ raced = FALSE

Enter(t, at, op, p, n) ==
    handler' = [handler EXCEPT ![t] = [at |-> at, op |-> op, path |-> p, name |-> n]]

Reach(t, at) == handler' = [handler EXCEPT ![t].at = at]
-----------------------------------------------------------------------------
(* quarantine_file *)

\* A confirmed request to quarantine a file; without confirmation, or
\* without the file, nothing is done.
AskQuarantine(t, p) ==
    /\ t \in Handlers /\ handler[t].at = "idle" /\ disk[p] # 0
    /\ Enter(t, "checked", "quarantine", p, 0)
    /\ UNCHANGED <<fileVars, vaultVars>>

\* To disable an entry of a startup folder is to quarantine its file.
AskDisable(t, p) ==
    /\ t \in Handlers /\ handler[t].at = "idle" /\ disk[p] # 0
    /\ Enter(t, "checked", "startup", p, 0)
    /\ UNCHANGED <<fileVars, vaultVars>>

\* The poll takes a row that a rule with auto_response matches; if the file
\* is gone by now, only the failure is logged.
RespondToFile(p) ==
    /\ handler[AutoThread].at = "idle" /\ p \in suspects
    /\ suspects' = suspects \ {p}
    /\ IF disk[p] # 0 THEN Enter(AutoThread, "checked", "auto", p, 0) ELSE UNCHANGED handler
    /\ UNCHANGED <<userVars, fileEvents, recordVars, failures, vaultVars>>

\* The next name is given to what path p holds; the copy of a content that
\* broke off is a content of its own.
NewName(t, c) ==
    LET n == Len(origin) + 1 IN
    /\ n \in Names
    /\ vault' = [vault EXCEPT ![n] = c]
    /\ origin' = Append(origin, [op |-> handler[t].op, path |-> handler[t].path])

\* The file was hashed meanwhile; what is moved is what the path holds now.
MoveAway(t) ==
    /\ handler[t].at = "checked" /\ disk[handler[t].path] # 0
    /\ NewName(t, disk[handler[t].path])
    /\ disk' = [disk EXCEPT ![handler[t].path] = 0]
    /\ Enter(t, "moved", handler[t].op, handler[t].path, Len(origin)')
    /\ UNCHANGED <<writes, erased, fileEvents, recordVars, suspects, failures,
                   items, named, broken, stray, copied>>

\* The rename is refused, the copy is made; the file is still in its place.
CopyAway(t) ==
    /\ handler[t].at = "checked" /\ disk[handler[t].path] # 0
    /\ NewName(t, disk[handler[t].path])
    /\ copied' = copied \cup {disk[handler[t].path]}
    /\ Enter(t, "copied", handler[t].op, handler[t].path, Len(origin)')
    /\ UNCHANGED <<fileVars, items, named, broken, stray>>

\* The copy breaks off, and half of it stays in the vault.
CopyAwayBreaks(t) ==
    /\ handler[t].at = "checked" /\ disk[handler[t].path] # 0
    /\ writes < MaxWrites /\ writes' = writes + 1 /\ Fails
    /\ NewName(t, writes + 1)
    /\ stray' = stray \cup {Len(origin)'}
    /\ Reach(t, "idle")
    /\ UNCHANGED <<disk, erased, fileEvents, recordVars, suspects, items, named, broken, copied>>
-----------------------------------------------------------------------------
(* restore_quarantined_file *)

\* The route reads the item: there is one, and it was not restored before.
AskRestore(t, n) ==
    /\ t \in Handlers /\ handler[t].at = "idle" /\ items[n] = "kept"
    /\ Enter(t, "found", "restore", origin[n].path, n)
    /\ UNCHANGED <<fileVars, vaultVars>>

\* Fault: whether a file is at the original path is not looked at.
CheckRestoreHalf(t) ==
    /\ handler[t].at = "found"
    /\ Reach(t, IF vault[handler[t].name] # 0 THEN "cleared" ELSE "idle")
    /\ UNCHANGED <<fileVars, vaultVars>>

CheckRestore(t) ==
    /\ handler[t].at = "found"
    /\ Reach(t, IF vault[handler[t].name] # 0 /\ disk[handler[t].path] = 0
                  THEN "cleared" ELSE "idle")
    /\ UNCHANGED <<fileVars, vaultVars>>

\* The move overwrites whatever came to the path since the check; the
\* observer hears of a file that has arrived.
MoveBack(t) ==
    /\ handler[t].at = "cleared" /\ vault[handler[t].name] # 0
    /\ disk' = [disk EXCEPT ![handler[t].path] = vault[handler[t].name]]
    /\ vault' = [vault EXCEPT ![handler[t].name] = 0]
    /\ Observe(handler[t].path, "moved")
    /\ Reach(t, "moved")
    /\ UNCHANGED <<writes, erased, recordVars, suspects, failures, origin, items,
                   named, broken, stray, copied>>

CopyBack(t) ==
    /\ handler[t].at = "cleared" /\ vault[handler[t].name] # 0
    /\ disk' = [disk EXCEPT ![handler[t].path] = vault[handler[t].name]]
    /\ copied' = copied \cup {vault[handler[t].name]}
    /\ Observe(handler[t].path, "created")
    /\ Reach(t, "copied")
    /\ UNCHANGED <<writes, erased, recordVars, suspects, failures, vault, origin, items,
                   named, broken, stray>>

\* Half of the file is on its path, all of it still in the vault.
CopyBackBreaks(t) ==
    /\ handler[t].at = "cleared" /\ vault[handler[t].name] # 0
    /\ writes < MaxWrites /\ writes' = writes + 1 /\ Fails
    /\ disk' = [disk EXCEPT ![handler[t].path] = writes + 1]
    /\ Observe(handler[t].path, "created")
    /\ Reach(t, "idle")
    /\ UNCHANGED <<erased, recordVars, suspects, vaultVars>>
-----------------------------------------------------------------------------
(* Both directions. *)

\* The source is gone, or neither renamed nor copied: the request is refused.
MoveRefused(t) ==
    /\ handler[t].at \in {"checked", "cleared"}
    /\ Reach(t, "idle")
    /\ UNCHANGED <<fileVars, vaultVars>>

Source(h) == IF h.op = "restore" THEN vault[h.name] ELSE disk[h.path]

\* After the copy the source is removed, whatever it holds by now.
RemoveSource(t) ==
    /\ handler[t].at = "copied" /\ Source(handler[t]) # 0
    /\ IF handler[t].op = "restore"
         THEN vault' = [vault EXCEPT ![handler[t].name] = 0] /\ UNCHANGED disk
         ELSE disk' = [disk EXCEPT ![handler[t].path] = 0] /\ UNCHANGED vault
    /\ Reach(t, "moved")
    /\ UNCHANGED <<writes, erased, fileEvents, recordVars, suspects, failures, origin, items,
                   named, broken, stray, copied>>

\* It is gone already or cannot be removed: the request is refused, and the
\* copy stays.
SourceStays(t) ==
    /\ handler[t].at = "copied"
    /\ IF Source(handler[t]) = 0 THEN UNCHANGED failures ELSE Fails
    /\ stray' = IF handler[t].op = "restore" THEN stray ELSE stray \cup {handler[t].name}
    /\ Reach(t, "idle")
    /\ UNCHANGED <<userVars, fileEvents, recordVars, suspects, vault, origin, items, named,
                   broken, copied>>
-----------------------------------------------------------------------------
(* What the callers do after the move. *)

\* Fault: the item is not added to the session.
ItemForgotten(h) == IF h.op = "restore" THEN [items EXCEPT ![h.name] = "restored"] ELSE items

\* The quarantine route alone makes an item; the restore route marks it.
ItemAfter(h) ==
    CASE h.op = "quarantine" -> [items EXCEPT ![h.name] = "kept"]
      [] h.op = "restore"    -> [items EXCEPT ![h.name] = "restored"]
      [] OTHER               -> items

\* log_admin_action commits the item together with its own row; the commit
\* of the event row after it changes nothing that is told of here.
Report(t) ==
    /\ handler[t].at = "moved"
    /\ items' = ItemAfter(handler[t])
    /\ named' = named \cup {handler[t].name}
    /\ Reach(t, "idle")
    /\ UNCHANGED <<fileVars, vault, origin, broken, stray, copied>>

\* The flush or the commit raises: the file stays where it was moved.
ReportFails(t) ==
    /\ handler[t].at = "moved" /\ Fails
    /\ broken' = broken \cup {handler[t].name}
    /\ Reach(t, "idle")
    /\ UNCHANGED <<userVars, fileEvents, recordVars, suspects, vault, origin, items, named,
                   stray, copied>>
-----------------------------------------------------------------------------
Call(t) ==
    \/ MoveAway(t) \/ CopyAway(t) \/ CopyAwayBreaks(t)
    \/ CheckRestore(t) \/ MoveBack(t) \/ CopyBack(t) \/ CopyBackBreaks(t)
    \/ MoveRefused(t) \/ RemoveSource(t) \/ SourceStays(t) \/ Report(t) \/ ReportFails(t)
    \/ (\E p \in Paths : AskQuarantine(t, p) \/ AskDisable(t, p)) \/ (\E n \in Names : AskRestore(t, n))

Files == FileStep /\ UNCHANGED <<vaultVars, handler>>

\* A restore past its check relies on an empty path, a quarantine past its
\* copy on a path that nobody writes.
Relies(h) == h.at = "cleared" \/ (h.at = "copied" /\ h.op # "restore")

\* The history of the paths that are filled under such a call.
WatchRaces ==
    raced' = (raced \/ \E t \in Threads :
        /\ Relies(handler[t]) /\ Relies(handler'[t])
        /\ disk'[handler[t].path] \notin {0, disk[handler[t].path]})

QuarantineNext ==
    /\ Files \/ (\E p \in Paths : RespondToFile(p)) \/ (\E t \in Threads : Call(t))
    /\ WatchRaces

QuarantineSpec == QuarantineInit /\ [][QuarantineNext]_quarantineVars
-----------------------------------------------------------------------------
(* Properties *)

OnDisk(c) == {p \in Paths : disk[p] = c}
InVault(c) == {n \in Names : vault[n] = c}

(***************************************************************************)
(* The agent destroys no file: whatever users wrote and did not delete     *)
(* themselves is on a path or in quarantine, with requests and automatic   *)
(* responses for the same path interleaved at will, moves refused half-way *)
(* and sources that stay - unless a path was filled between a restore's    *)
(* check and its move, or between a quarantine's copy and the removal of   *)
(* its source.  It is in one place only, unless it was copied              *)
(* (quarantine_file and restore_quarantined_file of response/actions.py).  *)
(***************************************************************************)
NothingVanishes ==
    \A c \in 1..writes :
        /\ c \notin copied => Cardinality(OnDisk(c)) + Cardinality(InVault(c)) <= 1
        /\ ~raced => c \in erased \/ OnDisk(c) # {} \/ InVault(c) # {}

Underway(n) == \E t \in Threads : handler[t].at \in {"copied", "moved"} /\ handler[t].name = n

(***************************************************************************)
(* Files and rows agree, however requests overlap, as long as a source can *)
(* be removed and the commit after a move succeeds: every file in          *)
(* quarantine is named by an audit row, what the quarantine route took can *)
(* be restored through its item, an item that says restored has given its  *)
(* file back, and one that does not still has it; and the copy that a      *)
(* refused quarantine left is named by no row, so that no route gives it   *)
(* back (the order of moves and commits in api/routes/response.py).        *)
(***************************************************************************)
FilesMatchItems ==
    \A n \in (1..Len(origin)) \ broken : ~Underway(n) =>
        IF n \in stray THEN vault[n] # 0 /\ items[n] = "none" /\ n \notin named
        ELSE /\ vault[n] # 0 =>
                    n \in named /\ (origin[n].op = "quarantine" => items[n] = "kept")
             /\ items[n] = "kept" <=> vault[n] # 0 /\ origin[n].op = "quarantine"
             /\ items[n] = "restored" => vault[n] = 0
=============================================================================
