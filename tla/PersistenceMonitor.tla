-------------------------- MODULE PersistenceMonitor --------------------------
(***************************************************************************)
(* The persistence monitor: at every poll it asks its backends, one after  *)
(* the other, for the autostart entries they can enumerate - registry      *)
(* values, startup folders, tasks, services - and tells the entries that   *)
(* the poll before did not hold.                                           *)
(*                                                                         *)
(* An entry is a place and the command it runs, so one that is changed is  *)
(* a new one.  Entries come, change and go (installers, the user, the      *)
(* disable-persistence action) while the backends are read; a backend may  *)
(* raise, lose entries, or fail to read their commands.                    *)
(***************************************************************************)
EXTENDS Naturals, Sequences, FiniteSets

CONSTANTS
    Places,          \* where an autostart entry may be: location and name
    BackendOf,       \* the backend that enumerates each place
    Removable,       \* the places whose entries the response action takes away
    Commands,        \* what an entry may run
    None,            \* no entry, or a command that could not be read
    MaxInstalls,     \* bound: how often one entry is installed
    MaxBadReads        \* bound: reads that go wrong

ASSUME PersistenceMonitorAssumption ==
    /\ None \notin Commands /\ Removable \subseteq Places
    /\ BackendOf \in [Places -> {BackendOf[p] : p \in Places}]
    /\ MaxInstalls \in Nat \ {0} /\ MaxBadReads \in Nat

VARIABLES
    installed,   \* by place: the command, or None
    installs,    \* history: how often each entry was installed
    round,       \* what the poll thread does
    toAsk,       \* the backends that the snapshot has still to ask
    found,       \* the snapshot being taken
    perKnown,    \* PersistenceMonitor._known
    steady,      \* history: entries unchanged since the round began
    around,      \* history: entries that were there at some time since then
    misread,     \* history: places that this round did not read right
    perTold,     \* history: how often each entry was put on the queue
    perSeeded,   \* history: the entries that the seed made known
    badReads       \* how many reads went wrong

roundVars == <<round, toAsk, found, perKnown, misread, perTold, perSeeded, badReads>>
persistenceVars == <<installed, installs, steady, around, roundVars>>

Backends == {BackendOf[p] : p \in Places}

Entries == Places \X (Commands \cup {None})

PersistenceTypeOK ==
    /\ installed \in [Places -> Commands \cup {None}]
    /\ installs \in [Entries -> 0..MaxInstalls]
    /\ round \in {"new", "seeding", "waiting", "polling"}
    /\ toAsk \subseteq Backends
    /\ {found, perKnown, steady, around, perSeeded} \subseteq SUBSET Entries
    /\ misread \subseteq Places
    /\ perTold \in [Entries -> Nat]
    /\ badReads \in 0..MaxBadReads

PersistenceInit ==
    /\ installed \in [Places -> Commands \cup {None}]
    /\ installs = [e \in Entries |-> IF e[2] # None /\ installed[e[1]] = e[2] THEN 1 ELSE 0]
    /\ round = "new" /\ toAsk = {} /\ found = {} /\ perKnown = {} /\ perSeeded = {}
    /\ steady = {} /\ around = {} /\ misread = {} /\ badReads = 0
    /\ perTold = [e \in Entries |-> 0]

Present == {e \in Entries : e[2] # None /\ installed[e[1]] = e[2]}
-----------------------------------------------------------------------------
(* The entries change. *)

Install(p, c) ==
    /\ installed[p] # c /\ installs[<<p, c>>] < MaxInstalls
    /\ installed' = [installed EXCEPT ![p] = c]
    /\ installs' = [installs EXCEPT ![<<p, c>>] = @ + 1]
    /\ steady' = {e \in steady : e[1] # p}
    /\ around' = around \cup {<<p, c>>}
    /\ UNCHANGED roundVars

Remove(p) ==
    /\ installed[p] # None
    /\ installed' = [installed EXCEPT ![p] = None]
    /\ steady' = {e \in steady : e[1] # p}
    /\ UNCHANGED <<installs, around, roundVars>>

\* disable_persistence_entry deletes a registry value and quarantines a file
\* of a startup folder; a service or a task it leaves listed as it is.
Disable(p) ==
    /\ installed[p] # None
    /\ IF p \in Removable THEN Remove(p) ELSE UNCHANGED persistenceVars
-----------------------------------------------------------------------------
(* The poll thread: _run, _snapshot, _poll_once. *)

BeginRound ==
    /\ round \in {"new", "waiting"}
    /\ round' = IF round = "new" THEN "seeding" ELSE "polling"
    /\ toAsk' = Backends
    /\ found' = {} /\ misread' = {}
    /\ steady' = Present /\ around' = Present
    /\ UNCHANGED <<installed, installs, perKnown, perTold, perSeeded, badReads>>

Of(b) == {e \in Present : BackendOf[e[1]] = b}

\* The backend raises on its way: it loses some of its entries, or all of
\* them; or it reads no command for some.
GoesWrong(b) ==
    /\ badReads < MaxBadReads /\ badReads' = badReads + 1
    /\ toAsk' = toAsk \ {b}
    /\ \E wrong \in SUBSET Of(b) : \E blank \in SUBSET wrong :
           /\ found' = found \cup (Of(b) \ wrong) \cup {<<e[1], None>> : e \in blank}
           /\ misread' = misread \cup {e[1] : e \in wrong}

AskBackend(b) ==
    /\ b \in toAsk
    /\ \/ /\ toAsk' = toAsk \ {b}
          /\ found' = found \cup Of(b)
          /\ UNCHANGED <<misread, badReads>>
       \/ GoesWrong(b)
    /\ UNCHANGED <<installed, installs, round, perKnown, perTold, perSeeded, steady, around>>

SeedEntries ==
    /\ round = "seeding" /\ toAsk = {}
    /\ round' = "waiting"
    /\ perKnown' = found /\ perSeeded' = found
    /\ UNCHANGED <<installed, installs, steady, around, toAsk, found, misread, perTold, badReads>>

\* Fault: what is known is never forgotten.
KeptKnown == perKnown \cup found

\* self._known = current.
NowKnown == found

TellEntries ==
    /\ round = "polling" /\ toAsk = {}
    /\ round' = "waiting"
    /\ perTold' = [e \in Entries |-> IF e \in found \ perKnown THEN perTold[e] + 1 ELSE perTold[e]]
    /\ perKnown' = NowKnown
    /\ UNCHANGED <<installed, installs, steady, around, toAsk, found, misread, perSeeded, badReads>>
-----------------------------------------------------------------------------
PersistenceNext ==
    \/ \E p \in Places : Remove(p) \/ Disable(p) \/ \E c \in Commands : Install(p, c)
    \/ BeginRound \/ SeedEntries \/ TellEntries
    \/ \E b \in Backends : AskBackend(b)

PersistenceSpec == PersistenceInit /\ [][PersistenceNext]_persistenceVars
-----------------------------------------------------------------------------
(* Properties *)

(***************************************************************************)
(* An entry that was there, unchanged, during a whole poll has been told   *)
(* or was there from the start, unless it was misread in this very poll:   *)
(* a backend that fails hides no entry of another.  One that was away      *)
(* during a whole poll is no longer known, and will be told when it is     *)
(* back.  And no entry is told more often than it was installed and reads  *)
(* went wrong (_snapshot and _poll_once of persistence_monitor.py).        *)
(***************************************************************************)
PersistenceIsTold ==
    /\ round = "waiting" =>
           /\ \A e \in steady : e[1] \notin misread =>
                  e \in perKnown /\ (e \in perSeeded \/ perTold[e] > 0)
           /\ \A e \in perKnown : e \in around \/ e[2] = None
    /\ \A e \in Entries : perTold[e] <= installs[e] + badReads
=============================================================================
