---------------------------- MODULE ProcessMonitor ----------------------------
(***************************************************************************)
(* The process monitor: it seeds a table of known processes, then compares *)
(* a new walk of the process table with it at every poll, tells what began *)
(* and what ended, and its writer turns what was told into rows.           *)
(*                                                                         *)
(* Processes come and go during a walk, and a pid may be given to another  *)
(* process at any time.  A life is a pair of a pid and the number of the   *)
(* process that bears it; its creation time is that number.  The queue     *)
(* between the poll thread and the writer is QueueWriter's pipe: rows are  *)
(* written in the order in which they were told.                           *)
(***************************************************************************)
EXTENDS Naturals, Sequences, FiniteSets

CONSTANTS
    Pids,        \* the pids that processes come and go under
    MaxLives,    \* bound: processes that bear one pid, one after the other
    MaxMisreads  \* bound: creation times that psutil could not read

ASSUME ProcessMonitorAssumption == MaxLives \in Nat \ {0} /\ MaxMisreads \in Nat

VARIABLES
    alive,      \* the life that bears each pid now, 0 for none
    lives,      \* how many lives each pid has had
    walk,       \* what the poll thread does
    listed,     \* history: the lives at the moment the last walk began
    unread,     \* pids of the walk that have not been read yet
    current,    \* the snapshot being taken
    known,      \* ProcessMonitor._known
    seeded,     \* history: the lives that the seed made known
    told,       \* history, by pid: what _poll_once put on the queue
    rows,       \* by pid: the rows of what was told
    misreads    \* how many creation times could not be read

worldVars == <<alive, lives>>
walkVars == <<walk, listed, unread, current, known, seeded, told, misreads>>
processVars == <<worldVars, walkVars, rows>>

Life == 1..MaxLives

\* A _ProcInfo: the life, and its create_time (0 when unreadable); or none.
Unseen == [life |-> 0, stamp |-> 0]
Seen == {Unseen} \cup {[life |-> l, stamp |-> s] : l \in Life, s \in 0..MaxLives}

ProcessTypeOK ==
    /\ {alive, lives, listed, seeded} \subseteq [Pids -> 0..MaxLives]
    /\ \A p \in Pids : alive[p] \in {0, lives[p]}
    /\ walk \in {"new", "seeding", "waiting", "polling"}
    /\ unread \subseteq Pids
    /\ {current, known} \subseteq [Pids -> Seen]
    /\ told \in [Pids -> Seq([status : {"running", "terminated"}, life : Life])]
    /\ rows \in [Pids -> Seq([status : {"running", "terminated"}, life : Life,
                              integrity : 0..MaxLives])]
    /\ misreads \in 0..MaxMisreads

ProcessInit ==
    /\ lives \in [Pids -> 0..1]
    /\ alive = lives
    /\ walk = "new" /\ unread = {} /\ misreads = 0
    /\ listed = [p \in Pids |-> 0] /\ seeded = listed
    /\ current = [p \in Pids |-> Unseen] /\ known = current
    /\ told = [p \in Pids |-> <<>>] /\ rows = told
-----------------------------------------------------------------------------
(* Processes start and end. *)

Spawn(p) ==
    /\ alive[p] = 0 /\ lives[p] < MaxLives
    /\ lives' = [lives EXCEPT ![p] = @ + 1]
    /\ alive' = [alive EXCEPT ![p] = lives[p] + 1]
    /\ UNCHANGED <<walkVars, rows>>

Exit(p) ==
    /\ alive[p] # 0
    /\ alive' = [alive EXCEPT ![p] = 0]
    /\ UNCHANGED <<lives, walkVars, rows>>
-----------------------------------------------------------------------------
(* The poll thread: _run, _snapshot and _poll_once. *)

\* process_iter lists the pids first ...
BeginWalk ==
    /\ walk \in {"new", "waiting"}
    /\ walk' = IF walk = "new" THEN "seeding" ELSE "polling"
    /\ listed' = alive
    /\ unread' = {p \in Pids : alive[p] # 0}
    /\ current' = [p \in Pids |-> Unseen]
    /\ UNCHANGED <<worldVars, known, seeded, told, misreads, rows>>

\* ... and reads each: one that is gone by then is left out.
ReadProcess(p) ==
    /\ p \in unread
    /\ unread' = unread \ {p}
    /\ \/ current' = [current EXCEPT ![p] = [life |-> alive[p], stamp |-> alive[p]]]
          /\ UNCHANGED misreads
       \/ /\ alive[p] # 0 /\ misreads < MaxMisreads
          /\ current' = [current EXCEPT ![p] = [life |-> alive[p], stamp |-> 0]]
          /\ misreads' = misreads + 1
    /\ UNCHANGED <<worldVars, walk, listed, known, seeded, told, rows>>

\* The seed makes known what runs already, and tells nothing.
Seed ==
    /\ walk = "seeding" /\ unread = {}
    /\ walk' = "waiting"
    /\ known' = current
    /\ seeded' = [p \in Pids |-> current[p].life]
    /\ UNCHANGED <<worldVars, listed, unread, current, told, misreads, rows>>

\* Fault: the creation time is not compared.
NewsByPidOnly(old, new) ==
    IF new # Unseen /\ old = Unseen
      THEN <<[status |-> "running", life |-> new.life]>>
    ELSE IF new = Unseen /\ old # Unseen
      THEN <<[status |-> "terminated", life |-> old.life]>>
    ELSE <<>>

\* What a poll tells of one pid: of a reused pid the new life alone.
News(old, new) ==
    IF new # Unseen /\ (old = Unseen \/ old.stamp # new.stamp)
      THEN <<[status |-> "running", life |-> new.life]>>
    ELSE IF new = Unseen /\ old # Unseen
      THEN <<[status |-> "terminated", life |-> old.life]>>
    ELSE <<>>

Compare ==
    /\ walk = "polling" /\ unread = {}
    /\ walk' = "waiting"
    /\ told' = [p \in Pids |-> told[p] \o News(known[p], current[p])]
    /\ known' = current
    /\ UNCHANGED <<worldVars, listed, unread, current, seeded, misreads, rows>>
-----------------------------------------------------------------------------
(* The writer: _write_one. *)

\* The integrity level is looked up by the pid: it is that of the life that
\* bears it now, if there is one and its token can be opened.
IntegrityLevel(p, status) == IF status = "running" THEN {0, alive[p]} ELSE {0}

\* What was told becomes a row; a new process is looked at only now.
WriteRow(p) ==
    /\ Len(rows[p]) < Len(told[p])
    /\ LET news == told[p][Len(rows[p]) + 1]
       IN \E i \in IntegrityLevel(p, news.status) :
              rows' = [rows EXCEPT ![p] =
                  Append(@, [status |-> news.status, life |-> news.life, integrity |-> i])]
    /\ UNCHANGED <<worldVars, walkVars>>
-----------------------------------------------------------------------------
ProcessNext ==
    \/ \E p \in Pids : Spawn(p) \/ Exit(p) \/ ReadProcess(p) \/ WriteRow(p)
    \/ BeginWalk \/ Seed \/ Compare

ProcessSpec == ProcessInit /\ [][ProcessNext]_processVars
-----------------------------------------------------------------------------
(* Properties *)

TimesTold(p, status, l) ==
    Cardinality({i \in 1..Len(told[p]) : told[p][i] = [status |-> status, life |-> l]})

\* What was told last of a pid says that a process bears it.
ToldAsRunning(p) ==
    IF told[p] = <<>> THEN seeded[p] # 0 ELSE told[p][Len(told[p])].status = "running"

(***************************************************************************)
(* What the monitor tells is the lives of the processes.  Always: a reader *)
(* who follows the reports holds the pids that the monitor knows, of a     *)
(* reused pid hears of the lives in their order, and sees in no row the    *)
(* integrity level of an earlier one.  While every creation time could be  *)
(* read: no life is begun or ended twice, an end is told of what was told  *)
(* or seeded only, and so is a life known, and a process that ran during a *)
(* whole walk is known after it, whatever came and went meanwhile          *)
(* (_poll_once of monitors/process_monitor.py).                            *)
(***************************************************************************)
LivesAreTold ==
    \A p \in Pids :
        /\ walk # "new" => ((known[p] # Unseen) <=> ToldAsRunning(p))
        /\ \A i, j \in 1..Len(told[p]) : i < j => told[p][i].life <= told[p][j].life
        /\ \A i \in 1..Len(rows[p]) : rows[p][i].integrity \in {0} \cup rows[p][i].life..MaxLives
        /\ misreads = 0 =>
               /\ \A l \in Life : \A s \in {"running", "terminated"} : TimesTold(p, s, l) <= 1
               /\ \A l \in Life : \/ l = seeded[p]
                                  \/ TimesTold(p, "running", l) = 1
                                  \/ TimesTold(p, "terminated", l) = 0 /\ known[p].life # l
               /\ walk = "waiting" /\ listed[p] # 0 /\ alive[p] = listed[p]
                      => known[p].life = alive[p]

=============================================================================
