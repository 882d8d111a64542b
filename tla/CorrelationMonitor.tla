-------------------------- MODULE CorrelationMonitor --------------------------
(***************************************************************************)
(* monitors/correlation_monitor.py over the events table: the poll thread  *)
(* with its two passes (condition rules behind an id cursor, scenarios     *)
(* over a time window), the auto-response that commits in the middle of a  *)
(* poll, the other threads that insert rows, the retention thread that     *)
(* deletes them, and stops, crashes and restarts of the agent, which       *)
(* forget everything that is not in the database.                          *)
(*                                                                         *)
(* A row's id is what SQLite gives it (database/models.py:34, an INTEGER   *)
(* PRIMARY KEY without AUTOINCREMENT): one more than the largest id in the *)
(* table.  Ids can therefore come back; uid is the row's identity over the *)
(* whole history and exists only here.                                     *)
(***************************************************************************)
EXTENDS CorrelationEngine, FiniteSets

CONSTANTS
    Kinds,          \* kinds of rows the other monitors insert
    LateKinds,      \* ... that may bear an earlier time than that of their commit
    Matching,       \* kinds for which a condition rule matches
    Responding,     \* ... whose rule names an auto_response that fires
    Scenarios,      \* the loaded scenarios
    Retention,      \* events_days, in clock ticks
    Outcomes,       \* how an action can end: see Respond
    MaxIdle,        \* bound: ticks without any new row while the agent runs
    MaxOff,         \* bound: ... while it is down
    MaxLag,         \* bound: ticks from the time a row bears to its commit
    MaxFailures,    \* bound: queries, flushes and commits that raise (database is locked)
    MaxRecords,     \* bound: rows inserted by the other threads
    MaxClock,       \* bound: ticks
    MaxRuns         \* bound: starts of the agent

ASSUME CorrelationMonitorAssumption ==
    /\ Responding \subseteq Matching /\ LateKinds \subseteq Kinds
    /\ Outcomes \subseteq {"done", "refused", "error"}
    /\ {Retention, MaxIdle, MaxOff, MaxLag} \subseteq Nat
    /\ {MaxFailures, MaxRecords, MaxClock, MaxRuns} \subseteq Nat

\* Rows written by the agent itself: log_admin_action and auto_response.py:91.
AdminAction == "admin_action"
AutoResponse == "auto_response"
AllKinds == Kinds \cup {AdminAction, AutoResponse}

\* A scenario as the loader lets it pass (rules_loader.py:129, min_length=1);
\* rows have no pid here, so none of its steps asks for lineage.
Scenario == [steps : Seq([kinds : SUBSET AllKinds, lineage : {FALSE}]) \ {<<>>}, window : Nat]

ASSUME ScenariosAssumption == Scenarios \in Seq(Scenario)

VARIABLES
    clock,
    events,     \* the rows of the events table
    inserted,   \* history: rows ever inserted
    recorded,   \* history: ... by the other threads
    run,        \* history: starts so far
    pc,         \* the poll thread
    cursor,     \* _last_event_id
    correlated, \* _correlated_event_ids
    todo,       \* new_events not yet examined
    pending,    \* the session: alerts, incidents and rows not committed yet, and
                \* when the scenario query flushed the rows
    alerts,     \* alerts[u]: committed alerts about row u
    responses,  \* history: attempts of the action for row u, up to one more than the runs
    audited,    \* audited[u]: the admin_action rows that tell of them
    incidents,  \* committed incidents
    failed,     \* history: queries, flushes and commits that have raised
    again,      \* history: rows that such a failure puts before the rules again
    unlogged,   \* history: rows with an attempt that was cut off before its audit row
    watched,    \* history: rows inserted since this run read its start cursor
    examined    \* history: rows this run has put to the condition rules

db == <<clock, events, inserted, recorded>>
memory == <<cursor, correlated, todo>>
results == <<alerts, responses, audited, incidents>>
ghosts == <<run, watched, failed, again, unlogged>>
vars == <<db, pc, memory, pending, results, ghosts, examined>>

\* A row that is responded to leads to two more, in every run that replays it.
MaxRows == (1 + 2 * MaxRuns) * MaxRecords
Uids == 1..MaxRows
Row == [id : Uids, uid : Uids, kind : AllKinds, ts : 0..MaxClock]
Incident == [run : 1..MaxRuns, uids : SUBSET Uids, ids : SUBSET Uids]
Nothing == [alerts |-> {}, incidents |-> <<>>, rows |-> <<>>, at |-> 0]
Session == [alerts : SUBSET Uids, incidents : Seq(Incident), rows : Seq({AutoResponse}),
            at : 0..MaxClock]

TypeOK ==
    /\ clock \in 0..MaxClock /\ inserted \in 0..MaxRows /\ recorded \in 0..MaxRecords /\ run \in 0..MaxRuns
    /\ events \subseteq Row
    /\ pc \in {"down", "starting", "idle", "rules", "commit"} \cup Outcomes
    /\ cursor \in 0..inserted /\ correlated \subseteq Uids
    /\ todo \in SUBSET Row
    /\ pending \in Session /\ incidents \in Seq(Incident)
    /\ {alerts, audited} \subseteq [Uids -> 0..MaxRuns]
    /\ responses \in [Uids -> 0..(MaxRuns + 1)]
    /\ {watched, examined, again, unlogged} \subseteq SUBSET Uids
    /\ failed \in 0..MaxFailures

Init ==
    /\ clock = 0 /\ inserted = 0 /\ recorded = 0 /\ run = 0
    /\ events = {} /\ incidents = <<>>
    /\ pc = "down"
    /\ cursor = 0 /\ correlated = {} /\ todo = {} /\ pending = Nothing
    /\ alerts = [u \in Uids |-> 0]
    /\ responses = alerts /\ audited = alerts
    /\ watched = {} /\ examined = {} /\ failed = 0
    /\ again = {} /\ unlogged = {}
-----------------------------------------------------------------------------
(* The events table. *)

LargestId == IF events = {} THEN 0 ELSE (CHOOSE r \in events : \A s \in events : s.id <= r.id).id

\* The rows the table gets when rows of these kinds are flushed at time ts.
NewRows(kinds, ts) ==
    {[id |-> LargestId + i, uid |-> inserted + i, kind |-> kinds[i], ts |-> ts] :
        i \in 1..Len(kinds)}

\* The bound on the rows leaves room for these.
HasRoom(kinds) == inserted + Len(kinds) <= MaxRows

InsertRows(kinds, ts) ==
    /\ HasRoom(kinds)
    /\ events' = events \cup NewRows(kinds, ts)
    /\ inserted' = inserted + Len(kinds)
    /\ watched' = IF pc \in {"down", "starting"} THEN watched
                  ELSE watched \cup (inserted + 1)..(inserted + Len(kinds))

\* A flushed, uncommitted insert holds SQLite's only write lock.
WriteLockFree == pc = "commit" => pending = [Nothing EXCEPT !.at = pending.at]

\* Time passes, also while the agent is down.
Tick ==
    /\ clock < MaxClock
    /\ events # {} =>
           \E r \in events : clock - r.ts < IF pc = "down" THEN MaxOff ELSE MaxIdle
    /\ clock' = clock + 1
    /\ UNCHANGED <<events, inserted, recorded, pc, memory, pending, results, ghosts, examined>>

\* Another thread of the agent commits a row (QueueWriter, API handlers).  It
\* bears the time of its flush, or an earlier one: a row of a log the time of
\* the log record, a row of a batch that took long the time it was flushed.
Record(kind, ts) ==
    /\ pc # "down" /\ WriteLockFree
    /\ recorded < MaxRecords
    /\ recorded' = recorded + 1
    /\ ts <= clock /\ clock <= ts + MaxLag
    /\ kind \in LateKinds \/ ts = clock
    /\ InsertRows(<<kind>>, ts)
    /\ UNCHANGED <<clock, run, failed, again, unlogged, pc, memory, pending, results, examined>>

\* database/retention.py: rows past their retention go; alerts never do.
Prune ==
    /\ pc # "down" /\ WriteLockFree
    /\ events' = {r \in events : r.ts + Retention >= clock}
    /\ UNCHANGED <<clock, inserted, recorded, pc, memory, pending, results, ghosts, examined>>
-----------------------------------------------------------------------------
(* The agent's life and the start of the poll thread. *)

\* The next row of the fetched list, which is ordered by id.
NextRow == CHOOSE r \in todo : \A s \in todo : r.id <= s.id

DatabaseFails == failed < MaxFailures /\ failed' = failed + 1

\* The row whose action has been attempted, up to its audit row.
InHand == IF pc \in Outcomes THEN {NextRow.uid} ELSE {}

Start ==
    /\ pc = "down" /\ run < MaxRuns
    /\ run' = run + 1
    /\ pc' = "starting"
    /\ cursor' = 0 /\ correlated' = {} /\ todo' = {} /\ pending' = Nothing
    /\ watched' = {} /\ examined' = {}
    /\ UNCHANGED <<db, results, failed, again, unlogged>>

\* "Start from the current max event id so we never replay old history";
\* if the query raises, the cursor stays 0, below everything there is.
ReadStart ==
    /\ pc = "starting"
    /\ \/ cursor' = LargestId /\ UNCHANGED <<failed, again>>
       \/ cursor' = 0 /\ DatabaseFails /\ again' = again \cup {r.uid : r \in events}
    /\ pc' = "idle"
    /\ UNCHANGED <<db, correlated, todo, pending, results, run, watched, unlogged, examined>>

\* A stop between two polls, or a crash at any point.
Down ==
    /\ pc # "down"
    /\ pc' = "down"
    /\ cursor' = 0 /\ correlated' = {} /\ todo' = {} /\ pending' = Nothing
    /\ watched' = {} /\ examined' = {}
    /\ unlogged' = unlogged \cup InHand
    /\ UNCHANGED <<db, run, results, failed, again>>
-----------------------------------------------------------------------------
(* _poll_once *)

\* Fault: >= for >: the last row seen is fetched again.
FetchFromCursor ==
    /\ pc = "idle"
    /\ todo' = {r \in events : r.id >= cursor}
    /\ pc' = "rules"
    /\ UNCHANGED <<db, cursor, correlated, pending, results, ghosts, examined>>

\* The rows newer than the cursor, all at once.  (A query that raises ends the
\* poll before it did anything.)
Fetch ==
    /\ pc = "idle"
    /\ todo' = {r \in events : r.id > cursor}
    /\ pc' = "rules"
    /\ UNCHANGED <<db, cursor, correlated, pending, results, ghosts, examined>>

\* Fault: the cursor moves to the newest row of the table, not of the list.
ExaminedToNewest(r) ==
    /\ examined' = examined \cup {r.uid}
    /\ cursor' = LargestId
    /\ todo' = todo \ {r}

\* Fault: the cursor is the next id to read, but still compared with >.
ExaminedPlusOne(r) ==
    /\ examined' = examined \cup {r.uid}
    /\ cursor' = r.id + 1
    /\ todo' = todo \ {r}

Examined(r) ==
    /\ examined' = examined \cup {r.uid}
    /\ cursor' = r.id
    /\ todo' = todo \ {r}

\* The session once row r has its alert in it.
Alerting(r) == [pending EXCEPT !.alerts = @ \cup {r.uid}]

\* A row no rule matches, or whose rule only raises an alert.
Examine ==
    /\ pc = "rules" /\ todo # {}
    /\ NextRow.kind \notin Responding
    /\ pending' = IF NextRow.kind \in Matching THEN Alerting(NextRow) ELSE pending
    /\ Examined(NextRow)
    /\ UNCHANGED <<db, pc, correlated, results, ghosts>>

\* What a commit adds to the tables; rows are inserted in the order given.
CommitAnd(pend, kinds, ts) ==
    /\ alerts' = [u \in Uids |-> IF u \in pend.alerts THEN alerts[u] + 1 ELSE alerts[u]]
    /\ incidents' = incidents \o pend.incidents
    /\ InsertRows(pend.rows \o kinds, ts)

\* The session is rolled back and the poll is over; memory stays as it is.
Abandon ==
    /\ DatabaseFails
    /\ pending' = Nothing /\ todo' = {}
    /\ pc' = "idle"

\* A row whose rule responds: its action is attempted, and done, refused with
\* a ResponseActionError, or left by another exception.
Respond(outcome) ==
    /\ pc = "rules" /\ todo # {}
    /\ NextRow.kind \in Responding
    /\ responses' = [responses EXCEPT ![NextRow.uid] = IF @ <= MaxRuns THEN @ + 1 ELSE @]
    /\ pc' = outcome
    /\ UNCHANGED <<db, memory, pending, alerts, audited, incidents, ghosts, examined>>

\* log_admin_action commits the whole session, the row's alert included,
\* before the cursor moves; a success then adds a row of its own.
Logged ==
    /\ pc \in Outcomes \ {"error"}
    /\ CommitAnd(Alerting(NextRow), <<AdminAction>>, clock)
    /\ audited' = [audited EXCEPT ![NextRow.uid] = @ + 1]
    /\ pending' = [Nothing EXCEPT !.rows = IF pc = "done" THEN <<AutoResponse>> ELSE <<>>]
    /\ Examined(NextRow)
    /\ pc' = "rules"
    /\ UNCHANGED <<clock, recorded, run, failed, again, unlogged, correlated, responses>>

\* That commit raises; the row will be fetched again.
NotLogged ==
    /\ pc \in Outcomes \ {"error"}
    /\ Abandon
    /\ again' = again \cup InHand /\ unlogged' = unlogged \cup InHand
    /\ UNCHANGED <<db, run, watched, cursor, correlated, results, examined>>

\* An exception other than ResponseActionError is only logged to the file.
Raised ==
    /\ pc \in Outcomes /\ pc = "error"
    /\ pending' = Alerting(NextRow)
    /\ unlogged' = unlogged \cup InHand
    /\ Examined(NextRow)
    /\ pc' = "rules"
    /\ UNCHANGED <<db, run, watched, failed, again, correlated, results>>

MaxWindow ==
    LET W == {Scenarios[i].window : i \in 1..Len(Scenarios)}
    IN  IF W = {} THEN 0 ELSE CHOOSE w \in W : \A v \in W : v <= w

\* The query flushes the session's own rows first, and returns them too.
Visible == events \cup NewRows(pending.rows, clock)

Recent == {r \in Visible : r.ts + MaxWindow >= clock}

Matches == FindScenarioMatches(Scenarios, Recent, correlated, <<>>)

IncidentOf(chain) ==
    [run |-> run, uids |-> {chain[i].uid : i \in 1..Len(chain)}, ids |-> ChainIds(chain)]

\* The session with the incidents of these matches, and its rows flushed.
Reporting(matches) ==
    [pending EXCEPT !.incidents = [i \in 1..Len(matches) |-> IncidentOf(matches[i].chain)],
                    !.at = clock]

\* Fault: the matched ids are not remembered.
CorrelateForgetful ==
    /\ pc = "rules" /\ todo = {} /\ HasRoom(pending.rows)
    /\ pending' = Reporting(Matches)
    /\ pc' = "commit"
    /\ UNCHANGED <<db, memory, results, ghosts, examined>>

\* _run_correlation: the ids are remembered before anything is committed.
Correlate ==
    /\ pc = "rules" /\ todo = {} /\ HasRoom(pending.rows)
    /\ correlated' = correlated \cup UNION {ChainIds(Matches[i].chain) : i \in 1..Len(Matches)}
    /\ pending' = Reporting(Matches)
    /\ pc' = "commit"
    /\ UNCHANGED <<db, cursor, todo, results, ghosts, examined>>

\* Fault: the poll's session is closed without a commit.
CommitOmitted ==
    /\ pc = "commit"
    /\ pending' = Nothing
    /\ pc' = "idle"
    /\ UNCHANGED <<db, memory, results, ghosts, examined>>

Commit ==
    /\ pc = "commit"
    /\ CommitAnd(pending, <<>>, pending.at)
    /\ pending' = Nothing
    /\ pc' = "idle"
    /\ UNCHANGED <<clock, recorded, run, failed, again, unlogged, memory, responses, audited,
                   examined>>

\* The flush before the scenario query, the flush of an incident or the
\* final commit raises; the cursor and the remembered ids keep their values.
RollBack ==
    /\ pc = "commit" \/ (pc = "rules" /\ todo = {})
    /\ Abandon
    /\ UNCHANGED <<db, run, watched, again, unlogged, cursor, correlated, results, examined>>
-----------------------------------------------------------------------------
Poll ==
    \/ ReadStart \/ Fetch \/ Examine
    \/ (\E o \in Outcomes : Respond(o)) \/ Logged \/ Raised
    \/ Correlate \/ Commit

Next ==
    \/ Poll \/ NotLogged \/ RollBack
    \/ Start \/ Down
    \/ Tick \/ Prune
    \/ \E k \in Kinds, ts \in 0..MaxClock : Record(k, ts)

SafeSpec == Init /\ [][Next]_vars

\* The poll thread keeps being scheduled as long as it lives.
Spec == SafeSpec /\ WF_vars(Poll)
-----------------------------------------------------------------------------
(* Properties *)

RowsOf(uids) == {r \in events : r.uid \in uids}

(***************************************************************************)
(* "every event newer than the last one seen gets checked against the      *)
(* loaded YAML condition rules" (correlation_monitor.py:10-11): a row      *)
(* inserted while the monitor watches is above the cursor until it was     *)
(* examined.                                                               *)
(***************************************************************************)
NoneSkipped == \A r \in RowsOf(watched \ examined) : r.id > cursor

\* The database has answered every query, flush and commit so far.
Calm == failed = 0

(***************************************************************************)
(* "a match creates an Alert" (correlation_monitor.py:12): once the poll   *)
(* is over, every matching row it examined has its alert.  A commit that   *)
(* raises breaks it: the cursor has passed the row.                        *)
(***************************************************************************)
MatchesAreAlerted ==
    \A r \in RowsOf(examined) :
        r.kind \in Matching => alerts[r.uid] > 0 \/ r.uid \in pending.alerts

\* ... and nothing else does: not a refused or raising action, which commits
\* in the middle of the poll or not at all, and not a restart.
AlertedWhenCalm == Calm => MatchesAreAlerted

\* No row is alerted twice, nor its action attempted twice, restarts included,
\* but a row that a failing commit or start query puts before the rules again.
AlertedOnce ==
    \A u \in Uids \ again : alerts[u] + (IF u \in pending.alerts THEN 1 ELSE 0) <= 1

RespondedOnce == \A u \in Uids \ again : responses[u] <= 1

(***************************************************************************)
(* auto_response.py:13-15, "Every attempt -- success or failure -- is      *)
(* logged the same way a manual response action is (agent/audit.py + an    *)
(* Event)": an attempt has its row of audit, or is just about to get it,   *)
(* unless the agent's end, an exception of the action or the failure of    *)
(* that very commit cut it off.                                            *)
(***************************************************************************)
AttemptsAreAudited ==
    \A u \in Uids \ unlogged :
        responses[u] = audited[u] + (IF u \in InHand THEN 1 ELSE 0)

(***************************************************************************)
(* Two incidents of one run never share an event, whatever fails between   *)
(* them ("never reused by another match ... or a prior one").              *)
(***************************************************************************)
IncidentsAreDisjoint ==
    LET all == incidents \o pending.incidents IN
    \A i, j \in 1..Len(all) :
        i # j /\ all[i].run = all[j].run => all[i].uids \cap all[j].uids = {}

(***************************************************************************)
(* "a match creates one Incident" (correlation_monitor.py:15): an event is *)
(* withdrawn from correlation only by an incident that is or will be there.*)
(***************************************************************************)
CorrelatedIsReported ==
    LET all == incidents \o pending.incidents IN
    Calm => \A id \in correlated :
                \E i \in 1..Len(all) : all[i].run = run /\ id \in all[i].ids

\* "so we never replay old history on startup" (correlation_monitor.py:110), but
\* after a start query that raised, and then nothing that was not there.
NoReplay == pc # "down" => {r.uid : r \in todo} \cup examined \subseteq watched \cup again

(***************************************************************************)
(* Through failing polls, pruning and restarts the cursor neither passes a *)
(* row that was not examined nor goes back to history.                     *)
(***************************************************************************)
CursorIsSound == NoneSkipped /\ NoReplay

(***************************************************************************)
(* One row leads to one alert and one action at most, although an action's *)
(* audit row commits the middle of a poll that may then be rolled back,    *)
(* and although the agent may end between the action and that commit; and  *)
(* no attempt but one that was cut off there is without its row of audit.  *)
(***************************************************************************)
ActedOnce == AlertedOnce /\ RespondedOnce /\ AttemptsAreAudited

\* export_incident: the rows of the table whose ids the incident remembers.
Exported(incident) == {r \in events : r.id \in incident.ids}

(***************************************************************************)
(* An incident outlives its events and remembers only their ids: what is   *)
(* exported later, by whatever run, is never another event under an id     *)
(* that has come back.                                                     *)
(***************************************************************************)
ExportsAreTrue ==
    \A i \in 1..Len(incidents) : \A r \in Exported(incidents[i]) : r.uid \in incidents[i].uids

(***************************************************************************)
(* No event is in two incidents of a run, and none is withdrawn without    *)
(* one, although the ids are remembered before the incident is committed;  *)
(* and an incident's ids stay those of its events.                         *)
(***************************************************************************)
IncidentsAreSound == IncidentsAreDisjoint /\ CorrelatedIsReported /\ ExportsAreTrue

(***************************************************************************)
(* A matching row inserted while the monitor watches is alerted, unless    *)
(* the agent goes down, the database fails or the row is pruned first.     *)
(***************************************************************************)
EventuallyAlerted ==
    \A u \in Uids :
        (\E r \in RowsOf(watched) : r.uid = u /\ r.kind \in Matching)
        ~> (alerts[u] > 0 \/ pc = "down" \/ RowsOf({u}) = {} \/ ~Calm)
=============================================================================
