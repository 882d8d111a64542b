# SentinelGuard: TLA+ models and proofs

This directory holds TLA+ specifications of SentinelGuard's core, the TLC
configurations that check them on small instances, and TLAPS proofs of what
matters most. Source paths below are relative to the repository root (`src/`
in `PROJECT.json`). `PROJECT.json` lists the runs, the mutants that show each
property can fail, the lines behind every definition, the hazards and the
theorems.

## The system

SentinelGuard is a local endpoint monitor. One Python process, the *agent*,
hosts a FastAPI application on a loopback port, seven monitor threads and a
SQLite database (WAL, one writer at a time, 5 s busy timeout). A PySide6 GUI
hosts an agent on a thread of its own, or connects to one that runs. Browser
extensions ask the agent about every navigation.

| Component | State it keeps | Operations | Hard behaviour |
|---|---|---|---|
| `monitors/queue_worker.py` | an in-memory queue, a stop event, a batch | `put`, batch, flush, stop with a final flush | shutdown order, joins that time out, failed transactions |
| process, network, persistence monitors | the last snapshot | snapshot, diff, `put`; batch writes | reused pids, failed snapshots, poll thread dying silently |
| `monitors/log_monitor.py` | a time cursor per channel | query since the cursor, `put` | cursor cut to seconds, failing readers |
| `monitors/file_monitor.py` | watchdog's observer | events into the queue | files that change while hashed |
| `monitors/correlation_monitor.py` | an id cursor, the set of correlated ids | condition rules over new rows, scenarios over a window, auto-response | memory that runs ahead of the transaction, commits in the middle of a poll, restarts, pruning |
| `detection/correlation_engine.py` | none | greedy matching of scenarios | order, window, lineage, disjointness |
| `response/`, `agent/audit.py` | the quarantine directory, processes | kill, quarantine, restore, disable, audit rows | an effect outside the database before the row that tells of it, moves that stop half-way |
| `database/retention.py` | none | deletes old rows | ids that come back, incidents that outlive their events |
| `detection/risk.py`, `config/settings.py` | the band limits | score to band, band to floor | limits that are equal |
| `api/routes/websites.py` | allowlist and blocklist | check, lookup, four decisions | handlers of a thread pool, with no lock between a SELECT and its commit |
| `agent/server.py`, `gui/` | the port, a handle, two buttons | find, start, stop an agent | several processes at once, agents that stall, exits |
| `api/security.py` | the token file | load, verify, rotate | readers during a rewrite |
| `browser_extensions/` | the badge | check on navigation, decisions in the popup, redirects | late answers, timeouts, refusals |

*How they interact.* The polling monitors and the file monitor put
observations on the queue of their `QueueWriter`, which stores them in the
`events` table, one transaction per batch. API handlers add `events` rows too.
The correlation monitor reads `events` only, and writes alerts and incidents;
through auto-response it kills or quarantines and commits in the middle of its
own poll. The retention monitor deletes from `events` under everybody's feet.
The lifespan of `api/app.py` starts and stops all monitors; uvicorn runs that
lifespan before it binds the port. The GUI talks to the agent over HTTP, and to
the server thread it hosts through `AgentController`.

What makes each component correct is stated as the properties below; what can
go wrong at which line is the list of hazards in `PROJECT.json`.

## The modules

| Module | Models | State and actions |
|---|---|---|
| `EventPipe` | what a monitor may expect of the queue and writer behind it | `outcome[i]`, what became of the i-th observation. `Accept`, `Settle` (a run of the oldest shares one outcome) |
| `QueueWriter` | `queue_worker.py` with the monitor's poll thread and the owner that starts and stops both | one variable per thread's position, both stop events, the queue, the batch. One action per step a thread takes between two points where another may run: `GetFirst`, `GetTimesOut`, `FillBatch`, `Flush`, `DrainOne`, `JoinPoller`, `JoinWriter`, ... |
| `ProcessMonitor` | `process_monitor.py`: a walk of the process table that processes come and go under, and its comparison with the walk before | a pid's *lives*, the walk, `known`, what was told and the rows of it. `BeginWalk`, `ReadProcess` (a creation time may be unreadable), `Seed`, `Compare`, `WriteRow` |
| `NetworkMonitor` | `network_monitor.py`: polls, the writer with the resolver's pool and cache inside its transaction, `stop()` | `SeedConnections`, `PollConnections` (a snapshot may be denied), `TakeBatch`, `FindCached`, `Submit`, `Answered`, `TimedOut`, `Committed`, `RollBack`, `JoinPolls`, `JoinNetWriter`, `ShutResolver`, ... |
| `PersistenceMonitor` | `persistence_monitor.py`: one backend asked after the other, and the comparison; `disable_persistence_entry` | `BeginRound`, `AskBackend` (which may raise, lose any of its entries or read no command), `SeedEntries`, `TellEntries`, `Install`, `Remove`, `Disable` |
| `LogMonitor` | `log_monitor.py`: the time cursor of each channel and the query in whole seconds | `WriteRecord`, `PollChannel` (which may fail half-way or leave a record out), `StartLog`, `StopLog` |
| `MCMonitors` | the four monitors above | `focus`, the one that runs |
| `FileMonitor` | `file_monitor.py`: the observer's events, the writer's repeated reads | what each path holds, the queue, the event in hand, the latest row. `WriteFile`, `DeleteFile`, `TakeFileEvent`, `ReadFile`, `CommitFile`, `DropFile` |
| `Quarantine` | `quarantine_file`, `restore_quarantined_file`, their routes and the automatic responses, over `FileMonitor`, which it EXTENDS: what is restored is heard of by the observer, and what a rule matches is quarantined by the monitor's thread | the vault, the items, the audit rows, each thread's place in its call. `AskQuarantine`, `AskDisable`, `RespondToFile`, `AskRestore`, `CheckRestore`; `shutil.move` as a rename (`MoveAway`, `MoveBack`), as a copy (`CopyAway`, `CopyBack`) and the removal of its source (`RemoveSource`), or as what it leaves when it raises (`MoveRefused`, `CopyAwayBreaks`, `CopyBackBreaks`, `SourceStays`); `Report`, `ReportFails` |
| `KillProcess` | `kill_process` over the lives of `ProcessMonitor`, which it EXTENDS | one record per request. `Ask`, `LookUp`, `Terminate`, `WaitTimesOut`, `ForceKill`, `ForceTimesOut`, `FindGone`, `LogKill` |
| `TokenStore` | `security.py` and the rotation route | the file, each request's place. `Arrive`, `Verify`, `Handle`, `Truncate`, `Fill`, `Respond`, `Restart` |
| `Navigation` | the extension's `background.js`, blocked page and popup, for one tab | the tab, one record per navigation, one per decision in the popup, what the agent blocks, the badge. `Navigate`, `Answer`, `NoAnswer`, `SetBadge`, `Finish`, `Override`, `Pair`, `Decide`, `Heard`, `ShowBlocked` |
| `MCRequests` | the five modules above | `focus`, what is looked at |
| `CorrelationEngine` | `correlation_engine.py` as functions: `IsDescendant`, `StepMatches`, `TakeStep`, `FindScenarioMatch`, `FindScenarioMatches`; next to them `IsChain`, what a chain is without saying how it is found | no state |
| `MCCorrelationEngine` | all small logs, in insertion order, against three scenarios | `log`, `ancestry` |
| `CorrelationMonitor` | `correlation_monitor.py`, `auto_response.py`, `audit.py` and the pruning of `events` | the table, the poll thread's position, `_last_event_id`, `_correlated_event_ids`, the session (`pending`), the committed tables, and histories. `Fetch`, `Examine`, `Respond` (the action), `Logged`, `NotLogged` or `Raised` (what becomes of its audit row), `Correlate`, `Commit`, `RollBack`, `Record`, `Prune`, `Start`, `ReadStart`, `Down`. It EXTENDS `CorrelationEngine` and calls it in `Correlate` |
| `MCCorrelationMonitor` | its kinds, rules and scenarios | |
| `RiskBands` | `risk.py`, the check on the limits, and the two places that merge a declared severity with a computed risk | `limits`, `events`, `alert` |
| `MCDetection` | `MCCorrelationEngine` and `RiskBands`, which share nothing | `focus`, the one that is looked at |
| `WebsiteDecisions` | `websites.py`, for one domain | `allow` (rows with ids and expiries), `blocked`, one record per pool thread. Each SELECT and each commit is a step |
| `AgentLifecycle` | `server.py`, `agent_controller.py`, `app.py`, `dashboard.py` for several processes | each attempt's stage, `should_exit`, the main and worker thread of each window, `handle`, `reachable`, the enabled buttons, and as a history the attempts that lived when Start was clicked (`replaced`) |
| `*Proofs` | the theorems about the module they extend | |

Definitions whose comment starts with "Fault:" are not part of any
specification: each is a definition with a plausible bug, and is used only as a
mutant.

### Abstractions worth knowing

- `QueueWriter`: an observation is the number of its `put`. `write_batch` is
  one step that succeeds or fails. The thread may die in a poll (nobody catches
  there), and any `join` may come back early.
- The monitors' own modules leave threads and batches to `QueueWriter`: what
  is told is written in order, or dropped with its batch. `NetworkMonitor`
  keeps the writer, because the resolver lives in its transaction.
- `ProcessMonitor`: a life's creation time is its number, 0 when it could not
  be read. `process_iter` lists the pids first and reads them one by one; the
  world may change between any two reads.
- `NetworkMonitor`, `LogMonitor`: a snapshot, or a query, and the puts that
  follow it are one step: nothing else touches what they read.
- `FileMonitor`: a content is the number of the write that made it, a batch
  stands for each of its events, and the watched directories are empty at
  first, because the monitor never examines what nobody touches.
- `NetworkMonitor`: every statement of the writer's transaction, and its commit,
  may raise; the batch is then gone (`RollBack`, counted in `netFailed`). The
  query for the second row of a batch flushes the first, and from there to the
  end of the transaction SQLite's write lock is held, look-ups included
  (`HoldsWriteLock`).
- `Quarantine`: a name in the quarantine directory is fresh. `shutil.move`
  renames in one step, or copies and removes the source in two, between which
  everybody else may act; the copy may break off, and what it leaves is a
  content of its own; the source may be gone or may stay. A handler that fails
  between its move and its commit stands for an agent that ends there too.
- `Navigation`: the popup's decision is posted, and the agent may accept it,
  refuse it, or rule without its answer getting back. Any JSON counts as an
  answer, as in the code, which does not look at `resp.ok`.
- `TokenStore`: tokens are numbers in the order in which they are made;
  `write_text` is two steps, the truncation and the content.
- `MCMonitors` and `MCRequests` run one part at a time. The parts of
  `MCMonitors` share nothing but the database, which they append to; those of
  `MCRequests` share no state either (`Quarantine` contains the file monitor,
  and `KillProcess` the processes, that they interact with). A behaviour of
  all is therefore one of each, and the product would only repeat it.
- `CorrelationMonitor`: a row's event type, process and risk are one *kind*; at
  most one rule matches a kind. Ids are what SQLite gives without
  AUTOINCREMENT, `uid` is the identity they lack. A failing query, flush or
  commit is a step that rolls back; a flushed row holds the write lock. `Down`
  is both a stop and a crash, at any point: only the database survives. An
  automatic action, the commit of its audit row and the row of a success are
  steps apart. The scenario query flushes the session's own rows first and
  returns them too (`Visible`), with ids that a rollback takes back; a row of
  `LateKinds` may bear a time up to `MaxLag` ticks before its commit, as a row of
  a log does, so that the order of times is not that of ids. A failed query,
  flush or commit is counted in `failed`, the rows it puts before the rules a
  second time in `again`, the attempts that were cut off before their audit row
  in `unlogged`.
- `WebsiteDecisions`: SQLAlchemy sends no UPDATE when the values are those
  loaded, and raises when the row of an UPDATE is gone; both matter and are
  modelled. The heuristic may say either thing.
- `AgentLifecycle`: the 5 s a caller gives its own attempt are taken to be
  enough for that attempt to have bound the port or failed; every wait may give
  up on an agent that is bound but does not answer. The dashboard's `/status`
  may fail while `/health` is answered (401, 500, an unreadable token file).

## The runs

Every property has a mutant in `PROJECT.json` that breaks it under its own run.

| Run | Question and result | Bounds and why they are enough |
|---|---|---|
| `QueueWriter` | With failing writes, late joins and a dying process, every observation stays in exactly one place and in order, batches stay bounded, a stop without late joins settles everything and is followed by silence, the pair implements `EventPipe`; everything settles, both threads end | 5 observations, batches of 2: two full batches and a remainder, before and after the stop. The safety part is proved for all values |
| `CorrelationMonitor_safety` | `CursorIsSound`: no row inserted while the monitor watches falls below the cursor unexamined, and no history is replayed. While the database answers, `AlertedWhenCalm`: every match is alerted. `ActedOnce`: no row is alerted or responded to twice but one in `again`, restarts included, and every attempt has its audit row but one in `unlogged`. `IncidentsAreSound`: no event in two incidents of a run, none withdrawn without one, and no export of an incident lists a foreign event under an id that came back (an off-by-one in the pruning breaks this within the bounds) | 2 scenarios, one of which matches rows of an automatic response; 2 rows of other threads (and up to 8 that they lead to), 2 starts of the agent, 4 instants, retention of two, documents up to one tick late. A chain needs two rows, a repetition one row and a second poll or run, a late row a retention longer than its lag; one failing query, flush or commit in a history, which can come at any of them. 1 million states |
| `CorrelationMonitor_live` | A matching row is alerted in the end, unless the agent goes down or the row is pruned first | 2 rows, one start, one scenario |
| `Detection` | `MatchesAreSound`, `PlainChainsAreFound`: a report is a chain, reports never share an event in one call or across two, and without lineage, ties or a short window every chain is found. `RiskCoversSeverity`, `StrictBandsAgree`: an alert's risk is never in a band below its severity; under strictly increasing limits both name the same band | all logs of 3 events over 3 kinds and 4 pids; scenarios of 2 and 3 steps; a plain, a lone and a cyclic process map; every accepted configuration over the scores 0..5 (five bands fit), 2 events. Proved for logs of every length and for all limits |
| `WebsiteDecisions` | A block for good is final whatever overlaps it (`BlockIsFinal`); a temporary permission ends (`OnceEnds`); without overlap every lasting ruling is final and the lists agree (`SerialRulings`) | 2 threads, 3 instants, ids up to 3: enough for a row to be read, expired, renewed and deleted by id. All are proved for any number of threads |
| `Monitors` | `LivesAreTold`: reports are the lives of the processes, also of reused pids, and no row shows the integrity of an earlier bearer. `ToldPerOpening`: a denied snapshot costs one repeated report per connection. `CleanStopKeepsAll`: a stop whose joins end in time leaves every report committed or in a transaction that the database refused, no other batch pays for that one, and the resolver is not shut down under the writer. `LookUpsNeverStall`: hung look-ups delay what is told and do not stop it, and the write lock is always released again. `PersistenceIsTold`: a backend that fails hides no entry of another, what is away for a round is told again. `LogIsComplete`: a full read leaves nothing untold, a restart replays nothing, and repeats end with the next second | one pid with 3 lives and one unreadable creation time (a reuse, and a second one after it); 2 connections, one denied snapshot, one failed transaction, a pool and a cache of one, so that both are full; 2 places in 2 backends, one bad read of any subset; one channel, 3 records over 5 ticks of half a second, one failing query, 2 starts |
| `Requests` | `KillEndsItsTarget`: only the process that was checked is signalled, success means that it is gone. `RecordsCatchUp`: the latest row of a file at rest was read from what it holds and nothing else. `NothingVanishes`: the agent destroys no content, unless a path was filled under a restore or between a quarantine's copy and the removal of its source, and only a content that was copied is in two places. `FilesMatchItems`: vault, items and audit rows agree unless a commit after a move failed, and the copy that a refused quarantine leaves is named by no row. `RotationHolds`: a replaced token is refused for good, the file ends up with a token, the newest unless a rewrite was met. `BlockedIsLeft`: when all checks are over the tab is not on a page blocked in time, and a blocked page is one that the agent blocked or the user in the popup | 2 kill requests over 2 pids of 3 lives, one life protected; one path, 2 writes, 2 names and one failure (of a move, a removal, a commit or a read), once with the writer's 3 reads and one thread (`focus = "scanned"`), once with two threads (`"overlapping"`); 2 callers and 4 tokens; 3 navigations over 2 pages and one decision in the popup. 2.6 million states |
| `AgentLifecycle_safety` | `AgentsAreOwned`: a window loses an agent it hosts only to a click on Start while that agent lives, and a window alone with an agent that answers every request is never offered that click. `NoZombie`: whatever `ensure_agent_running` returns, its attempt was handed over or told to stop | one window, one `--serve` process, 3 attempts each: one to lose, one that replaces it, one that finds the port taken |
| `AgentLifecycle_race` | When all start at once, one agent remains and every window is connected to it | two windows and a `--serve` process |

`MaxIdle` and `MaxOff` of `CorrelationMonitor` say how long the table may get no
new row while the agent runs and while it is down, `MaxLag` how much earlier than
its commit the time is that a row bears. The passing runs keep both sums with
`MaxLag` within the retention; the run `CorrelationMonitor_idreuse` is one where
the agent is off for longer.

The bounds of `Monitors` and `Requests` are those at which every action fires
and every hazard of theirs happens: a reused pid, a full pool, a full cache, a
query cut to the second of an older record, a transaction refused under a
look-up, a commit that fails after a move, a copy whose source stays, two requests
for one file, a redirect of the popup that hits another page. `MaxMisreads` is 0 in `Requests`: `kill_process`
reads no creation time of the monitor's.

Three runs end in a counterexample. Each checks what the repository says of
itself, and has an entry under `findings`:

- `CorrelationMonitor_idreuse`: the agent was off longer than `events_days`; the
  cursor is read, then retention empties the table, and new rows get ids below
  the cursor. They are never checked. (The export of an old incident would then
  list them too: `ExportsAreTrue` holds only where ids do not come back.)
- `WebsiteDecisions_final`: the cleanup of an expired row deletes the row that
  "Always allow" has just made permanent.
- `AgentLifecycle_owner`: one `/status` request fails while `/health` is answered.
  Start is enabled over a held handle, the click finds the agent, and `start()`
  overwrites the handle with none: the window has lost the agent it started,
  although the handle is called the "single source of truth" of that.

Divergences seen while modelling that no run shows as a violation; where a
property names the condition, it is in brackets:

- A commit that raises after the id cursor has passed a row loses its alert for
  good (`Calm` in `AlertedWhenCalm`), and the events of an incident that is rolled
  back stay withdrawn (`Calm` in `CorrelatedIsReported`). A commit of an audit row
  that raises puts its row before the rules again, and so does a start query that
  raises: the action is attempted twice (`again` in `ActedOnce`). An automatic
  action that raises something else than `ResponseActionError`, an agent that ends
  between the action and its audit row, and the failure of that commit leave an
  attempt that no audit row tells of (`unlogged`), against the doc of
  `auto_response.py`.
- A transaction of the network monitor that fails takes its whole batch with it
  (`netFailed` in `CleanStopKeepsAll` and `LookUpsNeverStall`). Its writer holds
  the database's write lock over the look-ups of its later rows; that others then
  wait longer than their 5 s is not stated by a property, only that the lock is
  released in the end.
- Equal limits pass a check whose message says "strictly increasing"; then risk
  and severity can name different bands.
- "Allow once" on a blocklisted domain changes nothing.
- The greedy search misses a chain when its first step also occurred too early
  for the window.
- A late join loses what is put after the final flush (`netLate`, `late`).
- A snapshot that was denied becomes the known set, and everything is told
  again (`failures` in `ToldPerOpening`). A look-up that times out is cached as
  "no name" and keeps its thread of the pool: look-ups that hang starve it.
- Records of one second are read again at every poll until a later one comes
  (`Second` in `LogIsComplete`).
- Two restores to one path, or a user's file that appears after the check,
  overwrite each other, and what comes to a path between a quarantine's copy and
  the removal of its source is deleted (`raced` in `NothingVanishes`). A move that
  copies and cannot remove its source is answered with 400 and leaves the content
  in two places; after a quarantine the copy in the vault has neither an item nor
  an audit row (`copied`, `stray`). A restored file that a
  rule matches is quarantined again, without an item, so that no button gives
  it back; so is a file of a startup folder that was disabled. The hash in the
  item is computed before the move and may be of another content.
- A rotation whose audit commit fails leaves a token in force that nobody was
  told (`untold` in `RotationHolds`). Two rotations that meet can leave the
  token of either in the file, and a request that reads it between truncation
  and content makes a third (`collided`).
- A decision that comes after the user moved on redirects the new page. The
  popup shows the blocked page whatever the agent answered, a refusal included.
- An attempt that loses the race for the port can be handed over as the agent
  that answered; a window whose agent stalls, or only fails a `/status`, can start
  a second attempt and forget the first (`replaced` and `Alone` in
  `AgentsAreOwned`).
- `alerts_days` is a setting that `prune_old_records` never reads.

The properties that carry such a condition say nothing of the behaviours it
excludes beyond what the list above tells. Two hazards have no property: which order of
events the times they bear preserve, and lineage through reused pids;
`PROJECT.json` says why of each.

### Fairness

`QueueWriter!Spec`: the writer thread, the end of a poll, the end of the poll
loop and the two joins are weakly fair. The writer never blocks longer than the
flush interval, a poll walks a finite snapshot, joins have a timeout. Nothing
obliges anyone to start, poll, put or stop. `CorrelationMonitor!Spec`: the poll
thread is weakly fair, which a daemon thread with a timed wait is; `RollBack`,
`Down` and `Prune` are not. `AgentLifecycle!Spec`: server threads and the
running calls of a window are weakly fair; clicks, launches and stalls are not.
`NetworkFairness`: the network monitor's writer is weakly fair, because each of
its steps is bounded by the timeout of a look-up; neither that a look-up
answers nor that it ever ends is assumed.

## The proofs

TLAPS proves, for every value of the constants that the named assumptions allow,
every safety property the passing runs check. The assumptions (`...Assumption`
in each module) say that bounds are naturals, that sets of different things do
not meet and that the markers for "none" are no values; TLC evaluates them in
the runs. The one further hypothesis is named below. Each proof is an inductive
invariant, held against one action at a time.

- `QueueWriterProofs`: type correctness, `InOrderOnce`, `BatchBounded`,
  `CleanStopSettlesAll`, `QuietAfterCleanStop` and that the pair implements
  `EventPipe`. The inductive invariant adds to `InOrderOnce` what the positions
  of the three threads say about each other: once the owner has passed a join
  in time, the poll thread has ended, and once the writer has ended after the
  stop event nothing is queued that was put before it looked. The refinement
  needs that the history is the numbers 1, 2, ... in order, so that the oldest
  pending observation is the first of the batch.
- `CorrelationEngineProofs`: what the two loops of `correlation_engine.py`
  return, for scenarios and logs of every length. `MatchIsChain`: a report is a
  chain; `MatchesAreChainsOfTheRest`: those of one call share no event;
  `GreedFindsPlainChains`: without lineage and ties, and in a window that holds
  the whole log, a chain is found if there is one, because after each step the
  greedy chain is nowhere later than any other. Then the two properties of the run
  (`MatchesStaySound`, `PlainChainsStayFound`). The loops are recursive
  functions, and TLAPS cannot instantiate the induction theorems of its
  library; the inductions are over *sets* of numbers instead (`UpTo`), from the
  principle of the least number, which the library states without an operator
  parameter (`WFMin`).
- `CorrelationMonitorProofs`: types, `AlertedWhenCalm`, `ActedOnce`,
  `CursorIsSound` and `IncidentsAreSound`. The invariant relates the cursor to
  the table: ids and identities name one row each (`Table`), what the poll
  thread holds lies above the cursor and its session is empty between polls
  (`Polling`), a row above the cursor has been alerted in no poll of this run
  (`Counts`), nor in any run unless a failing commit or start query put it
  before the rules again (`Once`), it came after the start or by such a failure
  (`Fresh`), and the rows of an incident stay in `_correlated_event_ids`
  (`Withdrawn`), also those that only the session sees: between the scenario
  query and the commit the table is read with the rows the query flushed
  (`Tabled`, `Last`). What `Correlate` reports comes from the theorems about the
  engine. These hold whatever the retention is. That nothing
  is skipped (`CursorStaysSound`) and that no export lists a foreign event
  (`IncidentsStaySound`) need that ids do not come back, and are proved under
  `RetentionOutlasts`: rows are kept for no less than the table can go without a
  new one, while the agent runs or is down, and the time by which a row's own
  time can precede its commit together (`MaxIdle + MaxLag`, `MaxOff + MaxLag`).
  Then the newest row is never pruned, ids equal identities (`Lasting`, which
  also bounds how far times and ids may disagree) and the fetched list has no gap (`NoGap`). The code does not
  ensure the hypothesis: the run `CorrelationMonitor_idreuse` is what happens
  without it. The parts that do not need it are theorems of their own
  (`HistoryIsNotReplayed`, `EventsAreReportedOnce`).
- `MonitorsProofs`: the four polling monitors, and at the end `MonitorsTypeOK`
  and all five properties of the specification that the run checks, whose steps
  are steps of one monitor and stutters of the others.
  *Processes* (`LivesAreTold`): of a pid nothing of a later life is told than
  the one that was seen (`LivesAscend`); while every creation time could be
  read, a life that can still be seen and is not known has not been told, and
  one that a finished walk missed has ended (`SeenInTime`).
  *Network* (types, `ToldPerOpening`, `CleanStopKeepsAll`): `InStore` gives each
  connection that is open and not known one report on credit, so that an
  opening pays for a report and a denied snapshot for one per connection.
  `Accounted` counts what is told as committed, refused with its transaction, in
  the transaction, in the batch or queued. `StopOrder` says what the owner's
  progress implies of both threads while no join was late.
  *Persistence* (`PersistenceIsTold`): reports are paid for by installations and
  bad reads, with one in advance while a report is due (`ReportsArePaid`), and
  what was there for the whole round has been found in each backend that has
  answered (`SteadyIsSeen`).
  *Logs* (`LogIsComplete`): while records come in order, what the cursor has
  passed was told or could not be parsed (`PassedIsTold`).
- `RequestsProofs`: at the end `RequestsTypeOK` and all six properties of the
  specification that the run checks.
  *Kill* (`KillEndsItsTarget`): a pid's lives only grow, and from its look-up on
  a request's life is one the pid has had, is not protected and not the agent's:
  a life that has ended never comes back, which makes "gone" stable.
  *Token* (`RotationHolds`): a token on its way to the file was never in it
  (`WritersFresh`), the file's token is not revoked, and without collisions
  rewrites are alone and write the newest token.
  *Quarantine* (`NothingVanishes`, `FilesMatchItems`): a content that was not
  copied is in one place at most, and a name not given yet holds nothing
  (`OnePlace`); none is lost while every restore past its check has its path to
  itself and every quarantine past its copy has nobody write to its source
  (`Kept`, which is what `raced` ends): what such a call is about to overwrite or
  remove is then nothing, or has its copy. A restore works on an item that there
  is (`CallsOK`). Between a quarantine's move or copy, or a restore's move, and
  the row of it one thread at most is there for the name (`MovedOnly`); after it
  the rows tell where the file is (`RowTells`), unless the commit failed; a name
  that a refused quarantine left stays without rows (`LeftAlone`). Two restores
  of one item both get past the check, but only one empties the vault, which is
  why the rows survive them.
  *File monitor* (`RecordsCatchUp`, of `Quarantine`'s specification, which moves
  files under the monitor's reads): a path of which nothing is queued is being
  read from the content it has, or its latest row is from it (`CaughtUp`).
  *Navigation* (`BlockedIsLeft`): a call whose answer is out has no outcome
  (`Unanswered`), a blocked tab has a check or a shown decision of the popup that
  says so (`BlockStandsForBlock`), the popup shows the blocked page only for the
  decisions that block (`OnlyBlocksAnswered`), and when the newest call is over
  and said "block" the tab is on the blocked page (`NewestRedirects`): nothing
  leads off a blocked page but a navigation, which makes a newer call.
- `RiskBandsProofs`: `RiskCoversSeverity` and `StrictBandsAgree`. The invariant relates each
  stored event's severity to its risk by `SeverityForRisk`, and characterises
  that operator by the limits on both sides.
- `WebsiteDecisionsProofs`: type correctness, `BlockIsFinal`, `OnceEnds` and
  `SerialRulings`. The invariant needs that a ruling nobody overlapped is alone
  on its way (`Exclusion`), that a block in force stands in the table and no
  check that can be held to it is past the blocklist (`BlockInForce`), and that
  no expiry, stored or in hand, exceeds the last "Allow once" (`Expiries`). For
  `SerialRulings` (`Serial`): while nothing overlaps one thread is at work, the
  allowlist has one row at most and a lasting permission in force is that row
  (`Agreed`), and what the thread has read is what the tables hold (`Serves`).
- `AgentLifecycleProofs`: `TypeOK` with one owner of the port, `AgentsAreOwned`
  and the action property `NoZombie`, for any number of windows and servers. An
  attempt that is dropped has been told to stop because a call reaches its
  last step only through `Recheck` (`InHand`). An attempt that lives is the one
  in hand, the one held, or one over which Start was clicked (`KeepsItsAgent`,
  whoever else is on the machine). A window that is alone with an agent that
  answers every request knows its agent (`KnowsItsAgent`): nothing lives before
  it makes an attempt, while the attempt is starting nothing serves, so that an
  answer is the attempt's own, and Start is offered only when nothing lives.
  Being alone is never regained, which leaves the steps of other processes
  nothing to prove for that part.

Constants bound the counters of the models; the proofs take them as any natural
number, so the bounds of the runs play no part in them.

Only model-checked: liveness (`EverythingSettles`, `ThreadsEnd`,
`EventuallyAlerted`, `RaceSettles`, `LookUpsNeverStall`), which rests on
fairness and `ENABLED` and is out of the prover's reach here. `GreedFindsPlainChains` says nothing of scenarios with lineage,
ties or a short window, where greed does miss chains.

## Plan

1. `EventPipeline`: monitors, writers and the correlation monitor composed, the
   abstract promise being "an observation is stored, then examined, then
   alerted", with the order of timestamps and the map of processes that reused
   pids blur; and its refinement, proved.
2. An abstract specification of the website decisions that `WebsiteDecisions`
   implements while requests do not overlap.
3. `Retention` of incidents; the marking of false positives.

Runs that share nothing are merged under a `focus`, with fault conditions kept
as history variables, so that each run stays one question.

## Not modelled, and why

The detectors (`detection/*_analysis.py`, `indicators.py`, `entropy.py`,
`lolbins.py`, `reputation.py`, `yara_engine.py`) score strings without state:
their verdict is nondeterministic here. The rule engine's text matching and
the rule files are a constant of `CorrelationMonitor`. The CORS and origin
checks and the token's permissions on disk guard no state. GUI widgets, logging, the command line,
schemas, read-only routes, installer and rule texts hold no control the
properties tell apart.
