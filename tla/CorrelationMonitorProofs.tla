----------------------- MODULE CorrelationMonitorProofs -----------------------
(***************************************************************************)
(* The safety properties of CorrelationMonitor, for any rows, scenarios,   *)
(* outcomes and bounds.  What scenarios find is CorrelationEngineProofs'.  *)
(*                                                                         *)
(* Types, Table, Polling, Counts and the rest are one inductive invariant  *)
(* of the poll thread, the other writers and the restarts; it holds        *)
(* whatever the retention is, ids that come back included.  Lasting, which *)
(* says that they do not, needs a retention that the newest row outlives.  *)
(***************************************************************************)
EXTENDS CorrelationMonitor, CorrelationEngineProofs

Types ==
    /\ clock \in 0..MaxClock /\ inserted \in 0..MaxRows /\ recorded \in 0..MaxRecords
    /\ run \in 0..MaxRuns
    /\ events \subseteq Row /\ todo \subseteq Row
    /\ pc \in {"down", "starting", "idle", "rules", "commit"} \cup Outcomes
    /\ cursor \in 0..inserted /\ correlated \subseteq Uids
    /\ pending \in Session
    /\ {alerts, responses, audited} \subseteq [Uids -> Nat]
    /\ incidents \in Seq(Incident)
    /\ {watched, examined, again, unlogged} \subseteq SUBSET Uids /\ failed \in 0..MaxFailures

\* The rows in the table and those fetched: one row per id and per uid.
Table ==
    /\ \A r \in events \cup todo : r.id <= inserted /\ r.uid <= inserted /\ r.ts <= clock
    /\ \A r, s \in events : r.id = s.id => r = s
    /\ \A r, s \in todo : r.id = s.id => r = s
    /\ \A r, s \in events \cup todo : r.uid = s.uid => r = s

\* Where the poll thread has fetched rows.
Ruling == {"rules"} \cup Outcomes

\* What the poll thread has in hand at each of its steps.
Polling ==
    /\ pc # "down" => run > 0
    /\ pc \notin Ruling => todo = {}
    /\ pc \in Outcomes => todo # {}
    /\ pc \notin Ruling \cup {"commit"} => pending = Nothing
    /\ pc # "commit" => pending.incidents = <<>>
    /\ pc \in {"down", "starting"} =>
           cursor = 0 /\ examined = {} /\ watched = {} /\ correlated = {}
    /\ \A r \in todo : r.id > cursor
    /\ \A u \in watched \cup examined \cup pending.alerts : u <= inserted
    /\ pending.alerts \subseteq examined
    /\ pending.at <= clock /\ (pending.rows # <<>> => inserted > 0)

\* A row above the cursor has nothing yet in this run: one alert a run at most.
Counts ==
    /\ \A u \in Uids :
           /\ alerts[u] <= run /\ audited[u] <= run /\ responses[u] <= MaxRuns + 1
           /\ u > inserted => alerts[u] = 0 /\ audited[u] = 0 /\ responses[u] = 0
           /\ u \in pending.alerts => alerts[u] < run
    /\ pc # "down" =>
           \A r \in events \cup todo :
               r.id > cursor => /\ alerts[r.uid] < run /\ audited[r.uid] < run
                                /\ r.uid \notin pending.alerts

\* ... and in no run at all, unless a failure puts it before the rules again.
Once ==
    /\ \A u \in Uids \ again : /\ alerts[u] <= 1 /\ responses[u] <= 1
                               /\ u \in pending.alerts => alerts[u] = 0
    /\ pc \notin {"down", "starting"} =>
           \A r \in events \cup todo :
               r.id > cursor /\ r.uid \notin again =>
                   alerts[r.uid] = 0 /\ (responses[r.uid] = 0 \/ r.uid \in InHand)

\* What is above the cursor came after the start, or such a failure put it there.
Fresh ==
    pc \notin {"down", "starting"} =>
        /\ \A r \in events \cup todo : r.id > cursor => r.uid \in watched \cup again
        /\ examined \subseteq watched \cup again

AllIncidents == incidents \o pending.incidents

\* The table with the rows that the scenario query flushed, and its last uid.
Tabled == events \cup (IF pc = "commit" THEN NewRows(pending.rows, pending.at) ELSE {})
Last == inserted + (IF pc = "commit" THEN Len(pending.rows) ELSE 0)

\* The rows of this run's incidents are withdrawn from correlation.
Withdrawn ==
    \A i \in 1..Len(AllIncidents) :
        /\ AllIncidents[i].run <= run
        /\ \A u \in AllIncidents[i].uids : u <= Last /\ (i <= Len(incidents) => u <= inserted)
        /\ AllIncidents[i].run = run /\ pc # "down" =>
               \A r \in Tabled : r.uid \in AllIncidents[i].uids => r.id \in correlated

\* The newest row is never pruned: no id comes back.
Lasting ==
    /\ \A r \in events \cup todo : r.id = r.uid
    /\ \A r, s \in events : r.id <= s.id => r.ts <= s.ts + MaxLag
    /\ inserted > 0 => \E r \in events : r.id = inserted /\ clock <= r.ts + Retention
    /\ pc = "commit" /\ pending.rows # <<>> =>
           clock <= pending.at + Retention /\ \A r \in events : r.ts <= pending.at
    /\ \A i \in 1..Len(AllIncidents) : AllIncidents[i].uids = AllIncidents[i].ids

\* The fetched list has no gap.
NoGap == \A r \in todo : \A s \in events : cursor < s.id /\ s.id <= r.id => s \in todo
-----------------------------------------------------------------------------
(* The table, the fetched list and what the scenarios find. *)

(* Rows and counters are numbers. *)
LEMMA Numbers ==
    ASSUME Types
    PROVE  /\ inserted \in Nat /\ clock \in Nat /\ run \in Nat /\ cursor \in Nat
           /\ cursor <= inserted /\ clock <= MaxClock /\ inserted <= MaxRows
           /\ MaxRows \in Nat /\ MaxClock \in Nat /\ MaxRuns \in Nat /\ Retention \in Nat
           /\ \A u \in Uids : u \in Nat
           /\ \A r \in events \cup todo :
                  /\ r \in Row /\ r.id \in Nat /\ r.uid \in Nat /\ r.ts \in Nat
                  /\ r.uid \in Uids /\ r.id \in Uids
<1>1. Retention \in Nat /\ MaxRecords \in Nat /\ MaxClock \in Nat /\ MaxRuns \in Nat
  BY CorrelationMonitorAssumption
<1>2. MaxRows \in Nat
  BY <1>1 DEF MaxRows
<1>3. \A u \in Uids : u \in Nat
  BY <1>2 DEF Uids
<1>4. \A r \in Row : r.id \in Nat /\ r.uid \in Nat /\ r.ts \in Nat /\ r.uid \in Uids /\ r.id \in Uids
  <2> SUFFICES ASSUME NEW r \in Row
               PROVE  r.id \in Nat /\ r.uid \in Nat /\ r.ts \in Nat /\ r.uid \in Uids /\ r.id \in Uids
    OBVIOUS
  <2>1. r.id \in Uids /\ r.uid \in Uids /\ r.ts \in 0..MaxClock
    BY DEF Row
  <2> QED BY <1>1, <1>3, <2>1
<1> QED BY <1>1, <1>2, <1>3, <1>4 DEF Types

(* A failure is counted, and never forgotten. *)
LEMMA Failing ==
    ASSUME Types
    PROVE  /\ failed \in Nat /\ failed <= failed
           /\ DatabaseFails => failed' \in 0..MaxFailures /\ failed <= failed' /\ ~Calm'
<1>1. MaxFailures \in Nat /\ failed \in 0..MaxFailures
  BY CorrelationMonitorAssumption DEF Types
<1> QED BY <1>1 DEF DatabaseFails, Calm

(* SQLite's next id is above every id in the table. *)
LEMMA LargestIdIs ==
    ASSUME Types, Table
    PROVE  LargestId \in 0..inserted /\ \A r \in events : r.id <= LargestId
<1>1. CASE events = {}
  BY <1>1 DEF LargestId, Types
<1>2. CASE events # {}
  <2> DEFINE Gaps == {inserted - r.id : r \in events}
  <2>1. \A r \in events : r.id \in Nat /\ r.id <= inserted
    BY Numbers DEF Table
  <2>2. inserted \in Nat
    BY Numbers
  <2>3. Gaps \in SUBSET Nat /\ Gaps # {}
    BY <1>2, <2>1, <2>2
  <2>4. PICK g \in Gaps : \A h \in Gaps : g <= h
    <3> HIDE DEF Gaps
    <3> QED BY <2>3, LeastNatural
  <2>5. PICK r \in events : g = inserted - r.id
    OBVIOUS
  <2>6. ASSUME NEW s \in events PROVE s.id <= r.id
    <3>1. inserted - s.id \in Gaps
      OBVIOUS
    <3>2. inserted - r.id <= inserted - s.id
      BY <2>4, <2>5, <3>1
    <3>3. r.id \in Int /\ s.id \in Int /\ inserted \in Int
      BY <2>1, <2>2
    <3> QED BY <3>2, <3>3
  <2> DEFINE top == CHOOSE t \in events : \A s \in events : s.id <= t.id
  <2>7. top \in events /\ \A s \in events : s.id <= top.id
    BY <2>6
  <2>8. LargestId = top.id
    BY <1>2 DEF LargestId
  <2> HIDE DEF top
  <2> QED BY <2>1, <2>2, <2>7, <2>8
<1> QED BY <1>1, <1>2

(* The next row of the list has the smallest id. *)
LEMMA NextRowIs ==
    ASSUME Types, Table, todo # {}
    PROVE  /\ NextRow \in todo /\ NextRow \in Row /\ NextRow.id <= inserted
           /\ \A s \in todo : s # NextRow => NextRow.id < s.id
<1> DEFINE Ids == {r.id : r \in todo}
<1>1. \A r \in todo : r.id \in Nat /\ r \in Row /\ r.id <= inserted
  BY Numbers DEF Table
<1>2. PICK i \in Ids : \A j \in Ids : i <= j
  <2>1. Ids \in SUBSET Nat /\ Ids # {}
    BY <1>1
  <2> HIDE DEF Ids
  <2> QED BY <2>1, LeastNatural
<1>3. NextRow \in todo /\ \A s \in todo : NextRow.id <= s.id
  BY <1>2 DEF NextRow
<1>4. \A s \in todo : s # NextRow => s.id # NextRow.id
  BY <1>3 DEF Table
<1> HIDE DEF Ids
<1> QED BY <1>1, <1>3, <1>4

\* A table with rows added: ids above the table's, uids as they never were.
Adds(all, last) ==
    /\ last \in 0..MaxRows /\ inserted <= last
    /\ events \subseteq all /\ all \subseteq Row
    /\ \A r \in all : r.ts <= clock /\ r.id <= last /\ r.uid <= last
    /\ \A r \in all \ events :
           LargestId < r.id /\ inserted < r.uid /\ r.id + inserted = r.uid + LargestId
    /\ \A r, s \in all : r.id = s.id \/ r.uid = s.uid => r = s
    /\ \A u \in (inserted + 1)..last : \E r \in all : r.uid = u

\* Rows have been inserted.
Grown ==
    /\ Adds(events', inserted')
    /\ watched' = IF pc \in {"down", "starting"} THEN watched
                  ELSE watched \cup (inserted + 1)..inserted'

(* New rows have ids above the table's, and no uid returns. *)
LEMMA NewRowsAre ==
    ASSUME Types, Table, NEW kinds \in Seq(AllKinds), NEW ts \in 0..clock, HasRoom(kinds)
    PROVE  /\ Adds(events \cup NewRows(kinds, ts), inserted + Len(kinds))
           /\ \A r \in NewRows(kinds, ts) : r.ts = ts
<1> DEFINE n == Len(kinds)
           row(i) == [id |-> LargestId + i, uid |-> inserted + i, kind |-> kinds[i], ts |-> ts]
           all == events \cup NewRows(kinds, ts)
           last == inserted + n
<1>1. /\ n \in Nat /\ inserted \in Nat /\ LargestId \in Nat /\ LargestId <= inserted
      /\ \A i \in 1..n : kinds[i] \in AllKinds
      /\ ts \in 0..MaxClock /\ ts <= clock
  <2>1. inserted \in Nat /\ LargestId \in 0..inserted /\ clock \in Nat /\ clock <= MaxClock
        /\ MaxClock \in Nat
    BY LargestIdIs, Numbers
  <2> QED BY <2>1
<1>2. last <= MaxRows
  BY DEF HasRoom
<1>3. all = events \cup {row(i) : i \in 1..n}
  BY DEF NewRows
<1>4. MaxRows \in Nat
  BY Numbers
<1>5. last \in 0..MaxRows /\ inserted <= last
  BY <1>1, <1>2, <1>4
<1>6. ASSUME NEW i \in 1..n
      PROVE  /\ row(i) \in Row /\ row(i).id = LargestId + i /\ row(i).uid = inserted + i
             /\ row(i).ts = ts
             /\ LargestId + i \in Nat /\ inserted + i \in Nat
             /\ LargestId + i <= last /\ inserted + i <= last
             /\ LargestId < LargestId + i /\ inserted < inserted + i
  <2>1. /\ LargestId + i \in Nat /\ inserted + i \in Nat
        /\ LargestId + i <= last /\ inserted + i <= last
        /\ LargestId < LargestId + i /\ inserted < inserted + i
        /\ LargestId + i \in 1..MaxRows /\ inserted + i \in 1..MaxRows
    BY <1>1, <1>2, <1>4
  <2>2. kinds[i] \in AllKinds
    BY <1>1
  <2> HIDE DEF n, last
  <2> QED BY <1>1, <2>1, <2>2 DEF Row, Uids
<1>7. \A r \in events : /\ r \in Row /\ r.id \in Nat /\ r.uid \in Nat
                        /\ r.id <= LargestId /\ r.uid <= inserted /\ r.id <= inserted /\ r.ts <= clock
  BY LargestIdIs, Numbers DEF Table
<1>8. /\ \A r \in all \ events : \E i \in 1..n : r = row(i)
      /\ \A r \in NewRows(kinds, ts) : \E i \in 1..n : r = row(i)
      /\ \A i \in 1..n : row(i) \in all
      /\ events \subseteq all
  BY DEF NewRows
<1>9. last = inserted + n
  OBVIOUS
<1> HIDE DEF row, n, all, last
<1>10. ASSUME NEW r \in all \ events
       PROVE  /\ r \in Row /\ r.id <= last /\ r.uid <= last
              /\ LargestId < r.id /\ inserted < r.uid
              /\ r.ts = ts /\ r.id + inserted = r.uid + LargestId
  <2>1. PICK i \in 1..n : r = row(i)
    BY <1>8
  <2> QED BY <1>1, <1>6, <2>1
<1>11. ASSUME NEW r \in all, NEW s \in all, r.id = s.id \/ r.uid = s.uid PROVE r = s
  <2>1. CASE r \in events /\ s \in events
    BY <1>11, <2>1 DEF Table
  <2>2. CASE r \in all \ events /\ s \in all \ events
    <3>1. PICK i \in 1..n : r = row(i)
      BY <1>8, <2>2
    <3>2. PICK j \in 1..n : s = row(j)
      BY <1>8, <2>2
    <3>3. LargestId + i = LargestId + j \/ inserted + i = inserted + j
      BY <1>6, <1>11, <3>1, <3>2
    <3>4. i = j
      BY <1>1, <3>3
    <3> QED BY <3>1, <3>2, <3>4
  <2>3. CASE r \in events /\ s \in all \ events
    BY <1>1, <1>7, <1>10, <1>11, <2>3
  <2>4. CASE s \in events /\ r \in all \ events
    BY <1>1, <1>7, <1>10, <1>11, <2>4
  <2> QED BY <2>1, <2>2, <2>3, <2>4
<1>12. ASSUME NEW r \in all PROVE r \in Row /\ r.ts <= clock /\ r.id <= last /\ r.uid <= last
  <2>1. CASE r \in events
    BY <1>1, <1>5, <1>7, <2>1
  <2>2. CASE r \notin events
    BY <1>1, <1>10, <2>2
  <2> QED BY <2>1, <2>2
<1>13. ASSUME NEW u \in (inserted + 1)..last PROVE \E r \in all : r.uid = u
  <2> DEFINE i == u - inserted
  <2>1. i \in 1..n /\ inserted + i = u
    BY <1>1, <1>9
  <2> HIDE DEF i
  <2>2. row(i).uid = u /\ row(i) \in all
    BY <1>6, <1>8, <2>1
  <2> QED BY <2>2
<1>14. \A r \in NewRows(kinds, ts) : r.ts = ts
  BY <1>6, <1>8
<1>15. Adds(all, last)
  BY <1>5, <1>8, <1>10, <1>11, <1>12, <1>13 DEF Adds
<1> QED BY <1>14, <1>15 DEF all, last, n

(* The steps that insert rows. *)
LEMMA RowsAreNew ==
    ASSUME Types, Table, NEW kinds \in Seq(AllKinds), NEW ts \in 0..clock, InsertRows(kinds, ts)
    PROVE  /\ Grown /\ inserted' = inserted + Len(kinds)
           /\ events' = events \cup NewRows(kinds, ts)
           /\ \A r \in events' \ events : r.ts = ts
<1>1. HasRoom(kinds) /\ inserted' = inserted + Len(kinds) /\ events' = events \cup NewRows(kinds, ts)
  BY DEF InsertRows
<1>2. /\ Adds(events \cup NewRows(kinds, ts), inserted + Len(kinds))
      /\ \A r \in NewRows(kinds, ts) : r.ts = ts
  BY <1>1, NewRowsAre
<1>3. watched' = IF pc \in {"down", "starting"} THEN watched
                 ELSE watched \cup (inserted + 1)..inserted'
  BY DEF InsertRows
<1> QED BY <1>1, <1>2, <1>3 DEF Grown

\* The rows that a step inserts bear this time.
Bear(ts) == \A r \in events' \ events : r.ts = ts

(* What other threads, log_admin_action and the poll's own commit insert. *)
LEMMA StepsThatInsert ==
    ASSUME Types, Table, Polling
    PROVE  /\ \A kind \in Kinds, ts \in 0..MaxClock :
                  Record(kind, ts) => Grown /\ Bear(ts) /\ clock <= ts + MaxLag
           /\ Logged => Grown /\ Bear(clock) /\ inserted' > inserted
           /\ Commit => /\ Grown /\ Bear(pending.at)
                        /\ inserted' = inserted + Len(pending.rows)
                        /\ events' = events \cup NewRows(pending.rows, pending.at)
<1>1. pending.rows \in Seq({AutoResponse}) /\ pending.at \in 0..clock /\ clock \in 0..clock
  <2>1. pending.rows \in Seq({AutoResponse}) /\ pending.at \in 0..MaxClock
    BY DEF Types, Session
  <2>2. clock \in Nat /\ MaxClock \in Nat /\ pending.at <= clock
    BY Numbers DEF Polling
  <2> QED BY <2>1, <2>2
<1>2. AutoResponse \in AllKinds /\ AdminAction \in AllKinds /\ Kinds \subseteq AllKinds
  BY DEF AllKinds
<1>3. pending.rows \in Seq(AllKinds)
  BY <1>1, <1>2
<1>4. ASSUME NEW kind \in Kinds, NEW ts \in 0..MaxClock, Record(kind, ts)
      PROVE  Grown /\ Bear(ts) /\ clock <= ts + MaxLag
  <2>1. <<kind>> \in Seq(AllKinds)
    BY <1>2
  <2>2. ts \in 0..clock /\ clock <= ts + MaxLag /\ InsertRows(<<kind>>, ts)
    BY <1>4, Numbers DEF Record
  <2> QED BY <2>1, <2>2, RowsAreNew DEF Bear
<1>5. ASSUME Logged PROVE Grown /\ Bear(clock) /\ inserted' > inserted
  <2>1. Alerting(NextRow).rows = pending.rows
    BY DEF Alerting, Types, Session
  <2> DEFINE kinds == pending.rows \o <<AdminAction>>
  <2>2. kinds \in Seq(AllKinds) /\ Len(kinds) \in Nat /\ Len(kinds) > 0
    BY <1>2, <1>3
  <2>3. InsertRows(kinds, clock)
    BY <1>5, <2>1 DEF Logged, CommitAnd
  <2> HIDE DEF kinds
  <2>4. Grown /\ Bear(clock) /\ inserted' = inserted + Len(kinds)
    BY <1>1, <2>2, <2>3, RowsAreNew DEF Bear
  <2> QED BY <2>2, <2>4, Numbers
<1>6. ASSUME Commit
      PROVE  /\ Grown /\ Bear(pending.at) /\ inserted' = inserted + Len(pending.rows)
             /\ events' = events \cup NewRows(pending.rows, pending.at)
  <2>1. pending.rows \o <<>> = pending.rows
    BY <1>3
  <2>2. InsertRows(pending.rows, pending.at)
    BY <1>6, <2>1 DEF Commit, CommitAnd
  <2> QED BY <1>1, <1>3, <2>2, RowsAreNew DEF Bear
<1> QED BY <1>4, <1>5, <1>6

(* The scenario query sees the table with the session's own rows added. *)
LEMMA VisibleIs ==
    ASSUME Types, Table, HasRoom(pending.rows)
    PROVE  Adds(Visible, inserted + Len(pending.rows))
<1>1. pending.rows \in Seq(AllKinds)
  <2>1. pending.rows \in Seq({AutoResponse}) /\ AutoResponse \in AllKinds
    BY DEF Types, Session, AllKinds
  <2> QED BY <2>1
<1>2. clock \in 0..clock
  BY Numbers
<1> QED BY <1>1, <1>2, NewRowsAre DEF Visible

(* What the scenarios find are rows it sees, not withdrawn before. *)
LEMMA MatchesAre ==
    ASSUME Types, Table, HasRoom(pending.rows), NEW n, n = Len(Matches)
    PROVE  /\ Matches \in Seq(Reported(Visible)) /\ n \in Nat
           /\ \A i \in 1..n : \A id \in ChainIds(Matches[i].chain) :
                  id \notin correlated /\ \E r \in Visible : r.id = id
           /\ \A i, j \in 1..n :
                  i # j => ChainIds(Matches[i].chain) \cap ChainIds(Matches[j].chain) = {}
<1>1. IsLog(Recent) /\ Recent \subseteq Visible
  <2>1. Adds(Visible, inserted + Len(pending.rows)) /\ Recent \subseteq Visible
    BY VisibleIs DEF Recent
  <2>2. \A r \in Row : r.id \in Nat /\ r.ts \in Nat
    <3>1. \A r \in Row : r.id \in Uids /\ r.ts \in 0..MaxClock
      BY DEF Row
    <3> QED BY <3>1, Numbers
  <2> QED BY <2>1, <2>2 DEF Adds, IsLog
<1>2. AllScenarios(Scenarios)
  <2>1. ASSUME NEW k \in 1..Len(Scenarios) PROVE IsScenario(Scenarios[k])
    <3>1. Scenarios[k] \in Scenario
      BY ScenariosAssumption
    <3> QED BY <3>1 DEF Scenario, IsScenario
  <2> QED BY <2>1, ScenariosAssumption DEF AllScenarios
<1>3. NoPid \notin DOMAIN <<>>
  OBVIOUS
<1>4. /\ Matches \in Seq(Reported(Recent))
      /\ SoundMatches(Matches, Scenarios, Recent, <<>>)
      /\ \A i \in 1..Len(Matches) : ChainIds(Matches[i].chain) \cap correlated = {}
  BY <1>1, <1>2, <1>3, MatchesAreChainsOfTheRest DEF Matches
<1>5. Reported(Recent) \subseteq Reported(Visible)
  BY <1>1 DEF Reported
<1>6. Matches \in Seq(Reported(Visible)) /\ n \in Nat
  BY <1>4, <1>5
<1>7. ASSUME NEW i \in 1..n, NEW id \in ChainIds(Matches[i].chain) PROVE \E r \in Visible : r.id = id
  <2>1. Matches[i] \in Reported(Visible)
    BY <1>6
  <2>2. Matches[i].chain \in Seq(Visible)
    BY <2>1 DEF Reported
  <2> QED BY <2>2, ChainIdsAre
<1> QED BY <1>4, <1>6, <1>7 DEF SoundMatches
-----------------------------------------------------------------------------
(* Types, Table and Polling: what every other part is proved from. *)

Base == Types /\ Table /\ Polling

\* Before the agent's first start.
LEMMA InitBase == Init => Base
<1> SUFFICES ASSUME Init PROVE Base
  OBVIOUS
<1>1. /\ MaxRows \in Nat /\ MaxClock \in Nat /\ MaxRuns \in Nat /\ MaxRecords \in Nat
  BY CorrelationMonitorAssumption DEF MaxRows
<1>2. <<>> \in Seq({AutoResponse}) /\ <<>> \in Seq(Incident)
  OBVIOUS
<1>3. pending \in Session
  <2>1. 0 \in 0..MaxClock
    BY <1>1
  <2> QED BY <1>2, <2>1 DEF Init, Nothing, Session
<1>4. {alerts, responses, audited} \subseteq [Uids -> Nat]
  BY DEF Init
<1>5. Types
  <2>1. {watched, examined, again, unlogged} \subseteq SUBSET Uids /\ failed \in 0..MaxFailures
    BY CorrelationMonitorAssumption DEF Init
  <2>2. incidents \in Seq(Incident)
    BY <1>2 DEF Init
  <2> QED BY <1>1, <1>3, <1>4, <2>1, <2>2 DEF Init, Types
<1>6. Table
  BY DEF Init, Table
<1>7. Polling
  BY CorrelationMonitorAssumption DEF Init, Polling, Ruling, Nothing
<1> QED BY <1>5, <1>6, <1>7 DEF Base

(* The sessions that the steps of the poll thread leave. *)
LEMMA SessionTypes ==
    ASSUME Types
    PROVE  /\ pending \in Session /\ Nothing \in Session
           /\ \A r \in todo : Alerting(r) \in Session
           /\ \A rows \in Seq({AutoResponse}) : [Nothing EXCEPT !.rows = rows] \in Session
           /\ \A new \in Seq(Incident) :
                  [pending EXCEPT !.incidents = new, !.at = clock] \in Session
<1>1. pending \in Session /\ clock \in 0..MaxClock /\ \A r \in todo : r.uid \in Uids
  BY Numbers DEF Types
<1>2. <<>> \in Seq({AutoResponse}) /\ <<>> \in Seq(Incident) /\ 0 \in 0..MaxClock
  BY Numbers
<1> QED BY <1>1, <1>2 DEF Session, Nothing, Alerting

(* The incidents that the matches of one call make. *)
LEMMA IncidentsOfMatches ==
    ASSUME Types, Table, HasRoom(pending.rows), run > 0,
           NEW new, new = [i \in 1..Len(Matches) |-> IncidentOf(Matches[i].chain)]
    PROVE  /\ new \in Seq(Incident) /\ Len(new) = Len(Matches)
           /\ \A i \in 1..Len(Matches) :
                  /\ new[i].run = run /\ new[i].ids = ChainIds(Matches[i].chain)
                  /\ \A u \in new[i].uids :
                         \E r \in Visible : r.uid = u /\ r.id \in ChainIds(Matches[i].chain)
                  /\ \A id \in new[i].ids :
                         \E r \in Visible : r.id = id /\ r.uid \in new[i].uids
           /\ \A i \in 1..Len(Matches) : ChainIds(Matches[i].chain) \subseteq Uids
<1> DEFINE n == Len(Matches)
<1>1. n \in Nat /\ Matches \in Seq(Reported(Visible))
  BY MatchesAre
<1>2. ASSUME NEW i \in 1..n
      PROVE  /\ IncidentOf(Matches[i].chain) \in Incident
             /\ IncidentOf(Matches[i].chain).run = run
             /\ IncidentOf(Matches[i].chain).ids = ChainIds(Matches[i].chain)
             /\ \A u \in IncidentOf(Matches[i].chain).uids :
                    \E r \in Visible : r.uid = u /\ r.id \in ChainIds(Matches[i].chain)
             /\ \A id \in IncidentOf(Matches[i].chain).ids :
                    \E r \in Visible : r.id = id /\ r.uid \in IncidentOf(Matches[i].chain).uids
             /\ ChainIds(Matches[i].chain) \subseteq Uids
  <2> DEFINE chain == Matches[i].chain
  <2>1. chain \in Seq(Visible)
    <3>1. Matches[i] \in Reported(Visible)
      BY <1>1
    <3> QED BY <3>1 DEF Reported
  <2> HIDE DEF chain
  <2>2. \A k \in 1..Len(chain) : chain[k] \in Visible /\ chain[k].uid \in Uids /\ chain[k].id \in Uids
    BY <2>1, VisibleIs DEF Adds, Row
  <2>3. run \in 1..MaxRuns
    BY Numbers DEF Types
  <2>4. ChainIds(chain) \subseteq Uids
    BY <2>2 DEF ChainIds
  <2>5. IncidentOf(chain) = [run |-> run, uids |-> {chain[k].uid : k \in 1..Len(chain)},
                             ids |-> ChainIds(chain)]
    BY DEF IncidentOf
  <2>6. {chain[k].uid : k \in 1..Len(chain)} \subseteq Uids
    BY <2>2
  <2>7. IncidentOf(chain) \in Incident
    BY <2>3, <2>4, <2>5, <2>6 DEF Incident
  <2>8. \A u \in IncidentOf(chain).uids : \E r \in Visible : r.uid = u /\ r.id \in ChainIds(chain)
    BY <2>2, <2>5 DEF ChainIds
  <2>9. \A id \in ChainIds(chain) : \E r \in Visible : r.id = id /\ r.uid \in IncidentOf(chain).uids
    BY <2>2, <2>5 DEF ChainIds
  <2> QED BY <2>4, <2>5, <2>7, <2>8, <2>9 DEF chain
<1> HIDE DEF n
<1>3. new \in Seq(Incident) /\ Len(new) = n
  BY <1>1, <1>2 DEF n
<1> QED BY <1>2, <1>3 DEF n

\* What a commit does to the tables of results.
Committed(pend) ==
    /\ alerts' = [u \in Uids |-> IF u \in pend.alerts THEN alerts[u] + 1 ELSE alerts[u]]
    /\ incidents' = incidents \o pend.incidents

(* The types survive every step. *)
LEMMA TypesStep ==
    ASSUME Base, [Next]_vars
    PROVE  Types'
<1> USE DEF db, memory, results, ghosts
<1>1. Types /\ Table /\ Polling
  BY DEF Base
<1>2. /\ pending \in Session /\ Nothing \in Session
      /\ \A r \in todo : Alerting(r) \in Session
      /\ \A rows \in Seq({AutoResponse}) : [Nothing EXCEPT !.rows = rows] \in Session
      /\ \A new \in Seq(Incident) : [pending EXCEPT !.incidents = new, !.at = clock] \in Session
  BY <1>1, SessionTypes
<1>3. /\ alerts \in [Uids -> Nat] /\ responses \in [Uids -> Nat] /\ audited \in [Uids -> Nat]
      /\ incidents \in Seq(Incident)
  BY <1>1 DEF Types
<1>4. Grown => /\ inserted' \in 0..MaxRows /\ events' \subseteq Row /\ watched' \subseteq Uids
               /\ cursor \in 0..inserted'
  <2> SUFFICES ASSUME Grown PROVE watched' \subseteq Uids /\ cursor \in 0..inserted'
    BY DEF Grown, Adds
  <2>1. (inserted + 1)..inserted' \subseteq Uids
    BY <1>1, Numbers DEF Grown, Adds, Uids
  <2>2. watched' \subseteq Uids
    BY <1>1, <2>1 DEF Grown, Types
  <2> QED BY <1>1, <2>2, Numbers DEF Grown, Adds
<1>5. ASSUME todo # {}
      PROVE  /\ NextRow \in todo /\ NextRow.uid \in Uids
             /\ Examined(NextRow) => /\ examined' \subseteq Uids /\ todo' \subseteq Row
                                     /\ cursor' \in 0..inserted
  <2>1. NextRow \in todo /\ NextRow.id <= inserted
    BY <1>1, <1>5, NextRowIs
  <2>2. NextRow.uid \in Uids /\ NextRow.id \in Nat /\ inserted \in Nat
    BY <1>1, <2>1, Numbers
  <2> QED BY <1>1, <2>1, <2>2 DEF Examined, Types
<1>6. InHand \subseteq Uids
  BY <1>1, <1>5 DEF Polling, InHand
<1>7. ASSUME NEW pend \in Session, Committed(pend)
      PROVE  alerts' \in [Uids -> Nat] /\ incidents' \in Seq(Incident)
  <2>1. pend.incidents \in Seq(Incident)
    BY DEF Session
  <2> QED BY <1>3, <1>7, <2>1 DEF Committed
<1>8. CASE Tick
  <2>1. clock' \in 0..MaxClock
    BY <1>1, <1>8, Numbers DEF Tick
  <2> QED BY <1>1, <1>8, <2>1 DEF Tick, Types
<1>9. ASSUME NEW kind \in Kinds, NEW ts \in 0..MaxClock, Record(kind, ts) PROVE Types'
  <2>1. Grown
    BY <1>1, <1>9, StepsThatInsert
  <2>2. recorded' \in 0..MaxRecords
    <3>1. recorded \in 0..MaxRecords /\ MaxRecords \in Nat
      BY <1>1, CorrelationMonitorAssumption DEF Types
    <3>2. recorded < MaxRecords /\ recorded' = recorded + 1
      BY <1>9 DEF Record
    <3> QED BY <3>1, <3>2
  <2> QED BY <1>1, <1>4, <1>9, <2>1, <2>2 DEF Record, Types
<1>10. CASE Prune
  BY <1>1, <1>10 DEF Prune, Types
<1>11. CASE Start
  <2>1. run' \in 0..MaxRuns
    BY <1>1, <1>11, Numbers DEF Start
  <2>2. cursor' \in 0..inserted'
    BY <1>1, <1>11, Numbers DEF Start
  <2> QED BY <1>1, <1>2, <1>11, <2>1, <2>2 DEF Start, Types
<1>12. CASE ReadStart
  <2>1. LargestId \in 0..inserted /\ inserted \in Nat
    BY <1>1, LargestIdIs, Numbers
  <2>2. cursor' \in 0..inserted'
    BY <1>12, <2>1 DEF ReadStart
  <2>3. \A r \in events : r.uid \in Uids
    BY <1>1, Numbers
  <2>4. again' \subseteq Uids /\ failed' \in 0..MaxFailures
    BY <1>1, <1>12, <2>3, Failing DEF ReadStart, Types
  <2> QED BY <1>1, <1>12, <2>2, <2>4 DEF ReadStart, Types
<1>13. CASE Down
  <2>1. cursor' \in 0..inserted'
    BY <1>1, <1>13, Numbers DEF Down
  <2> QED BY <1>1, <1>2, <1>6, <1>13, <2>1 DEF Down, Types
<1>14. CASE Fetch
  BY <1>1, <1>14 DEF Fetch, Types
<1>15. CASE Examine
  <2>1. /\ examined' \subseteq Uids /\ todo' \subseteq Row
        /\ cursor' \in 0..inserted /\ NextRow \in todo
    BY <1>5, <1>15 DEF Examine
  <2>2. pending' \in Session
    BY <1>2, <1>15, <2>1 DEF Examine
  <2> QED BY <1>1, <1>15, <2>1, <2>2 DEF Examine, Types
<1>16. ASSUME NEW outcome \in Outcomes, Respond(outcome) PROVE Types'
  <2>1. responses' \in [Uids -> Nat]
    BY <1>3, <1>5, <1>16 DEF Respond
  <2> QED BY <1>1, <1>16, <2>1 DEF Respond, Types
<1>17. CASE Logged
  <2>1. Grown /\ todo # {}
    BY <1>1, <1>17, StepsThatInsert DEF Logged, Polling
  <2>2. /\ examined' \subseteq Uids /\ todo' \subseteq Row /\ cursor' \in 0..inserted
        /\ NextRow \in todo /\ NextRow.uid \in Uids
    BY <1>5, <1>17, <2>1 DEF Logged
  <2>3. alerts' \in [Uids -> Nat] /\ incidents' \in Seq(Incident)
    BY <1>2, <1>7, <1>17, <2>2 DEF Logged, CommitAnd, Committed
  <2>4. audited' \in [Uids -> Nat]
    BY <1>3, <1>17, <2>2 DEF Logged
  <2>5. pending' \in Session
    <3>1. <<AutoResponse>> \in Seq({AutoResponse}) /\ <<>> \in Seq({AutoResponse})
      OBVIOUS
    <3> QED BY <1>2, <1>17, <3>1 DEF Logged
  <2>6. cursor' \in 0..inserted'
    BY <1>1, <2>1, <2>2, Numbers DEF Grown, Adds
  <2> QED BY <1>1, <1>4, <1>17, <2>1, <2>2, <2>3, <2>4, <2>5, <2>6 DEF Logged, Types
<1>18. CASE NotLogged
  BY <1>1, <1>2, <1>6, <1>18, Failing DEF NotLogged, Abandon, Types
<1>19. CASE Raised
  <2>1. /\ examined' \subseteq Uids /\ todo' \subseteq Row /\ cursor' \in 0..inserted
        /\ NextRow \in todo
    BY <1>1, <1>5, <1>19 DEF Raised, Polling
  <2>2. pending' \in Session
    BY <1>2, <1>19, <2>1 DEF Raised
  <2> QED BY <1>1, <1>6, <1>19, <2>1, <2>2 DEF Raised, Types
<1>20. CASE Correlate
  <2> DEFINE new == [i \in 1..Len(Matches) |-> IncidentOf(Matches[i].chain)]
  <2>1. run > 0 /\ HasRoom(pending.rows)
    BY <1>1, <1>20 DEF Correlate, Polling
  <2>2. /\ new \in Seq(Incident)
        /\ \A i \in 1..Len(Matches) : ChainIds(Matches[i].chain) \subseteq Uids
    BY <1>1, <2>1, IncidentsOfMatches
  <2>3. pending' = [pending EXCEPT !.incidents = new, !.at = clock]
    BY <1>20 DEF Correlate, Reporting
  <2> HIDE DEF new
  <2>4. pending' \in Session
    BY <1>2, <2>2, <2>3
  <2>5. correlated' \subseteq Uids
    BY <1>1, <1>20, <2>2 DEF Correlate, Types
  <2> QED BY <1>1, <1>20, <2>4, <2>5 DEF Correlate, Types
<1>21. CASE Commit
  <2>1. Grown
    BY <1>1, <1>21, StepsThatInsert
  <2>2. alerts' \in [Uids -> Nat] /\ incidents' \in Seq(Incident)
    BY <1>2, <1>7, <1>21 DEF Commit, CommitAnd, Committed
  <2> QED BY <1>1, <1>2, <1>4, <1>21, <2>1, <2>2 DEF Commit, Types
<1>22. CASE RollBack
  BY <1>1, <1>2, <1>22, Failing DEF RollBack, Abandon, Types
<1>23. CASE UNCHANGED vars
  BY <1>1, <1>23 DEF vars, Types
<1> QED
  BY <1>8, <1>9, <1>10, <1>11, <1>12, <1>13, <1>14, <1>15, <1>16, <1>17, <1>18, <1>19, <1>20,
     <1>21, <1>22, <1>23
  DEF Next, Poll

(* Ids and uids stay unique, in the table and in the fetched list. *)
LEMMA TableStep ==
    ASSUME Base, [Next]_vars
    PROVE  Table'
<1> USE DEF db, memory, results, ghosts
<1>1. Types /\ Table /\ Polling
  BY DEF Base
<1>2. ASSUME events' \subseteq events, todo' \subseteq todo \/ todo' \subseteq events,
             inserted' = inserted, clock' = clock \/ clock' = clock + 1
      PROVE  Table'
  <2>1. \A r \in events \cup todo : r.ts <= clock'
    BY <1>1, <1>2, Numbers DEF Table
  <2> QED BY <1>1, <1>2, <2>1 DEF Table
<1>3. ASSUME Grown, todo' \subseteq todo, clock' = clock
      PROVE  Table'
  <2>1. \A r \in todo : r.id <= inserted' /\ r.uid <= inserted' /\ r.ts <= clock'
    BY <1>1, <1>3, Numbers DEF Grown, Adds, Table
  <2>2. \A r \in events' : r.id <= inserted' /\ r.uid <= inserted' /\ r.ts <= clock'
    BY <1>3 DEF Grown, Adds
  <2>3. \A r \in events', s \in todo : r.uid = s.uid => r = s
    <3> SUFFICES ASSUME NEW r \in events', NEW s \in todo, r.uid = s.uid PROVE r = s
      OBVIOUS
    <3>1. CASE r \in events
      BY <1>1, <3>1 DEF Table
    <3>2. CASE r \notin events
      BY <1>1, <1>3, <3>2, Numbers DEF Grown, Adds, Table
    <3> QED BY <3>1, <3>2
  <2>4. /\ \A r, s \in events' : r.id = s.id \/ r.uid = s.uid => r = s
        /\ \A r, s \in todo : r.id = s.id \/ r.uid = s.uid => r = s
    BY <1>1, <1>3 DEF Grown, Adds, Table
  <2> QED BY <1>3, <2>1, <2>2, <2>3, <2>4 DEF Table
<1>4. CASE Tick
  BY <1>2, <1>4 DEF Tick
<1>5. ASSUME NEW kind \in Kinds, NEW ts \in 0..MaxClock, Record(kind, ts) PROVE Table'
  BY <1>1, <1>3, <1>5, StepsThatInsert DEF Record
<1>6. CASE Prune
  BY <1>2, <1>6 DEF Prune
<1>7. CASE Start
  BY <1>2, <1>7 DEF Start
<1>8. CASE ReadStart
  BY <1>2, <1>8 DEF ReadStart
<1>9. CASE Down
  BY <1>2, <1>9 DEF Down
<1>10. CASE Fetch
  BY <1>2, <1>10 DEF Fetch
<1>11. CASE Examine
  BY <1>2, <1>11 DEF Examine, Examined
<1>12. ASSUME NEW outcome \in Outcomes, Respond(outcome) PROVE Table'
  BY <1>2, <1>12 DEF Respond
<1>13. CASE Logged
  BY <1>1, <1>3, <1>13, StepsThatInsert DEF Logged, Examined
<1>14. CASE NotLogged
  BY <1>2, <1>14 DEF NotLogged, Abandon
<1>15. CASE Raised
  BY <1>2, <1>15 DEF Raised, Examined
<1>16. CASE Correlate
  BY <1>2, <1>16 DEF Correlate
<1>17. CASE Commit
  BY <1>1, <1>3, <1>17, StepsThatInsert DEF Commit
<1>18. CASE RollBack
  BY <1>2, <1>18 DEF RollBack, Abandon
<1>19. CASE UNCHANGED vars
  BY <1>2, <1>19 DEF vars
<1> QED
  BY <1>4, <1>5, <1>6, <1>7, <1>8, <1>9, <1>10, <1>11, <1>12, <1>13, <1>14, <1>15, <1>16,
     <1>17, <1>18, <1>19
  DEF Next, Poll

(* What the poll thread has in hand at each of its steps. *)
LEMMA PollingStep ==
    ASSUME Base, [Next]_vars
    PROVE  Polling'
<1> USE DEF db, memory, results, ghosts, Ruling
<1>1. Types /\ Table /\ Polling
  BY DEF Base
<1>2. /\ Outcomes \subseteq {"done", "refused", "error"} /\ pending \in Session
      /\ inserted \in Nat /\ clock \in Nat
  BY <1>1, CorrelationMonitorAssumption, Numbers DEF Types
<1>3. ASSUME todo # {}, Examined(NextRow)
      PROVE  /\ NextRow \in todo /\ NextRow.uid <= inserted
             /\ \A r \in todo' : r.id > cursor'
             /\ \A u \in examined' : u <= inserted
             /\ NextRow.uid \in examined' /\ examined \subseteq examined'
  <2>1. NextRow \in todo /\ \A s \in todo : s # NextRow => NextRow.id < s.id
    BY <1>1, <1>3, NextRowIs
  <2>2. NextRow.uid <= inserted
    BY <1>1, <2>1 DEF Table
  <2>3. \A r \in todo' : r.id > cursor'
    BY <1>1, <1>3, <2>1, Numbers DEF Examined
  <2> QED BY <1>1, <1>3, <2>1, <2>2, <2>3 DEF Examined, Polling
<1>4. ASSUME Grown
      PROVE  /\ \A u \in watched' \cup examined \cup pending.alerts : u <= inserted'
             /\ inserted' \in Nat /\ inserted <= inserted'
  <2>1. inserted' \in Nat /\ inserted <= inserted'
    BY <1>1, <1>4, Numbers DEF Grown, Adds
  <2> SUFFICES ASSUME NEW u \in watched' \cup examined \cup pending.alerts PROVE u <= inserted'
    BY <2>1
  <2>2. CASE u \in watched \cup examined \cup pending.alerts
    <3>1. u <= inserted /\ u \in Nat
      BY <1>1, <2>2, Numbers DEF Polling, Types, Session, Uids
    <3> QED BY <1>2, <2>1, <3>1
  <2>3. CASE u \in (inserted + 1)..inserted'
    BY <1>2, <2>1, <2>3
  <2> QED BY <1>4, <2>2, <2>3 DEF Grown
<1>5. CASE Tick
  <2>1. pending.at <= clock'
    <3>1. pending.at \in 0..MaxClock /\ pending.at <= clock /\ clock' = clock + 1
      BY <1>1, <1>2, <1>5 DEF Tick, Polling, Session
    <3> QED BY <1>2, <3>1
  <2> QED BY <1>1, <1>5, <2>1 DEF Tick, Polling
<1>6. ASSUME NEW kind \in Kinds, NEW ts \in 0..MaxClock, Record(kind, ts) PROVE Polling'
  <2>1. Grown
    BY <1>1, <1>6, StepsThatInsert
  <2>2. pc = "starting" => watched' = watched
    BY <2>1 DEF Grown
  <2>3. inserted > 0 => inserted' > 0
    BY <1>2, <1>4, <2>1
  <2> QED BY <1>1, <1>4, <1>6, <2>1, <2>2, <2>3 DEF Record, Polling
<1>7. CASE Prune
  BY <1>1, <1>7 DEF Prune, Polling
<1>8. Nothing.at <= clock /\ Nothing.rows = <<>>
  BY <1>2 DEF Nothing
<1>9. CASE Start
  <2>1. run' > 0
    BY <1>1, <1>9, Numbers DEF Start
  <2> QED BY <1>2, <1>8, <1>9, <2>1 DEF Start, Polling, Nothing
<1>10. CASE ReadStart
  BY <1>1, <1>2, <1>10 DEF ReadStart, Polling, Nothing
<1>11. CASE Down
  BY <1>2, <1>8, <1>11 DEF Down, Polling, Nothing
<1>12. CASE Fetch
  BY <1>1, <1>2, <1>12 DEF Fetch, Polling, Nothing
<1>13. CASE Examine
  <2>1. /\ NextRow.uid <= inserted /\ \A r \in todo' : r.id > cursor'
        /\ \A u \in examined' : u <= inserted
        /\ NextRow.uid \in examined' /\ examined \subseteq examined'
    BY <1>3, <1>13 DEF Examine
  <2>2. /\ pending'.alerts \subseteq pending.alerts \cup {NextRow.uid}
        /\ pending'.incidents = pending.incidents
        /\ pending'.rows = pending.rows /\ pending'.at = pending.at
    BY <1>2, <1>13 DEF Examine, Alerting, Session
  <2> QED BY <1>1, <1>2, <1>13, <2>1, <2>2 DEF Examine, Polling
<1>14. ASSUME NEW outcome \in Outcomes, Respond(outcome) PROVE Polling'
  BY <1>1, <1>2, <1>14 DEF Respond, Polling
<1>15. CASE Logged
  <2>1. Grown /\ todo # {} /\ pc \in Outcomes /\ inserted' > inserted /\ Examined(NextRow)
    BY <1>1, <1>15, StepsThatInsert DEF Logged, Polling
  <2>2. /\ \A u \in examined' : u <= inserted
        /\ \A r \in todo' : r.id > cursor'
    BY <1>3, <2>1
  <2>3. /\ pending'.alerts = {} /\ pending'.incidents = <<>> /\ pending'.at = 0
    BY <1>15 DEF Logged, Nothing
  <2>4. \A u \in examined' : u <= inserted'
    <3> SUFFICES ASSUME NEW u \in examined' PROVE u <= inserted'
      OBVIOUS
    <3>1. u \in Nat
      BY <1>1, TypesStep, Numbers DEF Types
    <3>2. u <= inserted
      BY <2>2
    <3> QED BY <1>2, <1>4, <2>1, <3>1, <3>2
  <2>5. inserted' > 0 /\ clock' = clock /\ pc' = "rules" /\ run' = run
    BY <1>2, <1>4, <1>15, <2>1 DEF Logged
  <2>6. \A u \in watched' : u <= inserted'
    BY <1>4, <2>1
  <2> QED BY <1>1, <1>2, <2>1, <2>2, <2>3, <2>4, <2>5, <2>6 DEF Polling
<1>16. CASE NotLogged
  BY <1>1, <1>2, <1>8, <1>16 DEF NotLogged, Abandon, Polling, Nothing
<1>17. CASE Raised
  <2>1. /\ NextRow.uid <= inserted /\ \A r \in todo' : r.id > cursor'
        /\ \A u \in examined' : u <= inserted
        /\ NextRow.uid \in examined' /\ examined \subseteq examined'
    BY <1>1, <1>3, <1>17 DEF Raised, Polling
  <2>2. /\ pending'.alerts = pending.alerts \cup {NextRow.uid}
        /\ pending'.incidents = pending.incidents
        /\ pending'.rows = pending.rows /\ pending'.at = pending.at
    BY <1>2, <1>17 DEF Raised, Alerting, Session
  <2> QED BY <1>1, <1>2, <1>17, <2>1, <2>2 DEF Raised, Polling
<1>18. CASE Correlate
  <2>1. pending'.alerts = pending.alerts /\ pending'.rows = pending.rows /\ pending'.at = clock
    BY <1>2, <1>18 DEF Correlate, Reporting, Session
  <2> QED BY <1>1, <1>2, <1>18, <2>1 DEF Correlate, Polling
<1>19. CASE Commit
  <2>1. Grown
    BY <1>1, <1>19, StepsThatInsert
  <2> QED BY <1>1, <1>2, <1>4, <1>8, <1>19, <2>1 DEF Commit, Polling, Nothing
<1>20. CASE RollBack
  BY <1>1, <1>2, <1>8, <1>20 DEF RollBack, Abandon, Polling, Nothing
<1>21. CASE UNCHANGED vars
  BY <1>1, <1>21 DEF vars, Polling
<1> QED
  BY <1>5, <1>6, <1>7, <1>9, <1>10, <1>11, <1>12, <1>13, <1>14, <1>15, <1>16, <1>17, <1>18,
     <1>19, <1>20, <1>21
  DEF Next, Poll
-----------------------------------------------------------------------------
(* What a step does to the marks of one row, whatever the step. *)

Fetched(u) == \E r \in todo : r.uid = u

Counted(n) == IF n <= MaxRuns THEN n + 1 ELSE n

\* The marks that a step may set: alerts for what is due, an attempt for what is
\* fetched, its row of audit for what is in hand.
MarksMove(u) ==
    /\ \/ alerts'[u] = alerts[u]
       \/ /\ alerts'[u] = alerts[u] + 1 /\ u \notin pending'.alerts
          /\ u \in pending.alerts \/ Fetched(u)
    /\ u \in pending'.alerts => u \in pending.alerts \/ Fetched(u)
    /\ audited'[u] = audited[u] \/ (audited'[u] = audited[u] + 1 /\ Fetched(u))
    /\ \/ responses'[u] = responses[u]
       \/ responses'[u] = Counted(responses[u]) /\ Fetched(u) /\ u \notin InHand
    /\ \/ u \in unlogged'
       \/ /\ responses'[u] = responses[u] /\ audited'[u] = audited[u]
          /\ u \in InHand' <=> u \in InHand
       \/ /\ responses'[u] = Counted(responses[u]) /\ audited'[u] = audited[u]
          /\ Fetched(u) /\ u \notin InHand /\ u \in InHand'
       \/ /\ responses'[u] = responses[u] /\ audited'[u] = audited[u] + 1
          /\ u \in InHand /\ u \notin InHand'

(* The row in hand is the next of those fetched. *)
LEMMA InHandIs ==
    ASSUME Base
    PROVE  /\ InHand = IF pc \in Outcomes THEN {NextRow.uid} ELSE {}
           /\ pc \in {"down", "starting", "idle", "rules", "commit"} => InHand = {}
           /\ pc \in Outcomes => todo # {}
           /\ todo # {} => NextRow \in todo /\ NextRow.uid \in Uids /\ NextRow.uid <= inserted
           /\ Outcomes \subseteq {"done", "refused", "error"}
           /\ InHand \subseteq Uids /\ \A u \in InHand : Fetched(u)
<1>1. Types /\ Table /\ Polling
  BY DEF Base
<1>2. Outcomes \subseteq {"done", "refused", "error"}
  BY CorrelationMonitorAssumption
<1>3. todo # {} => NextRow \in todo /\ NextRow.uid \in Uids /\ NextRow.uid <= inserted
  BY <1>1, NextRowIs, Numbers DEF Table
<1>4. pc \in Outcomes => todo # {}
  BY <1>1 DEF Polling
<1> QED BY <1>2, <1>3, <1>4 DEF InHand, Fetched

(* No step marks a row that is neither fetched nor in the session. *)
LEMMA MarksOfStep ==
    ASSUME Base, [Next]_vars, NEW u \in Uids
    PROVE  MarksMove(u) /\ inserted <= inserted'
<1> USE DEF db, memory, results, ghosts
<1>1. Types /\ Table /\ Polling
  BY DEF Base
<1>2. /\ alerts \in [Uids -> Nat] /\ responses \in [Uids -> Nat] /\ audited \in [Uids -> Nat]
      /\ pending \in Session /\ inserted \in Nat
  BY <1>1, Numbers DEF Types
<1>3. /\ pc \in {"down", "starting", "idle", "rules", "commit"} => InHand = {}
      /\ pc \in Outcomes => todo # {} /\ InHand = {NextRow.uid}
      /\ todo # {} => NextRow \in todo /\ NextRow.uid \in Uids
      /\ todo # {} /\ u = NextRow.uid => Fetched(u)
      /\ Outcomes \subseteq {"done", "refused", "error"}
  BY InHandIs DEF Fetched
<1>4. ASSUME UNCHANGED <<alerts, responses, audited>>, pending'.alerts \subseteq pending.alerts,
             (u \in InHand' <=> u \in InHand) \/ u \in unlogged'
      PROVE  MarksMove(u)
  BY <1>4 DEF MarksMove
<1>5. UNCHANGED <<pc, todo>> => InHand' = InHand
  BY DEF InHand, NextRow
<1>6. pc' \in {"down", "starting", "idle", "rules", "commit"} => InHand' = {}
  BY <1>3 DEF InHand
<1>7. CASE Tick
  BY <1>2, <1>4, <1>5, <1>7 DEF Tick
<1>8. ASSUME NEW kind \in Kinds, NEW ts \in 0..MaxClock, Record(kind, ts)
      PROVE  MarksMove(u) /\ inserted <= inserted'
  BY <1>1, <1>4, <1>5, <1>8, StepsThatInsert DEF Record, Grown, Adds
<1>9. CASE Prune
  BY <1>2, <1>4, <1>5, <1>9 DEF Prune
<1>10. CASE Start
  BY <1>2, <1>3, <1>4, <1>6, <1>10 DEF Start, Nothing
<1>11. CASE ReadStart
  BY <1>2, <1>3, <1>4, <1>6, <1>11 DEF ReadStart, DatabaseFails
<1>12. CASE Down
  <2>1. (u \in InHand' <=> u \in InHand) \/ u \in unlogged'
    BY <1>6, <1>12 DEF Down
  <2> QED BY <1>2, <1>4, <1>12, <2>1 DEF Down, Nothing
<1>13. CASE Fetch
  BY <1>2, <1>3, <1>4, <1>6, <1>13 DEF Fetch
<1>14. CASE Examine
  <2>1. pending'.alerts \subseteq pending.alerts \cup {NextRow.uid}
    BY <1>2, <1>14 DEF Examine, Alerting, Session
  <2>2. u \in pending'.alerts => u \in pending.alerts \/ Fetched(u)
    BY <1>3, <1>14, <2>1 DEF Examine
  <2>3. u \in InHand' <=> u \in InHand
    BY <1>3, <1>6, <1>14 DEF Examine
  <2> QED BY <1>2, <1>14, <2>2, <2>3 DEF Examine, MarksMove
<1>15. ASSUME NEW outcome \in Outcomes, Respond(outcome)
       PROVE  MarksMove(u) /\ inserted <= inserted'
  <2>1. todo # {} /\ NextRow' = NextRow /\ u \notin InHand
    BY <1>3, <1>15 DEF Respond, NextRow
  <2>2. InHand' = {NextRow.uid}
    BY <1>15, <2>1 DEF Respond, InHand
  <2>3. \/ responses'[u] = responses[u] /\ u # NextRow.uid
        \/ responses'[u] = Counted(responses[u]) /\ u = NextRow.uid
    BY <1>2, <1>3, <1>15, <2>1 DEF Respond, Counted
  <2>4. UNCHANGED <<alerts, audited, pending, inserted>>
    BY <1>15 DEF Respond
  <2> QED BY <1>2, <1>3, <2>1, <2>2, <2>3, <2>4 DEF MarksMove
<1>16. CASE Logged
  <2>1. Grown /\ pending'.alerts = {} /\ todo # {} /\ InHand = {NextRow.uid} /\ InHand' = {}
    BY <1>1, <1>3, <1>6, <1>16, StepsThatInsert DEF Logged, Nothing
  <2>2. Alerting(NextRow).alerts = pending.alerts \cup {NextRow.uid}
    BY <1>2 DEF Alerting, Session
  <2>3. alerts'[u] = IF u \in pending.alerts \cup {NextRow.uid} THEN alerts[u] + 1 ELSE alerts[u]
    BY <1>16, <2>2 DEF Logged, CommitAnd
  <2>4. audited'[u] = IF u = NextRow.uid THEN audited[u] + 1 ELSE audited[u]
    BY <1>2, <1>3, <1>16, <2>1 DEF Logged
  <2>5. responses'[u] = responses[u]
    BY <1>16 DEF Logged
  <2>6. inserted <= inserted'
    BY <2>1 DEF Grown, Adds
  <2> QED BY <1>3, <2>1, <2>3, <2>4, <2>5, <2>6 DEF MarksMove
<1>17. CASE NotLogged
  <2>1. (u \in InHand' <=> u \in InHand) \/ u \in unlogged'
    BY <1>6, <1>17 DEF NotLogged, Abandon
  <2> QED BY <1>2, <1>4, <1>17, <2>1 DEF NotLogged, Abandon, Nothing
<1>18. CASE Raised
  <2>1. pending'.alerts = pending.alerts \cup {NextRow.uid}
    BY <1>2, <1>18 DEF Raised, Alerting, Session
  <2>2. (u \in InHand' <=> u \in InHand) \/ u \in unlogged'
    BY <1>6, <1>18 DEF Raised
  <2>3. UNCHANGED <<alerts, responses, audited, inserted>> /\ todo # {}
    BY <1>3, <1>18 DEF Raised
  <2> QED BY <1>2, <1>3, <2>1, <2>2, <2>3 DEF MarksMove
<1>19. CASE Correlate
  <2>1. pending'.alerts = pending.alerts
    BY <1>2, <1>19 DEF Correlate, Reporting, Session
  <2>2. UNCHANGED <<alerts, responses, audited, inserted>> /\ InHand' = {} /\ InHand = {}
    BY <1>3, <1>6, <1>19 DEF Correlate
  <2> QED BY <1>2, <1>4, <2>1, <2>2
<1>20. CASE Commit
  <2>1. Grown /\ pending'.alerts = {} /\ InHand' = {} /\ InHand = {}
    BY <1>1, <1>3, <1>6, <1>20, StepsThatInsert DEF Commit, Nothing
  <2>2. alerts'[u] = IF u \in pending.alerts THEN alerts[u] + 1 ELSE alerts[u]
    BY <1>20 DEF Commit, CommitAnd
  <2> QED BY <1>20, <2>1, <2>2 DEF Commit, MarksMove, Grown, Adds
<1>21. CASE RollBack
  BY <1>2, <1>3, <1>4, <1>6, <1>21 DEF RollBack, Abandon, DatabaseFails, Nothing
<1>22. CASE UNCHANGED vars
  BY <1>2, <1>4, <1>5, <1>22 DEF vars
<1> QED
  BY <1>7, <1>8, <1>9, <1>10, <1>11, <1>12, <1>13, <1>14, <1>15, <1>16, <1>17, <1>18, <1>19,
     <1>20, <1>21, <1>22
  DEF Next, Poll

\* A row that was above the cursor before the step, its marks as they were; an
\* attempt for it is in hand, or put before the rules again.
StillAbove(r) ==
    /\ r \in events \cup todo /\ r.id > cursor
    /\ r.uid \notin pending.alerts =>
           /\ alerts'[r.uid] = alerts[r.uid] /\ audited'[r.uid] = audited[r.uid]
           /\ r.uid \notin pending'.alerts
    /\ r.uid \notin again' =>
           \/ r.uid \in InHand'
           \/ responses'[r.uid] = responses[r.uid] /\ r.uid \notin InHand

\* A row that the step inserts.
JustInserted(r) ==
    /\ r.uid > inserted /\ r.uid \in Uids /\ r.id > LargestId
    /\ ~Fetched(r.uid) /\ r.uid \notin pending.alerts /\ r.uid \notin pending'.alerts
    /\ pc \notin {"down", "starting"} => r.uid \in watched'

(* What is above the cursor after a step was there before, or is new. *)
LEMMA AboveCursor ==
    ASSUME Base, [Next]_vars, pc # "down", pc' # "down",
           NEW r \in events' \cup todo', r.id > cursor'
    PROVE  StillAbove(r) \/ JustInserted(r)
<1> USE DEF db, memory, results, ghosts
<1>1. Types /\ Table /\ Polling
  BY DEF Base
<1>2. /\ alerts \in [Uids -> Nat] /\ responses \in [Uids -> Nat] /\ audited \in [Uids -> Nat]
      /\ pending \in Session /\ inserted \in Nat
  BY <1>1, Numbers DEF Types
<1>3. /\ pc \in {"down", "starting", "idle", "rules", "commit"} => InHand = {}
      /\ pc \in Outcomes => todo # {} /\ InHand = {NextRow.uid}
      /\ todo # {} => NextRow \in todo /\ NextRow.uid \in Uids
      /\ Outcomes \subseteq {"done", "refused", "error"}
      /\ UNCHANGED <<pc, todo>> => InHand' = InHand
  <2>1. UNCHANGED <<pc, todo>> => InHand' = InHand
    BY DEF InHand, NextRow
  <2> QED BY <2>1, InHandIs
<1>4. ASSUME events' \subseteq events, todo' \subseteq todo \/ todo' \subseteq events,
             cursor' = cursor \/ cursor = 0,
             UNCHANGED <<alerts, audited, responses>>,
             \A u \in InHand : u \in InHand' \/ u \in again',
             pending'.alerts \subseteq pending.alerts
      PROVE  StillAbove(r)
  <2>1. r \in events \cup todo
    BY <1>4
  <2>2. r.id > cursor
    <3>1. r.id \in Nat /\ r.id # 0
      BY <1>1, <2>1, Numbers DEF Uids
    <3> QED BY <1>4, <3>1
  <2> QED BY <1>4, <2>1, <2>2 DEF StillAbove
<1>5. ASSUME Grown, r \in events' \ events, pending'.alerts \subseteq pending.alerts
      PROVE  JustInserted(r)
  <2>1. /\ r \in Row /\ inserted < r.uid /\ LargestId < r.id
        /\ r.uid <= inserted' /\ inserted' \in Nat
    BY <1>5 DEF Grown, Adds
  <2>2. /\ r.uid \in Uids /\ r.uid \in Nat /\ LargestId \in Nat /\ r.id \in Nat
    <3>1. r.uid \in Uids /\ r.id \in Uids
      BY <2>1 DEF Row
    <3> QED BY <1>1, <3>1, Numbers, LargestIdIs
  <2>3. ~Fetched(r.uid)
    <3> SUFFICES ASSUME NEW s \in todo PROVE s.uid # r.uid
      BY DEF Fetched
    <3>1. s.uid \in Nat /\ s.uid <= inserted
      BY <1>1, Numbers DEF Table
    <3> QED BY <1>2, <2>1, <2>2, <3>1
  <2>4. r.uid \notin pending.alerts
    <3>1. \A u \in pending.alerts : u <= inserted
      BY <1>1 DEF Polling
    <3> QED BY <1>2, <2>1, <2>2, <3>1
  <2>5. pc \notin {"down", "starting"} => r.uid \in watched'
    <3>1. r.uid \in (inserted + 1)..inserted'
      BY <1>2, <2>1, <2>2
    <3> QED BY <1>5, <3>1 DEF Grown
  <2> QED BY <1>2, <1>5, <2>1, <2>2, <2>3, <2>4, <2>5 DEF JustInserted
<1>6. ASSUME todo # {}, Examined(NextRow), r \in events \cup todo,
             \A u \in Uids \ (pending.alerts \cup {NextRow.uid}) :
                 /\ alerts'[u] = alerts[u] /\ audited'[u] = audited[u]
                 /\ u \notin pending'.alerts,
             responses' = responses, InHand \subseteq {NextRow.uid}
      PROVE  StillAbove(r)
  <2>1. NextRow \in todo /\ cursor' = NextRow.id /\ NextRow.id > cursor
    BY <1>1, <1>6, NextRowIs DEF Examined, Polling
  <2>2. r.id \in Nat /\ NextRow.id \in Nat /\ cursor \in Nat /\ r.uid \in Uids
    BY <1>1, <1>6, <2>1, Numbers
  <2>3. r.id > cursor /\ r.id # NextRow.id
    BY <2>1, <2>2
  <2>4. r.uid # NextRow.uid
    BY <1>1, <1>6, <2>1, <2>3 DEF Table
  <2> QED BY <1>6, <2>2, <2>3, <2>4 DEF StillAbove
<1>7. CASE Tick
  BY <1>3, <1>4, <1>7 DEF Tick
<1>8. ASSUME NEW kind \in Kinds, NEW ts \in 0..MaxClock, Record(kind, ts)
      PROVE  StillAbove(r) \/ JustInserted(r)
  <2>1. Grown /\ InHand' = InHand
    BY <1>1, <1>3, <1>8, StepsThatInsert DEF Record
  <2>2. CASE r \in events' \ events
    BY <1>5, <1>8, <2>1, <2>2 DEF Record
  <2>3. CASE r \in events \cup todo
    BY <1>8, <2>1, <2>3 DEF Record, StillAbove
  <2> QED BY <1>8, <2>2, <2>3 DEF Record
<1>9. CASE Prune
  BY <1>3, <1>4, <1>9 DEF Prune
<1>10. CASE ReadStart
  <2>1. cursor = 0 /\ InHand = {}
    BY <1>1, <1>3, <1>10 DEF ReadStart, Polling
  <2> QED BY <1>4, <1>10, <2>1 DEF ReadStart
<1>11. CASE Fetch
  BY <1>3, <1>4, <1>11 DEF Fetch
<1>12. CASE Examine
  <2>1. pending'.alerts \subseteq pending.alerts \cup {NextRow.uid}
    BY <1>2, <1>12 DEF Examine, Alerting, Session
  <2>2. r \in events \cup todo
    BY <1>12 DEF Examine, Examined
  <2>3. InHand = {}
    BY <1>3, <1>12 DEF Examine
  <2> QED BY <1>6, <1>12, <2>1, <2>2, <2>3 DEF Examine
<1>13. ASSUME NEW outcome \in Outcomes, Respond(outcome) PROVE StillAbove(r)
  <2>1. NextRow \in todo /\ NextRow.uid \in Uids /\ InHand = {}
    BY <1>3, <1>13 DEF Respond
  <2>2. \A u \in Uids \ {NextRow.uid} : responses'[u] = responses[u]
    BY <1>2, <1>13, <2>1 DEF Respond
  <2>3. NextRow' = NextRow
    BY <1>13 DEF Respond, NextRow
  <2>4. InHand' = {NextRow.uid}
    BY <1>13, <2>3 DEF Respond, InHand
  <2>5. r \in events \cup todo /\ r.id > cursor
    BY <1>13 DEF Respond
  <2>6. r.uid \in Uids
    BY <1>1, <2>5, Numbers
  <2> QED BY <1>13, <2>1, <2>2, <2>4, <2>5, <2>6 DEF Respond, StillAbove
<1>14. CASE Logged
  <2>1. /\ Grown /\ pending'.alerts = {} /\ todo # {} /\ InHand = {NextRow.uid}
        /\ Examined(NextRow) /\ responses' = responses
    BY <1>1, <1>3, <1>14, StepsThatInsert DEF Logged, Nothing
  <2>2. Alerting(NextRow).alerts = pending.alerts \cup {NextRow.uid}
    BY <1>2 DEF Alerting, Session
  <2>3. \A u \in Uids \ (pending.alerts \cup {NextRow.uid}) :
            alerts'[u] = alerts[u] /\ audited'[u] = audited[u]
    BY <1>2, <1>3, <1>14, <2>1, <2>2 DEF Logged, CommitAnd
  <2>4. CASE r \in events' \ events
    BY <1>5, <2>1, <2>4
  <2>5. CASE r \in events \cup todo
    BY <1>6, <2>1, <2>3, <2>5
  <2> QED BY <2>1, <2>4, <2>5 DEF Examined
<1>15. CASE NotLogged
  <2>1. pending'.alerts = {} /\ \A u \in InHand : u \in again'
    BY <1>15 DEF NotLogged, Abandon, Nothing
  <2> QED BY <1>4, <1>15, <2>1 DEF NotLogged, Abandon
<1>16. CASE Raised
  <2>1. /\ r \in events \cup todo /\ todo # {} /\ InHand = {NextRow.uid}
        /\ Examined(NextRow) /\ UNCHANGED <<alerts, audited, responses>>
    BY <1>3, <1>16 DEF Raised, Examined
  <2>2. pending'.alerts = pending.alerts \cup {NextRow.uid}
    BY <1>2, <1>16 DEF Raised, Alerting, Session
  <2> QED BY <1>6, <2>1, <2>2
<1>17. CASE Correlate
  <2>1. pending'.alerts = pending.alerts /\ InHand = {}
    BY <1>2, <1>3, <1>17 DEF Correlate, Reporting, Session
  <2> QED BY <1>4, <1>17, <2>1 DEF Correlate
<1>18. CASE Commit
  <2>1. Grown /\ pending'.alerts = {} /\ InHand = {}
    BY <1>1, <1>3, <1>18, StepsThatInsert DEF Commit, Nothing
  <2>2. CASE r \in events' \ events
    BY <1>5, <2>1, <2>2
  <2>3. CASE r \in events \cup todo
    <3>1. r.uid \in Uids
      BY <1>1, <2>3, Numbers
    <3> QED BY <1>18, <2>1, <2>3, <3>1 DEF Commit, CommitAnd, StillAbove
  <2> QED BY <1>18, <2>2, <2>3 DEF Commit
<1>19. CASE RollBack
  BY <1>3, <1>4, <1>19 DEF RollBack, Abandon, Nothing
<1>20. CASE UNCHANGED vars
  BY <1>3, <1>4, <1>20 DEF vars
<1> QED
  BY <1>7, <1>8, <1>9, <1>10, <1>11, <1>12, <1>13, <1>14, <1>15, <1>16, <1>17, <1>18, <1>19,
     <1>20
  DEF Next, Poll, Start, Down

(* Only a start of the agent begins a run, and only from there it is up. *)
LEMMA RunOfStep ==
    ASSUME Base, [Next]_vars
    PROVE  \/ run' = run /\ (pc = "down" => pc' = "down")
           \/ run' = run + 1 /\ pc = "down"
<1> USE DEF db, memory, results, ghosts
<1>1. ASSUME NEW kind \in Kinds, NEW ts \in 0..MaxClock, Record(kind, ts)
      PROVE  run' = run /\ pc' = pc
  BY <1>1 DEF Record
<1>2. ASSUME NEW outcome \in Outcomes, Respond(outcome) PROVE run' = run /\ pc # "down"
  BY <1>2 DEF Respond
<1>3. CASE Logged \/ NotLogged \/ Raised
  BY <1>3, CorrelationMonitorAssumption DEF Logged, NotLogged, Raised
<1>4. CASE Tick \/ Prune \/ Start \/ ReadStart \/ Down
  BY <1>4 DEF Tick, Prune, Start, ReadStart, Down
<1>5. CASE Fetch \/ Examine \/ Correlate \/ Commit \/ RollBack \/ UNCHANGED vars
  BY <1>5 DEF Fetch, Examine, Correlate, Commit, RollBack, vars
<1> QED BY <1>1, <1>2, <1>3, <1>4, <1>5 DEF Next, Poll

(* What has failed stays on record, what was inserted stays watched, and   *)
(* only a fetched row is examined.                                         *)
LEMMA HistoryOfStep ==
    ASSUME Base, [Next]_vars
    PROVE  /\ failed <= failed' /\ again \subseteq again' /\ unlogged \subseteq unlogged'
           /\ pc \notin {"down", "starting"} /\ pc' \notin {"down", "starting"} =>
                  watched \subseteq watched'
           /\ examined' \subseteq examined \cup {r.uid : r \in todo}
<1> USE DEF db, memory, results, ghosts
<1>1. Types /\ Table /\ Polling /\ failed <= failed
  BY Failing DEF Base
<1>2. Grown => watched \subseteq watched'
  BY DEF Grown
<1>3. ASSUME todo # {}, Examined(NextRow)
      PROVE  examined' \subseteq examined \cup {r.uid : r \in todo}
  BY <1>1, <1>3, NextRowIs DEF Examined
<1>4. pc \in Outcomes => todo # {}
  BY <1>1 DEF Polling
<1>5. ASSUME NEW kind \in Kinds, NEW ts \in 0..MaxClock, Record(kind, ts)
      PROVE  UNCHANGED <<failed, again, unlogged, examined>> /\ watched \subseteq watched'
  BY <1>1, <1>2, <1>5, StepsThatInsert DEF Record
<1>6. ASSUME NEW outcome \in Outcomes, Respond(outcome)
      PROVE  UNCHANGED <<failed, again, unlogged, examined, watched>>
  BY <1>6 DEF Respond
<1>7. CASE Logged
  <2>1. Grown /\ todo # {} /\ Examined(NextRow) /\ UNCHANGED <<failed, again, unlogged>>
    BY <1>1, <1>4, <1>7, StepsThatInsert DEF Logged
  <2> QED BY <1>1, <1>2, <1>3, <2>1
<1>8. CASE NotLogged
  BY <1>1, <1>8, Failing DEF NotLogged, Abandon
<1>9. CASE Raised
  <2>1. todo # {} /\ Examined(NextRow)
    BY <1>4, <1>9 DEF Raised
  <2> QED BY <1>1, <1>3, <1>9, <2>1 DEF Raised
<1>10. CASE Tick \/ Prune \/ Start \/ ReadStart \/ Down
  BY <1>1, <1>10, Failing DEF Tick, Prune, Start, ReadStart, Down
<1>11. CASE Examine
  BY <1>1, <1>3, <1>11 DEF Examine
<1>12. CASE Commit
  BY <1>1, <1>2, <1>12, StepsThatInsert DEF Commit
<1>13. CASE Fetch \/ Correlate \/ RollBack \/ UNCHANGED vars
  BY <1>1, <1>13, Failing DEF Fetch, Correlate, RollBack, Abandon, vars
<1> QED BY <1>1, <1>5, <1>6, <1>7, <1>8, <1>9, <1>10, <1>11, <1>12, <1>13 DEF Next, Poll

(* What is due in this run has no mark of this run. *)
LEMMA DueIsOpen ==
    ASSUME Base, Counts, NEW u \in Uids, u \in pending.alerts \/ Fetched(u)
    PROVE  /\ alerts[u] < run /\ u <= inserted /\ pc # "down"
           /\ Fetched(u) => audited[u] < run
           /\ Once /\ u \notin again =>
                  alerts[u] = 0 /\ (Fetched(u) => responses[u] = 0 \/ u \in InHand)
<1>1. Types /\ Table /\ Polling /\ Outcomes \subseteq {"done", "refused", "error"}
  BY InHandIs DEF Base
<1>2. ASSUME Fetched(u)
      PROVE  /\ alerts[u] < run /\ audited[u] < run /\ u <= inserted /\ pc # "down"
             /\ Once /\ u \notin again => alerts[u] = 0 /\ (responses[u] = 0 \/ u \in InHand)
  <2>1. PICK r \in todo : r.uid = u
    BY <1>2 DEF Fetched
  <2>2. pc \in Ruling /\ r.id > cursor /\ r \in events \cup todo
    BY <1>1, <2>1 DEF Polling
  <2>3. pc \notin {"down", "starting"}
    BY <1>1, <2>2 DEF Ruling
  <2> QED BY <1>1, <2>1, <2>2, <2>3 DEF Counts, Once, Table
<1>3. ASSUME u \in pending.alerts
      PROVE  /\ alerts[u] < run /\ u <= inserted /\ pc # "down"
             /\ Once /\ u \notin again => alerts[u] = 0
  <2>1. pc # "down"
    BY <1>1, <1>3 DEF Polling, Ruling, Nothing
  <2> QED BY <1>1, <1>3, <2>1 DEF Counts, Once, Polling
<1> QED BY <1>2, <1>3

(* A row gets one alert and one row of audit in a run. *)
LEMMA CountsStep ==
    ASSUME Base, Counts, [Next]_vars
    PROVE  Counts'
<1>1. Types /\ Table /\ Polling /\ Types' /\ Polling'
  BY TypesStep, PollingStep DEF Base
<1>2. /\ run \in Nat /\ run' \in Nat /\ inserted \in Nat /\ inserted' \in Nat /\ run <= run'
      /\ MaxRuns \in Nat
  <2>1. inserted \in Nat /\ MaxRuns \in Nat /\ MaxRows \in Nat
    BY <1>1, Numbers
  <2>2. run \in 0..MaxRuns /\ run' \in 0..MaxRuns /\ inserted' \in 0..MaxRows
    BY <1>1 DEF Types
  <2>3. run <= run'
    BY <2>1, <2>2, RunOfStep
  <2> QED BY <2>1, <2>2, <2>3
<1>3. ASSUME NEW u \in Uids
      PROVE  /\ alerts[u] \in Nat /\ audited[u] \in Nat /\ responses[u] \in Nat /\ u \in Nat
             /\ alerts'[u] \in Nat /\ audited'[u] \in Nat /\ responses'[u] \in Nat
             /\ MarksMove(u) /\ inserted <= inserted'
             /\ alerts[u] <= run /\ audited[u] <= run /\ responses[u] <= MaxRuns + 1
             /\ u > inserted => alerts[u] = 0 /\ audited[u] = 0 /\ responses[u] = 0
  BY <1>1, MarksOfStep, Numbers DEF Types, Counts
<1>4. ASSUME NEW u \in Uids
      PROVE  /\ alerts'[u] <= run' /\ audited'[u] <= run' /\ responses'[u] <= MaxRuns + 1
             /\ u > inserted' => alerts'[u] = 0 /\ audited'[u] = 0 /\ responses'[u] = 0
             /\ u \in pending'.alerts => alerts'[u] < run'
  <2>1. CASE u \in pending.alerts \/ Fetched(u)
    <3>1. /\ alerts[u] < run /\ u <= inserted
          /\ Fetched(u) => audited[u] < run
      BY <2>1, DueIsOpen
    <3> QED BY <1>2, <1>3, <3>1 DEF MarksMove, Counted
  <2>2. CASE ~(u \in pending.alerts \/ Fetched(u))
    BY <1>2, <1>3, <2>2 DEF MarksMove
  <2> QED BY <2>1, <2>2
<1>5. ASSUME pc' # "down", NEW r \in events' \cup todo', r.id > cursor'
      PROVE  alerts'[r.uid] < run' /\ audited'[r.uid] < run' /\ r.uid \notin pending'.alerts
  <2>1. r.uid \in Uids
    BY <1>1, Numbers DEF Types, Row
  <2>2. CASE pc = "down"
    <3>1. ~(r.uid \in pending.alerts \/ Fetched(r.uid))
      BY <2>1, <2>2, DueIsOpen
    <3>2. run' = run + 1
      BY <1>5, <2>2, RunOfStep
    <3> QED BY <1>2, <1>3, <2>1, <3>1, <3>2 DEF MarksMove
  <2>3. CASE pc # "down"
    <3>1. CASE StillAbove(r)
      <4>1. alerts[r.uid] < run /\ audited[r.uid] < run /\ r.uid \notin pending.alerts
        BY <2>3, <3>1 DEF StillAbove, Counts
      <4> QED BY <1>2, <1>3, <2>1, <3>1, <4>1 DEF StillAbove
    <3>2. CASE JustInserted(r)
      <4>1. alerts'[r.uid] = 0 /\ audited'[r.uid] = 0 /\ r.uid \notin pending'.alerts
        BY <1>3, <2>1, <3>2 DEF JustInserted, MarksMove
      <4>2. run' > 0
        BY <1>1, <1>5 DEF Polling
      <4> QED BY <4>1, <4>2
    <3> QED BY <1>5, <2>3, <3>1, <3>2, AboveCursor
  <2> QED BY <2>2, <2>3
<1> QED BY <1>4, <1>5 DEF Counts

(* A poll thread that has just read its cursor has nothing above it, but what *)
(* a failing query puts there.                                                *)
LEMMA StartsAtTheEnd ==
    ASSUME Base, [Next]_vars, pc \in {"down", "starting"}, pc' \notin {"down", "starting"}
    PROVE  /\ \A r \in events' \cup todo' : r.id > cursor' => r.uid \in again'
           /\ examined' = {}
<1> USE DEF db, memory, results, ghosts
<1>1. Types /\ Table /\ Polling /\ Outcomes \subseteq {"done", "refused", "error"}
  BY InHandIs DEF Base
<1>2. ReadStart
  <2>1. ~Start /\ ~Down /\ ~Fetch /\ ~Examine /\ ~Correlate /\ ~Commit /\ ~RollBack
    BY <1>1 DEF Start, Down, Fetch, Examine, Correlate, Commit, RollBack
  <2>2. ~Tick /\ ~Prune /\ ~UNCHANGED vars
    BY DEF Tick, Prune, vars
  <2>3. \A kind \in Kinds, ts \in 0..MaxClock : ~Record(kind, ts)
    BY DEF Record
  <2>4. (\A o \in Outcomes : ~Respond(o)) /\ ~Logged /\ ~NotLogged /\ ~Raised
    BY <1>1 DEF Respond, Logged, NotLogged, Raised
  <2> QED BY <2>1, <2>2, <2>3, <2>4 DEF Next, Poll
<1>3. /\ events' = events /\ todo' = {} /\ examined' = {}
      /\ cursor' = LargestId \/ again' = again \cup {r.uid : r \in events}
  BY <1>1, <1>2 DEF ReadStart, Polling, Ruling
<1>4. ASSUME NEW r \in events PROVE ~(r.id > LargestId)
  <2>1. r.id <= LargestId /\ r.id \in Nat /\ LargestId \in Nat
    BY <1>1, LargestIdIs, Numbers
  <2> QED BY <2>1
<1> QED BY <1>3, <1>4

(* ... and one in all its runs, unless a failure puts it before the rules. *)
LEMMA OnceStep ==
    ASSUME Base, Counts, Once, [Next]_vars
    PROVE  Once'
<1>1. Types /\ Table /\ Polling /\ Types' /\ Polling' /\ MaxRuns \in Nat
  BY TypesStep, PollingStep, Numbers DEF Base
<1>2. ASSUME NEW u \in Uids, u \notin again'
      PROVE  /\ alerts[u] \in Nat /\ responses[u] \in Nat /\ u \notin again
             /\ MarksMove(u)
             /\ alerts[u] <= 1 /\ responses[u] <= 1
             /\ u > inserted => alerts[u] = 0 /\ responses[u] = 0
             /\ u \in pending.alerts => alerts[u] = 0
  <2>1. MarksMove(u) /\ u \notin again
    BY <1>2, MarksOfStep, HistoryOfStep
  <2> QED BY <1>1, <2>1 DEF Types, Counts, Once
<1>3. ASSUME NEW u \in Uids, u \notin again'
      PROVE  /\ alerts'[u] <= 1 /\ responses'[u] <= 1
             /\ u \in pending'.alerts => alerts'[u] = 0
  <2>1. CASE u \in pending.alerts \/ Fetched(u)
    <3>1. alerts[u] = 0 /\ (Fetched(u) => responses[u] = 0 \/ u \in InHand)
      BY <1>2, <1>3, <2>1, DueIsOpen
    <3> QED BY <1>1, <1>2, <1>3, <3>1 DEF MarksMove, Counted
  <2>2. CASE ~(u \in pending.alerts \/ Fetched(u))
    BY <1>2, <1>3, <2>2 DEF MarksMove
  <2> QED BY <2>1, <2>2
<1>4. ASSUME pc' \notin {"down", "starting"}, NEW r \in events' \cup todo', r.id > cursor',
             r.uid \notin again'
      PROVE  alerts'[r.uid] = 0 /\ (responses'[r.uid] = 0 \/ r.uid \in InHand')
  <2>1. r.uid \in Uids
    BY <1>1, Numbers DEF Types, Row
  <2>2. pc \notin {"down", "starting"}
    BY <1>4, StartsAtTheEnd
  <2>3. CASE StillAbove(r)
    <3>1. /\ r.uid \notin pending.alerts /\ alerts[r.uid] = 0
          /\ responses[r.uid] = 0 \/ r.uid \in InHand
      BY <1>2, <1>4, <2>1, <2>2, <2>3 DEF StillAbove, Counts, Once
    <3> QED BY <1>4, <2>3, <3>1 DEF StillAbove
  <2>4. CASE JustInserted(r)
    BY <1>2, <1>4, <2>1, <2>4 DEF JustInserted, MarksMove
  <2> QED BY <1>4, <2>2, <2>3, <2>4, AboveCursor
<1> QED BY <1>3, <1>4 DEF Once

(* What is above the cursor was inserted under the monitor's eyes. *)
LEMMA FreshStep ==
    ASSUME Base, Fresh, [Next]_vars
    PROVE  Fresh'
<1> USE DEF db, memory, results, ghosts
<1> SUFFICES ASSUME pc' \notin {"down", "starting"}
             PROVE  /\ \A r \in events' \cup todo' :
                           r.id > cursor' => r.uid \in watched' \cup again'
                    /\ examined' \subseteq watched' \cup again'
  BY DEF Fresh
<1>1. Types /\ Table /\ Polling
  BY DEF Base
<1>2. CASE pc \in {"down", "starting"}
  BY <1>2, StartsAtTheEnd
<1>3. CASE pc \notin {"down", "starting"}
  <2>1. /\ watched \subseteq watched' /\ again \subseteq again'
        /\ examined' \subseteq examined \cup {r.uid : r \in todo}
    BY <1>3, HistoryOfStep
  <2>2. /\ \A r \in events \cup todo : r.id > cursor => r.uid \in watched \cup again
        /\ \A r \in todo : r.id > cursor
        /\ examined \subseteq watched \cup again
    BY <1>1, <1>3 DEF Fresh, Polling
  <2>3. ASSUME NEW r \in events' \cup todo', r.id > cursor' PROVE r.uid \in watched' \cup again'
    <3>1. CASE StillAbove(r)
      BY <2>1, <2>2, <3>1 DEF StillAbove
    <3>2. CASE JustInserted(r)
      BY <1>3, <3>2 DEF JustInserted
    <3> QED BY <1>3, <2>3, <3>1, <3>2, AboveCursor
  <2>4. examined' \subseteq watched' \cup again'
    BY <2>1, <2>2
  <2> QED BY <2>3, <2>4
<1> QED BY <1>2, <1>3

(* Every attempt that was not cut off has its row of audit, or is in hand. *)
LEMMA AuditStep ==
    ASSUME Base, Counts, AttemptsAreAudited, [Next]_vars
    PROVE  AttemptsAreAudited'
<1> SUFFICES ASSUME NEW u \in Uids, u \notin unlogged'
             PROVE  responses'[u] = audited'[u] + (IF u \in InHand' THEN 1 ELSE 0)
  BY DEF AttemptsAreAudited
<1>1. MarksMove(u) /\ u \notin unlogged
  BY MarksOfStep, HistoryOfStep
<1>2. responses[u] = audited[u] + (IF u \in InHand THEN 1 ELSE 0)
  BY <1>1 DEF AttemptsAreAudited
<1>3. Fetched(u) => audited[u] < run
  BY DueIsOpen
<1>4. /\ responses[u] \in Nat /\ audited[u] \in Nat /\ run \in Nat /\ MaxRuns \in Nat
      /\ run <= MaxRuns
  BY Numbers DEF Base, Types
<1> QED BY <1>1, <1>2, <1>3, <1>4 DEF MarksMove, Counted
-----------------------------------------------------------------------------
(* No alert is lost while the database answers. *)

\* The time of the rows that a step inserts: hardly in the past, or the flush's.
BornAt(ts) ==
    /\ Bear(ts) /\ ts \in Nat
    /\ clock <= ts + MaxLag \/ (pc = "commit" /\ pending.rows # <<>> /\ ts = pending.at)

(* A step inserts rows, or only takes some away; what is fetched is there. *)
LEMMA TableOfStep ==
    ASSUME Base, [Next]_vars
    PROVE  \/ Grown /\ clock' = clock /\ todo' \subseteq todo /\ \E ts : BornAt(ts)
           \/ /\ inserted' = inserted /\ watched' \subseteq watched
              /\ events' \subseteq events
              /\ todo' \subseteq todo \/ todo' \subseteq events
              /\ Tick \/ clock' = clock
              /\ Prune \/ events' = events
<1> USE DEF db, memory, results, ghosts
<1>1. Types /\ Table /\ Polling /\ clock \in Nat /\ MaxLag \in Nat
  BY Numbers, CorrelationMonitorAssumption DEF Base
<1>2. ASSUME NEW kind \in Kinds, NEW ts \in 0..MaxClock, Record(kind, ts)
      PROVE  Grown /\ clock' = clock /\ todo' \subseteq todo /\ BornAt(ts)
  BY <1>1, <1>2, StepsThatInsert DEF Record, BornAt
<1>3. ASSUME NEW outcome \in Outcomes, Respond(outcome)
      PROVE  UNCHANGED <<events, inserted, clock, watched, todo>>
  BY <1>3 DEF Respond
<1>4. CASE Logged
  BY <1>1, <1>4, StepsThatInsert DEF Logged, Examined, BornAt
<1>5. CASE NotLogged \/ Raised
  BY <1>5 DEF NotLogged, Abandon, Raised, Examined
<1>6. CASE Tick
  BY <1>6 DEF Tick
<1>7. CASE Prune
  BY <1>7 DEF Prune
<1>8. CASE Start \/ ReadStart \/ Down
  BY <1>8 DEF Start, ReadStart, Down
<1>9. CASE Commit
  <2>1. Grown /\ clock' = clock /\ todo' = todo /\ pc = "commit"
    BY <1>1, <1>9, StepsThatInsert DEF Commit
  <2>2. CASE pending.rows = <<>>
    <3>1. events' = events \cup NewRows(<<>>, pending.at)
      BY <1>1, <1>9, <2>2, StepsThatInsert
    <3>2. NewRows(<<>>, pending.at) = {}
      BY DEF NewRows
    <3>3. BornAt(clock)
      BY <1>1, <3>1, <3>2 DEF BornAt, Bear
    <3> QED BY <2>1, <3>3
  <2>3. CASE pending.rows # <<>>
    <3>1. Bear(pending.at) /\ pending.at \in Nat
      <4>1. MaxClock \in Nat
        BY <1>1, Numbers
      <4> QED BY <1>1, <1>9, <4>1, StepsThatInsert DEF Types, Session
    <3> QED BY <2>1, <2>3, <3>1 DEF BornAt
  <2> QED BY <2>2, <2>3
<1>10. CASE Fetch \/ Examine \/ Correlate \/ RollBack \/ UNCHANGED vars
  BY <1>10 DEF Fetch, Examine, Examined, Correlate, RollBack, Abandon, vars
<1> QED BY <1>2, <1>3, <1>4, <1>5, <1>6, <1>7, <1>8, <1>9, <1>10 DEF Next, Poll

IsAlerted(u) == alerts[u] > 0 \/ u \in pending.alerts

(* An alert in the session is committed or stays; a matching row that is    *)
(* examined gets one.                                                       *)
LEMMA AlertsOfStep ==
    ASSUME Base, [Next]_vars, Calm', examined' # {}, NEW u \in Uids
    PROVE  /\ IsAlerted(u) => IsAlerted(u)'
           /\ u \in examined' \ examined =>
                  \E r \in todo : r.uid = u /\ (r.kind \in Matching => IsAlerted(u)')
<1> USE DEF db, memory, results, ghosts
<1>1. Types /\ Table /\ Polling
  BY DEF Base
<1>2. alerts \in [Uids -> Nat] /\ pending \in Session
  BY <1>1 DEF Types
<1>3. ASSUME UNCHANGED <<alerts, pending, examined>>
      PROVE  /\ IsAlerted(u) => IsAlerted(u)'
             /\ u \notin examined' \ examined
  BY <1>3 DEF IsAlerted
<1>4. ASSUME NEW kind \in Kinds, NEW ts \in 0..MaxClock, Record(kind, ts)
      PROVE  UNCHANGED <<alerts, pending, examined>>
  BY <1>4 DEF Record
<1>5. CASE Tick \/ Prune
  BY <1>3, <1>5 DEF Tick, Prune
<1>6. CASE ReadStart
  BY <1>3, <1>6 DEF ReadStart
<1>7. CASE Start \/ Down
  BY <1>7 DEF Start, Down
<1>8. CASE Fetch \/ UNCHANGED vars
  BY <1>3, <1>8 DEF Fetch, vars
<1>9. /\ todo # {} => NextRow \in todo
      /\ pc \in Outcomes => todo # {}
      /\ Alerting(NextRow).alerts = pending.alerts \cup {NextRow.uid}
  BY <1>2, InHandIs DEF Alerting, Session
<1>10. CASE Examine
  BY <1>9, <1>10 DEF Examine, Examined, IsAlerted
<1>11. ASSUME NEW outcome \in Outcomes, Respond(outcome)
       PROVE  UNCHANGED <<alerts, pending, examined>>
  BY <1>11 DEF Respond
<1>12. CASE Logged
  <2>1. alerts'[u] = IF u \in pending.alerts \cup {NextRow.uid} THEN alerts[u] + 1 ELSE alerts[u]
    BY <1>9, <1>12 DEF Logged, CommitAnd
  <2>2. alerts[u] \in Nat /\ examined' = examined \cup {NextRow.uid} /\ NextRow \in todo
    BY <1>2, <1>9, <1>12 DEF Logged, Examined
  <2> QED BY <2>1, <2>2 DEF IsAlerted
<1>13. ~NotLogged
  BY <1>1, Failing DEF NotLogged, Abandon
<1>14. CASE Raised
  BY <1>9, <1>14 DEF Raised, Examined, IsAlerted
<1>15. CASE Correlate
  <2>1. pending'.alerts = pending.alerts
    BY <1>2, <1>15 DEF Correlate, Reporting, Session
  <2> QED BY <1>15, <2>1 DEF Correlate, IsAlerted
<1>16. CASE Commit
  <2>1. alerts'[u] = IF u \in pending.alerts THEN alerts[u] + 1 ELSE alerts[u]
    BY <1>16 DEF Commit, CommitAnd
  <2> QED BY <1>2, <1>16, <2>1 DEF Commit, IsAlerted
<1>17. ~RollBack
  BY <1>1, Failing DEF RollBack, Abandon
<1> QED
  BY <1>3, <1>4, <1>5, <1>6, <1>7, <1>8, <1>10, <1>11, <1>12, <1>13, <1>14, <1>15, <1>16, <1>17
  DEF Next, Poll

(* Every matching row that was examined has its alert. *)
LEMMA AlertedStep ==
    ASSUME Base, AlertedWhenCalm, [Next]_vars
    PROVE  AlertedWhenCalm'
<1> SUFFICES ASSUME Calm', NEW r \in events', r.uid \in examined', r.kind \in Matching
             PROVE  IsAlerted(r.uid)'
  BY DEF AlertedWhenCalm, MatchesAreAlerted, RowsOf, IsAlerted
<1>1. Types /\ Table /\ Polling
  BY DEF Base
<1>2. Calm /\ examined' \subseteq examined \cup {s.uid : s \in todo}
  BY <1>1, HistoryOfStep, Failing DEF Calm
<1>3. r.uid \in Nat /\ r.uid <= inserted /\ inserted \in Nat
  <2>1. r.uid \in Uids /\ r.uid \in Nat
    <3>1. r \in Row
      BY TypesStep DEF Types
    <3>2. r.uid \in Uids
      BY <3>1 DEF Row
    <3> QED BY <1>1, <3>2, Numbers
  <2>2. \A s \in todo : s.uid <= inserted
    BY <1>1 DEF Table
  <2> QED BY <1>1, <1>2, <2>1, <2>2, Numbers DEF Polling
<1>4. r \in events
  BY <1>3, TableOfStep DEF Grown, Adds
<1>5. r.uid \in Uids
  BY <1>1, <1>4, Numbers
<1>6. CASE r.uid \in examined
  <2>1. IsAlerted(r.uid)
    BY <1>2, <1>4, <1>6 DEF AlertedWhenCalm, MatchesAreAlerted, RowsOf, IsAlerted
  <2> QED BY <1>5, <2>1, AlertsOfStep
<1>7. CASE r.uid \notin examined
  <2>1. PICK s \in todo : s.uid = r.uid /\ (s.kind \in Matching => IsAlerted(r.uid)')
    BY <1>5, <1>7, AlertsOfStep
  <2>2. s = r
    BY <1>1, <1>4, <2>1 DEF Table
  <2> QED BY <2>1, <2>2
<1> QED BY <1>6, <1>7
-----------------------------------------------------------------------------
(* Incidents: which are there, and what is withdrawn for them. *)

\* No incident is new; some may be rolled back.
NoneNew ==
    /\ Len(AllIncidents') <= Len(AllIncidents)
    /\ \A i \in 1..Len(AllIncidents') : AllIncidents'[i] = AllIncidents[i]

\* Everything is forgotten, by a stop or for the next run.
Forgotten == correlated' = {} /\ (pc' = "down" \/ run' = run + 1)

(* Only the scenarios add incidents, and only a failure takes some away. *)
LEMMA IncidentsOfStep ==
    ASSUME Base, [Next]_vars
    PROVE  /\ Correlate => AllIncidents = incidents /\ incidents' = incidents
           /\ Correlate \/ NoneNew
           /\ \/ Correlate
              \/ Forgotten
              \/ /\ correlated' = correlated /\ run' = run
                 /\ Calm' => AllIncidents' = AllIncidents
<1> USE DEF db, memory, results, ghosts
<1>1. Types /\ Table /\ Polling
  BY DEF Base
<1>2. incidents \in Seq(Incident) /\ pending.incidents \in Seq(Incident) /\ pending \in Session
  BY <1>1 DEF Types, Session
<1>3. incidents \o <<>> = incidents
  BY <1>2
<1>4. AllIncidents \in Seq(Incident) /\ AllIncidents \o <<>> = AllIncidents
  BY <1>2 DEF AllIncidents
<1>5. /\ Len(AllIncidents) \in Nat /\ Len(incidents) <= Len(AllIncidents)
      /\ \A i \in 1..Len(incidents) : incidents[i] = AllIncidents[i]
  BY <1>2 DEF AllIncidents
<1>6. ASSUME AllIncidents' = AllIncidents PROVE NoneNew
  BY <1>5, <1>6 DEF NoneNew
<1>7. ASSUME incidents' = incidents, pending' = Nothing PROVE NoneNew
  <2>1. AllIncidents' = incidents
    BY <1>3, <1>7 DEF AllIncidents, Nothing
  <2> QED BY <1>5, <2>1 DEF NoneNew
<1>8. ASSUME incidents' = incidents, pending'.incidents = pending.incidents
      PROVE  AllIncidents' = AllIncidents
  BY <1>8 DEF AllIncidents
<1> DEFINE Same == correlated' = correlated /\ run' = run /\ AllIncidents' = AllIncidents
<1>9. CASE Tick \/ Prune \/ ReadStart \/ Fetch
  <2>1. Same
    BY <1>8, <1>9 DEF Tick, Prune, ReadStart, Fetch
  <2>2. ~Correlate
    <3>1. CASE Tick \/ Prune
      BY <1>9, <3>1 DEF Tick, Prune, Correlate
    <3>2. CASE ReadStart \/ Fetch
      BY <1>9, <3>2 DEF ReadStart, Fetch, Correlate
    <3> QED BY <1>9, <3>1, <3>2
  <2> QED BY <1>6, <2>1, <2>2
<1>10. ASSUME NEW kind \in Kinds, NEW ts \in 0..MaxClock, Record(kind, ts)
       PROVE  Same /\ ~Correlate
  <2>1. recorded' = recorded + 1 /\ recorded \in Nat
    BY <1>1, <1>10, CorrelationMonitorAssumption DEF Record, Types
  <2>2. ~Correlate
    BY <2>1 DEF Correlate
  <2>3. Same
    BY <1>8, <1>10 DEF Record
  <2> QED BY <2>2, <2>3
<1>11. CASE Start \/ Down
  <2>1. NoneNew
    BY <1>7, <1>11 DEF Start, Down
  <2>2. Forgotten /\ ~Correlate
    BY <1>11 DEF Start, Down, Correlate, Forgotten
  <2> QED BY <2>1, <2>2
<1>12. pending.incidents = <<>> \/ pc = "commit"
  BY <1>1 DEF Polling
<1>13. CASE Examine
  <2>1. pending'.incidents = pending.incidents
    BY <1>2, <1>13 DEF Examine, Alerting, Session
  <2>2. Same
    BY <1>8, <1>13, <2>1 DEF Examine
  <2>3. ~Correlate
    BY <1>13 DEF Examine, Correlate
  <2> QED BY <1>6, <2>2, <2>3
<1>14. ASSUME NEW outcome \in Outcomes, Respond(outcome) PROVE Same /\ ~Correlate
  <2>1. ~Correlate
    BY <1>14 DEF Respond, Correlate
  <2>2. Same
    BY <1>8, <1>14 DEF Respond
  <2> QED BY <2>1, <2>2
<1>15. "rules" \notin Outcomes /\ "commit" \notin Outcomes
  BY CorrelationMonitorAssumption
<1>16. CASE Logged
  <2>1. pending.incidents = <<>> /\ ~Correlate
    BY <1>12, <1>15, <1>16 DEF Logged, Correlate
  <2>2. Alerting(NextRow).incidents = pending.incidents
    BY <1>2 DEF Alerting, Session
  <2>3. pending'.incidents = <<>>
    BY <1>16 DEF Logged, Nothing
  <2>4. incidents' = incidents \o <<>>
    BY <1>16, <2>1, <2>2 DEF Logged, CommitAnd
  <2>5. AllIncidents' = AllIncidents
    BY <1>3, <2>1, <2>3, <2>4 DEF AllIncidents
  <2> QED BY <1>6, <1>16, <2>1, <2>5 DEF Logged
<1>17. CASE NotLogged
  <2>1. NoneNew
    BY <1>7, <1>17 DEF NotLogged, Abandon
  <2>2. ~Correlate /\ correlated' = correlated /\ run' = run /\ ~Calm'
    BY <1>1, <1>15, <1>17, Failing DEF NotLogged, Abandon, Correlate
  <2> QED BY <2>1, <2>2
<1>18. CASE Raised
  <2>1. pending'.incidents = pending.incidents
    BY <1>2, <1>18 DEF Raised, Alerting, Session
  <2>2. Same
    BY <1>8, <1>18, <2>1 DEF Raised
  <2>3. ~Correlate
    BY <1>15, <1>18 DEF Raised, Correlate
  <2> QED BY <1>6, <2>2, <2>3
<1>19. ASSUME Correlate PROVE AllIncidents = incidents /\ incidents' = incidents
  <2>1. pending.incidents = <<>>
    BY <1>12, <1>19 DEF Correlate
  <2> QED BY <1>3, <1>19, <2>1 DEF Correlate, AllIncidents
<1>20. CASE Commit
  <2>1. incidents' = AllIncidents /\ pending'.incidents = <<>>
    BY <1>20 DEF Commit, CommitAnd, AllIncidents, Nothing
  <2>2. AllIncidents' = AllIncidents
    BY <1>4, <2>1 DEF AllIncidents
  <2>3. correlated' = correlated /\ run' = run /\ ~Correlate
    BY <1>20 DEF Commit, Correlate
  <2> QED BY <1>6, <2>2, <2>3
<1>21. CASE RollBack
  <2>1. NoneNew
    BY <1>7, <1>21 DEF RollBack, Abandon
  <2>2. correlated' = correlated /\ run' = run /\ ~Calm' /\ ~Correlate
    BY <1>1, <1>21, Failing DEF RollBack, Abandon, Correlate
  <2> QED BY <2>1, <2>2
<1>22. CASE UNCHANGED vars
  <2>1. Same /\ ~Correlate
    BY <1>8, <1>22 DEF vars, Correlate
  <2> QED BY <1>6, <2>1
<1> QED
  BY <1>6, <1>9, <1>10, <1>11, <1>13, <1>14, <1>16, <1>17, <1>18, <1>19, <1>20, <1>21, <1>22
  DEF Next, Poll

\* The incidents of this poll's matches, after those there were.
Reports(new) ==
    /\ new = [i \in 1..Len(Matches) |-> IncidentOf(Matches[i].chain)]
    /\ new \in Seq(Incident) /\ AllIncidents' = AllIncidents \o new
    /\ \A i \in 1..Len(AllIncidents) : AllIncidents'[i] = AllIncidents[i]
    /\ \A k \in 1..Len(AllIncidents') :
           k \notin 1..Len(AllIncidents) => k - Len(AllIncidents) \in 1..Len(new)
    /\ \A k \in 1..Len(AllIncidents') :
           k \notin 1..Len(AllIncidents) => AllIncidents'[k] = new[k - Len(AllIncidents)]
    /\ Len(AllIncidents) \in Nat /\ Len(AllIncidents') = Len(AllIncidents) + Len(new)

(* What the scenarios add to the incidents. *)
LEMMA CorrelateReports ==
    ASSUME Base, [Next]_vars, Correlate
    PROVE  /\ \E new : Reports(new)
           /\ run > 0 /\ pc = "rules" /\ pc' = "commit" /\ run' = run
           /\ events' = events /\ inserted' = inserted /\ HasRoom(pending.rows)
           /\ pending'.rows = pending.rows /\ pending'.at = clock
           /\ correlated' =
                  correlated \cup UNION {ChainIds(Matches[i].chain) : i \in 1..Len(Matches)}
<1> USE DEF db, memory, results, ghosts
<1>1. Types /\ Table /\ Polling
  BY DEF Base
<1>2. run > 0 /\ pc = "rules"
  BY <1>1 DEF Correlate, Polling
<1>3. AllIncidents = incidents /\ incidents' = incidents
  BY IncidentsOfStep
<1> DEFINE new == [i \in 1..Len(Matches) |-> IncidentOf(Matches[i].chain)]
<1>4. new \in Seq(Incident) /\ HasRoom(pending.rows)
  BY <1>1, <1>2, IncidentsOfMatches DEF Correlate
<1>5. incidents \in Seq(Incident)
  BY <1>1 DEF Types
<1>6. pending'.incidents = new /\ pending'.rows = pending.rows /\ pending'.at = clock
  <2>1. pending \in Session
    BY <1>1 DEF Types
  <2>2. pending' = [pending EXCEPT !.incidents = new, !.at = clock]
    BY DEF Correlate, Reporting
  <2> HIDE DEF new
  <2> QED BY <2>1, <2>2 DEF Session
<1>7. new = [i \in 1..Len(Matches) |-> IncidentOf(Matches[i].chain)]
  OBVIOUS
<1> HIDE DEF new
<1>8. AllIncidents' = AllIncidents \o new /\ AllIncidents \in Seq(Incident)
  BY <1>3, <1>5, <1>6 DEF AllIncidents
<1> DEFINE all == AllIncidents
           more == AllIncidents'
<1>9. /\ Len(all) \in Nat /\ Len(more) = Len(all) + Len(new) /\ Len(new) \in Nat
      /\ \A i \in 1..Len(all) : more[i] = all[i]
      /\ \A k \in 1..Len(more) :
             k \notin 1..Len(all) => k - Len(all) \in 1..Len(new)
      /\ \A k \in 1..Len(more) :
             k \notin 1..Len(all) => more[k] = new[k - Len(all)]
  <2>1. all \in Seq(Incident) /\ more = all \o new
    BY <1>8
  <2> HIDE DEF all, more
  <2> QED BY <1>4, <2>1
<1>10. Reports(new)
  BY <1>4, <1>7, <1>8, <1>9 DEF Reports
<1> QED BY <1>2, <1>4, <1>6, <1>10 DEF Correlate

(* Of a report's incidents: their rows are in the table, or the session's *)
(* own, and were free.                                                     *)
LEMMA ReportedRows ==
    ASSUME Base, [Next]_vars, Correlate, NEW new, Reports(new), NEW i \in 1..Len(new)
    PROVE  /\ new[i].run = run /\ Len(new) = Len(Matches) /\ Len(new) \in Nat
           /\ new[i].ids = ChainIds(Matches[i].chain) /\ new[i].ids \subseteq correlated'
           /\ \A id \in new[i].ids : id \notin correlated
           /\ \A r \in Visible : r.uid \in new[i].uids => r.id \in new[i].ids
           /\ \A u \in new[i].uids : \E r \in Visible : r.uid = u
<1>1. /\ Types /\ Table /\ run > 0 /\ HasRoom(pending.rows)
      /\ new = [k \in 1..Len(Matches) |-> IncidentOf(Matches[k].chain)]
  BY CorrelateReports DEF Base, Reports
<1>2. Len(new) = Len(Matches) /\ Len(new) \in Nat
  BY <1>1, IncidentsOfMatches, MatchesAre
<1>3. i \in 1..Len(Matches)
  BY <1>2
<1>4. /\ new[i].run = run /\ new[i].ids = ChainIds(Matches[i].chain)
      /\ \A u \in new[i].uids : \E r \in Visible : r.uid = u /\ r.id \in ChainIds(Matches[i].chain)
  BY <1>1, <1>3, IncidentsOfMatches
<1>5. \A id \in ChainIds(Matches[i].chain) : id \notin correlated
  BY <1>1, <1>3, MatchesAre
<1>6. ASSUME NEW r \in Visible, r.uid \in new[i].uids PROVE r.id \in new[i].ids
  <2>1. PICK s \in Visible : s.uid = r.uid /\ s.id \in ChainIds(Matches[i].chain)
    BY <1>4, <1>6
  <2>2. s = r
    BY <1>1, <2>1, VisibleIs DEF Adds
  <2> QED BY <1>4, <2>1, <2>2
<1>7. ChainIds(Matches[i].chain) \subseteq correlated'
  BY <1>3, CorrelateReports
<1> QED BY <1>2, <1>4, <1>5, <1>6, <1>7

(* What the table holds once the session commits, but for rows just       *)
(* inserted, it held before; the session's last uid is taken back only     *)
(* together with its incidents.                                            *)
LEMMA TabledOfStep ==
    ASSUME Base, [Next]_vars, ~Correlate
    PROVE  /\ \A r \in Tabled' : r.uid <= Last => r \in Tabled
           /\ Last <= Last' \/ Len(AllIncidents') <= Len(incidents)
           /\ Last <= inserted' \/ Len(incidents') <= Len(incidents)
<1> USE DEF db, memory, results, ghosts
<1>1. Types /\ Table /\ Polling /\ Types'
  BY TypesStep DEF Base
<1>2. /\ inserted \in Nat /\ inserted' \in Nat /\ Len(pending.rows) \in Nat
      /\ Len(incidents) \in Nat
  <2>1. pending.rows \in Seq({AutoResponse}) /\ incidents \in Seq(Incident)
    BY <1>1 DEF Types, Session
  <2>2. inserted \in Nat /\ MaxRows \in Nat
    BY <1>1, Numbers
  <2>3. inserted' \in 0..MaxRows
    BY <1>1 DEF Types
  <2> QED BY <2>1, <2>2, <2>3
<1>3. Outcomes \subseteq {"done", "refused", "error"}
  BY CorrelationMonitorAssumption
<1> DEFINE Goal == /\ \A r \in Tabled' : r.uid <= Last => r \in Tabled
                   /\ Last <= Last' \/ Len(AllIncidents') <= Len(incidents)
                   /\ Last <= inserted' \/ Len(incidents') <= Len(incidents)
<1> SUFFICES Goal
  OBVIOUS
<1>4. ASSUME UNCHANGED <<events, inserted, incidents, pc, pending>> PROVE Goal
  <2>1. Tabled' = Tabled /\ Last' = Last
    BY <1>4 DEF Tabled, Last, NewRows, LargestId
  <2> QED BY <1>2, <1>4, <2>1 DEF Last
<1>5. ASSUME pc # "commit" \/ pending.rows = <<>> PROVE Tabled = events /\ Last = inserted
  BY <1>2, <1>5 DEF Tabled, Last, NewRows
<1>6. ASSUME pc # "commit" \/ pending.rows = <<>>, pc' # "commit" \/ pending'.rows = <<>>,
             Len(incidents') <= Len(incidents)
      PROVE  Goal
  <2>1. Tabled = events /\ Last = inserted
    BY <1>5, <1>6
  <2>2. Tabled' = events' /\ Last' = inserted'
    <3>0. inserted' + 0 = inserted'
      <4>1. \A n \in Nat : n + 0 = n
        OBVIOUS
      <4> QED BY <1>2, <4>1, Zenon
    <3>1. CASE pc' # "commit"
      <4>1. Tabled' = events'
        BY <3>1 DEF Tabled
      <4>2. Last' = inserted' + 0
        BY <3>1 DEF Last
      <4> QED BY <3>0, <4>1, <4>2
    <3>2. CASE pending'.rows = <<>>
      <4>1. Len(pending'.rows) = 0 /\ 1..0 = {}
        BY <3>2
      <4>2. NewRows(pending.rows, pending.at)' = {}
        BY <4>1 DEF NewRows
      <4>3. Tabled' = events'
        BY <4>2 DEF Tabled
      <4>4. Last' = inserted' + 0
        BY <4>1 DEF Last
      <4> QED BY <3>0, <4>3, <4>4
    <3> QED BY <1>6, <3>1, <3>2
  <2>3. inserted <= inserted'
    BY <1>2, TableOfStep DEF Grown, Adds
  <2>4. ASSUME NEW r \in events', r.uid <= inserted PROVE r \in events
    <3>1. r \in Row
      BY <1>1 DEF Types
    <3>2. r.uid \in Nat
      BY <1>1, <3>1, Numbers DEF Row
    <3> QED BY <1>2, <2>4, <3>2, TableOfStep DEF Grown, Adds
  <2> QED BY <1>6, <2>1, <2>2, <2>3, <2>4
<1>7. ASSUME events' \subseteq events, inserted' = inserted, incidents' = incidents,
             pending' = Nothing, pc' # "commit"
      PROVE  Goal
  <2>1. Tabled' = events' /\ AllIncidents' = incidents
    <3>1. incidents \in Seq(Incident) /\ incidents \o <<>> = incidents
      BY <1>1 DEF Types
    <3> QED BY <1>7, <3>1 DEF Tabled, AllIncidents, Nothing
  <2> QED BY <1>2, <1>7, <2>1 DEF Tabled
<1>8. CASE Tick
  BY <1>4, <1>8 DEF Tick
<1>9. ASSUME NEW kind \in Kinds, NEW ts \in 0..MaxClock, Record(kind, ts) PROVE Goal
  <2>1. pc # "commit" \/ pending.rows = <<>>
    BY <1>1, <1>9 DEF Record, WriteLockFree, Nothing, Types, Session
  <2> QED BY <1>2, <1>6, <1>9, <2>1 DEF Record
<1>10. CASE Prune
  <2>1. pc # "commit" \/ pending.rows = <<>>
    BY <1>1, <1>10 DEF Prune, WriteLockFree, Nothing, Types, Session
  <2> QED BY <1>2, <1>6, <1>10, <2>1 DEF Prune
<1>11. CASE Start \/ Down
  BY <1>7, <1>11 DEF Start, Down
<1>12. CASE ReadStart \/ Fetch \/ Examine
  BY <1>2, <1>6, <1>12 DEF ReadStart, Fetch, Examine
<1>13. ASSUME NEW outcome \in Outcomes, Respond(outcome) PROVE Goal
  BY <1>2, <1>3, <1>6, <1>13 DEF Respond
<1>14. CASE Logged
  <2>1. pc # "commit" /\ pc' # "commit" /\ pending.incidents = <<>>
    BY <1>1, <1>3, <1>14 DEF Logged, Polling
  <2>2. Alerting(NextRow).incidents = pending.incidents
    BY <1>1 DEF Alerting, Types, Session
  <2>3. incidents' = incidents
    <3>1. incidents' = incidents \o <<>> /\ incidents \in Seq(Incident)
      BY <1>1, <1>14, <2>1, <2>2 DEF Logged, CommitAnd, Types
    <3> QED BY <3>1
  <2> QED BY <1>2, <1>6, <2>1, <2>3
<1>15. CASE NotLogged \/ RollBack
  BY <1>7, <1>15 DEF NotLogged, RollBack, Abandon
<1>16. CASE Raised
  BY <1>2, <1>3, <1>6, <1>16 DEF Raised
<1>17. CASE Commit
  <2>1. pc = "commit" /\ pc' = "idle" /\ inserted' = inserted + Len(pending.rows)
        /\ events' = events \cup NewRows(pending.rows, pending.at)
    BY <1>1, <1>17, StepsThatInsert DEF Commit
  <2>2. Tabled' = Tabled /\ Last' = Last /\ Last = inserted' /\ Last \in Nat
    BY <1>2, <2>1 DEF Tabled, Last
  <2> QED BY <2>2
<1>18. CASE UNCHANGED vars
  BY <1>4, <1>18 DEF vars
<1> HIDE DEF Goal
<1> QED
  BY <1>8, <1>9, <1>10, <1>11, <1>12, <1>13, <1>14, <1>15, <1>16, <1>17, <1>18 DEF Next, Poll

\* What Withdrawn says of one incident, the i-th, in the next state.
StaysWithdrawn(incident, i) ==
    /\ incident.run <= run'
    /\ \A u \in incident.uids : u <= Last' /\ (i <= Len(incidents') => u <= inserted')
    /\ incident.run = run' /\ pc' # "down" =>
           \A r \in Tabled' : r.uid \in incident.uids => r.id \in correlated'

(* An incident's rows are withdrawn as long as its run lasts. *)
LEMMA WithdrawnStep ==
    ASSUME Base, Withdrawn, [Next]_vars
    PROVE  Withdrawn'
<1>1. Types /\ Table /\ Polling /\ Types'
  BY TypesStep DEF Base
<1>2. /\ run \in Nat /\ run' \in Nat /\ inserted \in Nat /\ inserted' \in Nat
      /\ inserted <= inserted' /\ Last \in Nat /\ Last' \in Nat
      /\ inserted <= Last /\ inserted' <= Last'
      /\ Len(incidents) \in Nat /\ Len(incidents') \in Nat
  <2>1. /\ pending.rows \in Seq({AutoResponse}) /\ pending'.rows \in Seq({AutoResponse})
        /\ incidents \in Seq(Incident) /\ incidents' \in Seq(Incident)
    BY <1>1 DEF Types, Session
  <2>2. run \in Nat /\ inserted \in Nat /\ MaxRows \in Nat /\ MaxRuns \in Nat
    BY <1>1, Numbers
  <2>3. run' \in 0..MaxRuns /\ inserted' \in 0..MaxRows
    BY <1>1 DEF Types
  <2>4. inserted <= inserted'
    BY <2>2, TableOfStep DEF Grown, Adds
  <2>5. /\ Len(pending.rows) \in Nat /\ Len(pending'.rows) \in Nat
        /\ Len(incidents) \in Nat /\ Len(incidents') \in Nat
        /\ run' \in Nat /\ inserted' \in Nat
    BY <2>1, <2>2, <2>3
  <2>6. Last = inserted + Len(pending.rows) \/ Last = inserted + 0
    BY DEF Last
  <2>7. Last' = inserted' + Len(pending'.rows) \/ Last' = inserted' + 0
    BY DEF Last
  <2> QED BY <2>2, <2>4, <2>5, <2>6, <2>7
<1>3. AllIncidents \in Seq(Incident) /\ AllIncidents' \in Seq(Incident)
  BY <1>1 DEF Types, Session, AllIncidents
<1>4. \A v \in Incident : v.uids \subseteq Uids /\ v.run \in Nat
  BY Numbers, <1>1 DEF Incident
<1>5. ASSUME NEW i \in 1..Len(AllIncidents)
      PROVE  /\ AllIncidents[i].run <= run /\ AllIncidents[i].run \in Nat
             /\ \A u \in AllIncidents[i].uids :
                    u \in Nat /\ u <= Last /\ (i <= Len(incidents) => u <= inserted)
  <2>1. AllIncidents[i] \in Incident
    BY <1>3
  <2> QED BY <1>1, <1>4, <2>1, Numbers DEF Withdrawn
<1>6. ASSUME NEW i \in 1..Len(AllIncidents), correlated \subseteq correlated' \/ Forgotten,
             \A r \in Tabled' : r.uid \in AllIncidents[i].uids => r \in Tabled,
             \A u \in AllIncidents[i].uids : u <= Last' /\ (i <= Len(incidents') => u <= inserted')
      PROVE  StaysWithdrawn(AllIncidents[i], i)
  <2>1. AllIncidents[i].run <= run'
    BY <1>2, <1>5, RunOfStep
  <2>2. ASSUME AllIncidents[i].run = run', pc' # "down",
               NEW r \in Tabled', r.uid \in AllIncidents[i].uids
        PROVE  r.id \in correlated'
    <3>1. run' = run /\ pc # "down"
      BY <1>2, <1>5, <2>2, RunOfStep
    <3>2. correlated \subseteq correlated'
      BY <1>2, <1>6, <2>2, <3>1 DEF Forgotten
    <3>3. r \in Tabled
      BY <1>6, <2>2
    <3>4. r.id \in correlated
      BY <2>2, <3>1, <3>3 DEF Withdrawn
    <3> QED BY <3>2, <3>4
  <2> QED BY <1>6, <2>1, <2>2 DEF StaysWithdrawn
<1>7. (\A k \in 1..Len(AllIncidents') : StaysWithdrawn(AllIncidents'[k], k)) => Withdrawn'
  BY DEF Withdrawn, StaysWithdrawn
<1>8. CASE Correlate
  <2>1. PICK new : Reports(new)
    BY <1>8, CorrelateReports
  <2>2. /\ run' = run /\ inserted' = inserted /\ correlated \subseteq correlated'
        /\ events' = events /\ pc = "rules" /\ pc' = "commit" /\ HasRoom(pending.rows)
        /\ pending'.rows = pending.rows /\ pending'.at = clock
        /\ AllIncidents = incidents /\ incidents' = incidents
    BY <1>8, CorrelateReports, IncidentsOfStep
  <2>3. /\ Tabled' = Visible /\ Tabled = events /\ Last = inserted
        /\ Last' = inserted + Len(pending.rows)
    BY <1>2, <2>2 DEF Tabled, Last, Visible, NewRows, LargestId
  <2>4. Adds(Visible, Last')
    BY <1>1, <2>2, <2>3, VisibleIs
  <2>5. ASSUME NEW k \in 1..Len(AllIncidents') PROVE StaysWithdrawn(AllIncidents'[k], k)
    <3>1. CASE k \in 1..Len(AllIncidents)
      <4>1. AllIncidents'[k] = AllIncidents[k]
        BY <2>1, <3>1 DEF Reports
      <4>2. ASSUME NEW r \in Tabled', r.uid \in AllIncidents[k].uids PROVE r \in Tabled
        BY <1>2, <1>5, <2>3, <2>4, <3>1, <4>2 DEF Adds
      <4>3. \A u \in AllIncidents[k].uids : u <= Last' /\ u <= inserted'
        BY <1>2, <1>5, <2>2, <2>3, <3>1
      <4> QED BY <1>6, <2>2, <3>1, <4>1, <4>2, <4>3
    <3>2. CASE k \notin 1..Len(AllIncidents)
      <4> DEFINE i == k - Len(AllIncidents)
      <4>1. i \in 1..Len(new) /\ AllIncidents'[k] = new[i] /\ ~(k <= Len(incidents'))
        BY <1>2, <2>1, <2>2, <2>5, <3>2 DEF Reports
      <4> HIDE DEF i
      <4>2. /\ new[i].run = run /\ new[i].ids \subseteq correlated'
            /\ \A r \in Visible : r.uid \in new[i].uids => r.id \in new[i].ids
            /\ \A u \in new[i].uids : \E r \in Visible : r.uid = u
        BY <1>8, <2>1, <4>1, ReportedRows
      <4>3. \A u \in new[i].uids : u <= Last'
        BY <2>4, <4>2 DEF Adds
      <4> QED BY <1>2, <2>2, <2>3, <4>1, <4>2, <4>3 DEF StaysWithdrawn
    <3> QED BY <3>1, <3>2
  <2> QED BY <1>7, <2>5
<1>9. CASE ~Correlate
  <2>1. NoneNew /\ (correlated \subseteq correlated' \/ Forgotten)
    BY <1>9, IncidentsOfStep
  <2>2. /\ \A r \in Tabled' : r.uid <= Last => r \in Tabled
        /\ Last <= Last' \/ Len(AllIncidents') <= Len(incidents)
        /\ Last <= inserted' \/ Len(incidents') <= Len(incidents)
    BY <1>9, TabledOfStep
  <2>3. Len(AllIncidents) \in Nat /\ Len(AllIncidents') \in Nat
    BY <1>3
  <2>4. ASSUME NEW k \in 1..Len(AllIncidents') PROVE StaysWithdrawn(AllIncidents'[k], k)
    <3>1. k \in 1..Len(AllIncidents) /\ AllIncidents'[k] = AllIncidents[k]
      BY <2>1, <2>3 DEF NoneNew
    <3>2. \A r \in Tabled' : r.uid \in AllIncidents[k].uids => r \in Tabled
      BY <1>5, <2>2, <3>1
    <3>3. ASSUME NEW u \in AllIncidents[k].uids
          PROVE  u <= Last' /\ (k <= Len(incidents') => u <= inserted')
      <4>1. u \in Nat /\ u <= Last /\ (k <= Len(incidents) => u <= inserted)
        BY <1>5, <3>1
      <4> QED BY <1>2, <2>2, <2>3, <4>1
    <3> QED BY <1>6, <2>1, <3>1, <3>2, <3>3
  <2> QED BY <1>7, <2>4
<1> QED BY <1>8, <1>9

(* The incidents of a run share no event. *)
LEMMA DisjointStep ==
    ASSUME Base, Withdrawn, IncidentsAreDisjoint, [Next]_vars
    PROVE  IncidentsAreDisjoint'
<1> DEFINE Separate(v, w) == v.run = w.run => v.uids \cap w.uids = {}
<1>1. Types /\ Table /\ inserted \in Nat
  BY Numbers DEF Base
<1>2. AllIncidents \in Seq(Incident) /\ Len(AllIncidents) \in Nat /\ Len(AllIncidents') \in Nat
  <2>1. Types /\ Types'
    BY <1>1, TypesStep
  <2>2. AllIncidents \in Seq(Incident)
    BY <2>1 DEF Types, Session, AllIncidents
  <2>3. AllIncidents' \in Seq(Incident)
    BY <2>1 DEF Types, Session, AllIncidents
  <2> QED BY <2>2, <2>3
<1>3. \A i, j \in 1..Len(AllIncidents) : i # j => Separate(AllIncidents[i], AllIncidents[j])
  BY DEF IncidentsAreDisjoint, AllIncidents
<1>4. (\A i, j \in 1..Len(AllIncidents') : i # j => Separate(AllIncidents'[i], AllIncidents'[j]))
         => IncidentsAreDisjoint'
  BY DEF IncidentsAreDisjoint, AllIncidents
<1>5. CASE Correlate
  <2>1. PICK new : Reports(new)
    BY <1>5, CorrelateReports
  <2> DEFINE old == 1..Len(AllIncidents)
             at(k) == k - Len(AllIncidents)
  <2>2. pc = "rules" /\ HasRoom(pending.rows) /\ Adds(Visible, inserted + Len(pending.rows))
    BY <1>1, <1>5, CorrelateReports, VisibleIs
  <2>3. \A k \in 1..Len(AllIncidents') :
            /\ k \in old => AllIncidents'[k] = AllIncidents[k]
            /\ k \notin old => at(k) \in 1..Len(new) /\ AllIncidents'[k] = new[at(k)]
    BY <2>1 DEF Reports
  <2>4. ASSUME NEW k \in old, NEW i \in 1..Len(new)
        PROVE  Separate(AllIncidents[k], new[i]) /\ Separate(new[i], AllIncidents[k])
    <3> SUFFICES ASSUME AllIncidents[k].run = new[i].run,
                        NEW u \in AllIncidents[k].uids \cap new[i].uids
                 PROVE  FALSE
      OBVIOUS
    <3>1. /\ new[i].run = run /\ \A id \in new[i].ids : id \notin correlated
          /\ \A r \in Visible : r.uid \in new[i].uids => r.id \in new[i].ids
      BY <1>5, <2>1, ReportedRows
    <3>2. PICK r \in Visible : r.uid = u
      BY <1>5, <2>1, ReportedRows
    <3>3. r \in events
      <4>1. u <= Last /\ Last = inserted /\ r.uid \in Nat
        <5>1. u <= Last /\ Last = inserted /\ r \in Row
          BY <1>1, <2>2, <3>2 DEF Withdrawn, Last, Adds
        <5> QED BY <1>1, <5>1, Numbers DEF Row
      <4> QED BY <1>1, <2>2, <3>2, <4>1 DEF Adds
    <3>4. r.id \in correlated
      BY <2>2, <3>1, <3>2, <3>3 DEF Withdrawn, Tabled
    <3> QED BY <3>1, <3>2, <3>4
  <2>5. ASSUME NEW i \in 1..Len(new), NEW j \in 1..Len(new), i # j PROVE Separate(new[i], new[j])
    <3> SUFFICES ASSUME NEW u \in new[i].uids \cap new[j].uids PROVE FALSE
      OBVIOUS
    <3>1. /\ Len(new) = Len(Matches)
          /\ new[i].ids = ChainIds(Matches[i].chain) /\ new[j].ids = ChainIds(Matches[j].chain)
          /\ \A r \in Visible : r.uid \in new[i].uids => r.id \in new[i].ids
          /\ \A r \in Visible : r.uid \in new[j].uids => r.id \in new[j].ids
      BY <1>5, <2>1, ReportedRows
    <3>2. PICK r \in Visible : r.uid = u
      BY <1>5, <2>1, ReportedRows
    <3>3. new[i].ids \cap new[j].ids = {}
      BY <1>1, <2>2, <2>5, <3>1, MatchesAre
    <3> QED BY <3>1, <3>2, <3>3
  <2>6. ASSUME NEW k \in 1..Len(AllIncidents'), NEW l \in 1..Len(AllIncidents'), k # l
        PROVE  Separate(AllIncidents'[k], AllIncidents'[l])
    <3> HIDE DEF Separate
    <3>1. CASE k \in old /\ l \in old
      <4>1. Separate(AllIncidents[k], AllIncidents[l])
        BY <1>3, <2>6, <3>1
      <4> QED BY <2>3, <3>1, <4>1
    <3>2. CASE k \in old /\ l \notin old
      BY <2>3, <2>4, <3>2
    <3>3. CASE k \notin old /\ l \in old
      BY <2>3, <2>4, <3>3
    <3>4. CASE k \notin old /\ l \notin old
      <4>1. at(k) # at(l)
        BY <1>2, <2>6
      <4> QED BY <2>3, <2>5, <3>4, <4>1
    <3> QED BY <3>1, <3>2, <3>3, <3>4
  <2> QED BY <1>4, <2>6
<1>6. CASE ~Correlate
  <2>1. NoneNew
    BY <1>6, IncidentsOfStep
  <2> HIDE DEF Separate
  <2>2. \A i \in 1..Len(AllIncidents') :
            i \in 1..Len(AllIncidents) /\ AllIncidents'[i] = AllIncidents[i]
    BY <1>2, <2>1 DEF NoneNew
  <2> QED BY <1>3, <1>4, <2>2
<1> QED BY <1>5, <1>6

(* What is withdrawn is reported, while the database answers. *)
LEMMA ReportedStep ==
    ASSUME Base, CorrelatedIsReported, [Next]_vars
    PROVE  CorrelatedIsReported'
<1> DEFINE Tells(n, v, id) == v.run = n /\ id \in v.ids
<1> SUFFICES ASSUME Calm', NEW id \in correlated'
             PROVE  \E i \in 1..Len(AllIncidents') : Tells(run', AllIncidents'[i], id)
  BY DEF CorrelatedIsReported, AllIncidents
<1>1. Types /\ Table
  BY DEF Base
<1>2. Calm
  BY <1>1, HistoryOfStep, Failing DEF Calm
<1>3. \A c \in correlated : \E i \in 1..Len(AllIncidents) : Tells(run, AllIncidents[i], c)
  BY <1>2 DEF CorrelatedIsReported, AllIncidents
<1>4. CASE Correlate
  <2>1. PICK new : Reports(new)
    BY <1>4, CorrelateReports
  <2>2. run' = run
    BY <1>4, CorrelateReports
  <2>3. /\ Len(new) \in Nat /\ Len(AllIncidents) \in Nat
        /\ Len(AllIncidents') = Len(AllIncidents) + Len(new)
    BY <2>1 DEF Reports
  <2>4. CASE id \in correlated
    <3>1. PICK i \in 1..Len(AllIncidents) : Tells(run, AllIncidents[i], id)
      BY <1>3, <2>4
    <3>2. i \in 1..Len(AllIncidents') /\ AllIncidents'[i] = AllIncidents[i]
      BY <2>1, <2>3 DEF Reports
    <3> QED BY <2>2, <3>1, <3>2
  <2>5. CASE id \notin correlated
    <3>1. PICK i \in 1..Len(Matches) : id \in ChainIds(Matches[i].chain)
      BY <1>4, <2>5, CorrelateReports
    <3>2. i \in 1..Len(new)
      <4>1. Len(new) = Len(Matches)
        BY <1>1, <1>4, <2>1, CorrelateReports, IncidentsOfMatches DEF Reports
      <4> QED BY <4>1
    <3>3. new[i].run = run /\ id \in new[i].ids
      BY <1>4, <2>1, <3>1, <3>2, ReportedRows
    <3> DEFINE k == Len(AllIncidents) + i
    <3>4. k \in 1..Len(AllIncidents') /\ k \notin 1..Len(AllIncidents) /\ k - Len(AllIncidents) = i
      BY <2>3, <3>2
    <3> HIDE DEF k
    <3>5. AllIncidents'[k] = new[i]
      BY <2>1, <3>4 DEF Reports
    <3> QED BY <2>2, <3>3, <3>4, <3>5
  <2> QED BY <2>4, <2>5
<1>5. CASE ~Correlate
  <2>1. correlated' = correlated /\ run' = run /\ AllIncidents' = AllIncidents
    BY <1>5, IncidentsOfStep DEF Forgotten
  <2> QED BY <1>3, <2>1
<1> QED BY <1>4, <1>5
-----------------------------------------------------------------------------
(* With a retention that the newest row outlives, ids never come back. *)

\* events_days is longer than any time the table goes without a new row, and
\* than that row may have been on its way.
RetentionOutlasts == MaxIdle + MaxLag <= Retention /\ MaxOff + MaxLag <= Retention

(* The newest row has the id of the last one inserted. *)
LEMMA NoIdComesBack ==
    ASSUME Base, Lasting
    PROVE  LargestId = inserted
<1>1. Types /\ Table
  BY DEF Base
<1>2. LargestId \in 0..inserted /\ inserted \in Nat /\ \A r \in events : r.id <= LargestId
  BY <1>1, LargestIdIs, Numbers
<1> QED BY <1>2 DEF Lasting

(* While the session's flushed rows wait for the commit, the table waits. *)
LEMMA SessionOfStep ==
    ASSUME Base, [Next]_vars, pc' = "commit", pending'.rows # <<>>
    PROVE  \/ Correlate
           \/ /\ pc = "commit" /\ pending' = pending /\ events' = events
              /\ Tick \/ clock' = clock
<1> USE DEF db, memory, results, ghosts
<1>1. Outcomes \subseteq {"done", "refused", "error"}
  BY CorrelationMonitorAssumption
<1>2. pending = [Nothing EXCEPT !.at = pending.at] => pending.rows = <<>>
  BY DEF Nothing
<1>3. ASSUME NEW kind \in Kinds, NEW ts \in 0..MaxClock, Record(kind, ts) PROVE FALSE
  BY <1>2, <1>3 DEF Record, WriteLockFree
<1>4. ASSUME NEW outcome \in Outcomes, Respond(outcome) PROVE FALSE
  BY <1>1, <1>4 DEF Respond
<1>5. CASE Prune
  BY <1>2, <1>5 DEF Prune, WriteLockFree
<1>6. CASE Tick \/ UNCHANGED vars
  BY <1>6 DEF Tick, vars
<1>7. ASSUME Start \/ Down \/ ReadStart \/ Fetch \/ Examine \/ Logged \/ NotLogged \/ Raised
                \/ Commit \/ RollBack
      PROVE  FALSE
  BY <1>1, <1>7 DEF Start, Down, ReadStart, Fetch, Examine, Logged, NotLogged, Raised, Commit,
                    RollBack, Abandon
<1> QED BY <1>3, <1>4, <1>5, <1>6, <1>7 DEF Next, Poll

(* No row of the table is much older than one with a smaller id; the newest *)
(* stays: time does not outrun it, and a prune leaves it.                   *)
LEMMA RowsLast ==
    ASSUME RetentionOutlasts, Base, Lasting, [Next]_vars
    PROVE  /\ \A r \in events' \cup todo' : r.id = r.uid
           /\ \A r, s \in events' : r.id <= s.id => r.ts <= s.ts + MaxLag
           /\ inserted' > 0 =>
                  \E r \in events' : r.id = inserted' /\ clock' <= r.ts + Retention
<1>1. Types /\ Table /\ Polling /\ Types'
  BY TypesStep DEF Base
<1>2. /\ inserted \in Nat /\ clock \in Nat /\ Retention \in Nat /\ MaxIdle \in Nat /\ MaxOff \in Nat
      /\ MaxLag \in Nat /\ pending.at \in Nat /\ clock' \in Nat /\ inserted' \in Nat
      /\ \A r \in events \cup todo : r.id \in Nat /\ r.uid \in Nat /\ r.ts \in Nat
      /\ \A r \in events \cup todo : r.id <= inserted /\ r.uid <= inserted /\ r.ts <= clock
  <2>1. /\ inserted \in Nat /\ clock \in Nat /\ Retention \in Nat /\ MaxRows \in Nat
        /\ \A r \in events \cup todo : r.id \in Nat /\ r.uid \in Nat /\ r.ts \in Nat
    BY <1>1, Numbers
  <2>2. MaxIdle \in Nat /\ MaxOff \in Nat /\ MaxLag \in Nat /\ MaxClock \in Nat
    BY CorrelationMonitorAssumption
  <2>3. clock' \in 0..MaxClock /\ inserted' \in 0..MaxRows /\ pending.at \in 0..MaxClock
    BY <1>1 DEF Types, Session
  <2>4. \A r \in events \cup todo : r.id <= inserted /\ r.uid <= inserted /\ r.ts <= clock
    BY <1>1 DEF Table
  <2> QED BY <2>1, <2>2, <2>3, <2>4
<1>3. /\ \A r \in events \cup todo : r.id = r.uid
      /\ \A r, s \in events : r.id <= s.id => r.ts <= s.ts + MaxLag
      /\ inserted > 0 => \E r \in events : r.id = inserted /\ clock <= r.ts + Retention
      /\ pc = "commit" /\ pending.rows # <<>> =>
             clock <= pending.at + Retention /\ \A r \in events : r.ts <= pending.at
  BY DEF Lasting
<1> DEFINE Rows == /\ \A r \in events' \cup todo' : r.id = r.uid
                   /\ \A r, s \in events' : r.id <= s.id => r.ts <= s.ts + MaxLag
                   /\ inserted' > 0 =>
                          \E r \in events' : r.id = inserted' /\ clock' <= r.ts + Retention
<1>4. ASSUME Grown, clock' = clock, todo' \subseteq todo, NEW ts, BornAt(ts) PROVE Rows
  <2>1. LargestId = inserted /\ events \subseteq events'
    BY <1>1, <1>4, NoIdComesBack DEF Grown, Adds
  <2>2. /\ ts \in Nat /\ clock <= ts + Retention
        /\ \A r \in events : r.ts <= ts + MaxLag
    <3>1. ts \in Nat /\ (clock <= ts + MaxLag \/ (pc = "commit" /\ pending.rows # <<>> /\ ts = pending.at))
      BY <1>4 DEF BornAt
    <3>2. CASE clock <= ts + MaxLag
      BY <1>2, <3>1, <3>2 DEF RetentionOutlasts
    <3>3. CASE pc = "commit" /\ pending.rows # <<>> /\ ts = pending.at
      BY <1>2, <1>3, <3>1, <3>3
    <3> QED BY <3>1, <3>2, <3>3
  <2>3. ASSUME NEW r \in events' \ events
        PROVE  r.id = r.uid /\ r.ts = ts /\ inserted < r.id /\ r.id \in Nat
    <3>1. r \in Row
      BY <1>4 DEF Grown, Adds
    <3>2. r.id \in Nat /\ r.uid \in Nat
      BY <1>1, <3>1, Numbers DEF Row
    <3>3. inserted < r.uid /\ r.ts = ts /\ r.id + inserted = r.uid + LargestId
      BY <1>4 DEF Grown, Adds, BornAt, Bear
    <3> QED BY <1>2, <2>1, <3>2, <3>3
  <2>4. ASSUME NEW r \in events', NEW s \in events', r.id <= s.id PROVE r.ts <= s.ts + MaxLag
    <3>1. CASE r \in events /\ s \in events
      BY <1>3, <2>4, <3>1
    <3>2. CASE r \notin events /\ s \in events
      BY <1>2, <2>3, <2>4, <3>2
    <3>3. CASE r \in events /\ s \notin events
      BY <2>2, <2>3, <3>3
    <3>4. CASE r \notin events /\ s \notin events
      BY <1>2, <2>2, <2>3, <3>4
    <3> QED BY <3>1, <3>2, <3>3, <3>4
  <2>5. ASSUME inserted' > 0
        PROVE  \E r \in events' : r.id = inserted' /\ clock' <= r.ts + Retention
    <3>1. CASE inserted' = inserted
      BY <1>3, <1>4, <2>1, <2>5, <3>1
    <3>2. CASE inserted' # inserted
      <4>1. inserted' \in (inserted + 1)..inserted'
        <5>1. inserted <= inserted'
          BY <1>4 DEF Grown, Adds
        <5> QED BY <1>2, <3>2, <5>1
      <4>2. PICK r \in events' : r.uid = inserted'
        BY <1>4, <4>1 DEF Grown, Adds
      <4>3. r \notin events
        BY <1>2, <4>1, <4>2
      <4> QED BY <1>4, <2>2, <2>3, <4>2, <4>3
    <3> QED BY <3>1, <3>2
  <2>6. \A r \in events' \cup todo' : r.id = r.uid
    BY <1>3, <1>4, <2>3
  <2> QED BY <2>4, <2>5, <2>6
<1>5. ASSUME inserted' = inserted, events' \subseteq events,
             todo' \subseteq todo \/ todo' \subseteq events,
             Tick \/ clock' = clock, Prune \/ events' = events
      PROVE  Rows
  <2>1. ASSUME inserted > 0 PROVE \E r \in events' : r.id = inserted' /\ clock' <= r.ts + Retention
    <3>1. PICK r \in events : r.id = inserted /\ clock <= r.ts + Retention
      BY <1>3, <2>1
    <3>2. clock' <= r.ts + Retention
      <4>1. CASE clock' = clock
        BY <3>1, <4>1
      <4>2. CASE Tick
        <5>1. PICK s \in events : clock - s.ts < MaxOff \/ clock - s.ts < MaxIdle
          BY <3>1, <4>2 DEF Tick
        <5>2. s.ts <= r.ts + MaxLag
          BY <1>2, <1>3, <3>1
        <5>3. s.ts \in Nat /\ r.ts \in Nat
          BY <1>2
        <5>4. clock - s.ts < Retention - MaxLag
          BY <1>2, <5>1, <5>3 DEF RetentionOutlasts
        <5>5. clock' = clock + 1
          BY <4>2 DEF Tick
        <5> QED BY <1>2, <5>2, <5>3, <5>4, <5>5
      <4> QED BY <1>5, <4>1, <4>2
    <3>3. r \in events'
      BY <1>2, <1>5, <3>1 DEF Prune
    <3> QED BY <1>5, <3>1, <3>2, <3>3
  <2> QED BY <1>3, <1>5, <2>1
<1>6. Rows
  <2> HIDE DEF Rows
  <2> QED BY <1>4, <1>5, TableOfStep DEF Base
<1> QED BY <1>6

(* No id comes back, and an incident's ids stay those of its rows. *)
LEMMA LastingStep ==
    ASSUME RetentionOutlasts, Base, Lasting, [Next]_vars
    PROVE  Lasting'
<1>1. Types /\ Table /\ Polling /\ LargestId = inserted
  BY NoIdComesBack DEF Base
<1>2. ASSUME pc' = "commit", pending'.rows # <<>>
      PROVE  clock' <= pending'.at + Retention /\ \A r \in events' : r.ts <= pending'.at
  <2>1. /\ clock \in Nat /\ Retention \in Nat /\ MaxIdle \in Nat /\ MaxOff \in Nat
        /\ MaxLag \in Nat /\ inserted \in Nat /\ \A r \in events : r.ts \in Nat /\ r.ts <= clock
    BY <1>1, Numbers, CorrelationMonitorAssumption DEF Table
  <2>2. CASE Correlate
    <3>1. pending'.at = clock /\ events' = events /\ clock' = clock
      BY <2>2, CorrelateReports DEF Correlate, db
    <3> QED BY <2>1, <3>1
  <2>3. CASE pc = "commit" /\ pending' = pending /\ events' = events /\ (Tick \/ clock' = clock)
    <3>1. clock <= pending.at + Retention /\ \A r \in events : r.ts <= pending.at
      BY <1>2, <2>3 DEF Lasting
    <3>2. CASE Tick
      <4>1. inserted > 0
        BY <1>1, <1>2, <2>3 DEF Polling
      <4>2. PICK s \in events : clock - s.ts < MaxOff \/ clock - s.ts < MaxIdle
        BY <3>2, <4>1 DEF Tick, Lasting
      <4>3. s.ts <= pending.at /\ s.ts \in Nat /\ pending.at \in Nat
        <5>1. pending.at \in 0..MaxClock /\ MaxClock \in Nat
          BY <1>1, Numbers DEF Types, Session
        <5> QED BY <2>1, <3>1, <5>1
      <4>4. clock' = clock + 1
        BY <3>2 DEF Tick
      <4>5. clock - s.ts < Retention
        BY <2>1, <4>2, <4>3 DEF RetentionOutlasts
      <4>6. clock' <= pending.at + Retention
        BY <2>1, <4>3, <4>4, <4>5
      <4> QED BY <2>3, <3>1, <4>6
    <3> QED BY <2>3, <3>1, <3>2
  <2> QED BY <1>2, <2>2, <2>3, SessionOfStep
<1>3. ASSUME NEW k \in 1..Len(AllIncidents') PROVE AllIncidents'[k].uids = AllIncidents'[k].ids
  <2>1. \A i \in 1..Len(AllIncidents) : AllIncidents[i].uids = AllIncidents[i].ids
    BY DEF Lasting
  <2>2. CASE Correlate
    <3>1. PICK new : Reports(new)
      BY <2>2, CorrelateReports
    <3>2. CASE k \in 1..Len(AllIncidents)
      BY <2>1, <3>1, <3>2 DEF Reports
    <3>3. CASE k \notin 1..Len(AllIncidents)
      <4> DEFINE i == k - Len(AllIncidents)
      <4>1. i \in 1..Len(new) /\ AllIncidents'[k] = new[i]
        BY <1>3, <3>1, <3>3 DEF Reports
      <4> HIDE DEF i
      <4>2. /\ new = [m \in 1..Len(Matches) |-> IncidentOf(Matches[m].chain)] /\ run > 0
            /\ Len(new) = Len(Matches) /\ HasRoom(pending.rows)
        BY <1>1, <2>2, <3>1, <4>1, CorrelateReports, ReportedRows DEF Reports
      <4>3. /\ \A u \in new[i].uids : \E r \in Visible : r.uid = u /\ r.id \in new[i].ids
            /\ \A id \in new[i].ids : \E r \in Visible : r.id = id /\ r.uid \in new[i].uids
        <5>1. i \in 1..Len(Matches)
          BY <4>1, <4>2
        <5> QED BY <1>1, <4>2, <5>1, IncidentsOfMatches
      <4>4. ASSUME NEW r \in Visible PROVE r.id = r.uid
        <5>1. CASE r \in events
          BY <5>1 DEF Lasting
        <5>2. CASE r \notin events
          <6>1. Adds(Visible, inserted + Len(pending.rows))
            BY <1>1, <4>2, VisibleIs
          <6>2. r \in Row /\ r.id + inserted = r.uid + LargestId
            BY <5>2, <6>1 DEF Adds
          <6>3. r.id \in Nat /\ r.uid \in Nat /\ inserted \in Nat
            BY <1>1, <6>2, Numbers DEF Row
          <6> QED BY <1>1, <6>2, <6>3
        <5> QED BY <5>1, <5>2
      <4>5. new[i].uids \subseteq new[i].ids /\ new[i].ids \subseteq new[i].uids
        BY <4>3, <4>4
      <4>6. new[i].uids = new[i].ids
        BY <4>5
      <4> QED BY <4>1, <4>6
    <3> QED BY <3>2, <3>3
  <2>3. CASE ~Correlate
    <3>1. NoneNew
      BY <2>3, IncidentsOfStep
    <3>2. Len(AllIncidents) \in Nat /\ Len(AllIncidents') \in Nat
      <4>1. AllIncidents \in Seq(Incident)
        BY <1>1 DEF Types, Session, AllIncidents
      <4>2. AllIncidents' \in Seq(Incident)
        BY TypesStep DEF Types, Session, AllIncidents
      <4> QED BY <4>1, <4>2
    <3>3. k \in 1..Len(AllIncidents) /\ AllIncidents'[k] = AllIncidents[k]
      BY <3>1, <3>2 DEF NoneNew
    <3> QED BY <2>1, <3>3
  <2> QED BY <2>2, <2>3
<1> QED BY <1>2, <1>3, RowsLast DEF Lasting

(* How a step moves the cursor and the fetched list. *)
LEMMA CursorOfStep ==
    ASSUME Base, [Next]_vars
    PROVE  \/ watched' = {} /\ todo' = {}
           \/ /\ cursor' = cursor /\ examined' = examined
              /\ \/ todo' = todo \/ todo' = {}
                 \/ todo' = {r \in events' : r.id > cursor}
           \/ todo # {} /\ Examined(NextRow)
<1> USE DEF db, memory, results, ghosts
<1>1. Types /\ Table /\ Polling
  BY DEF Base
<1>2. ASSUME NEW kind \in Kinds, NEW ts \in 0..MaxClock, Record(kind, ts)
      PROVE  UNCHANGED <<cursor, examined, todo>>
  BY <1>2 DEF Record
<1>3. ASSUME NEW outcome \in Outcomes, Respond(outcome)
      PROVE  UNCHANGED <<cursor, examined, todo>>
  BY <1>3 DEF Respond
<1>4. CASE Tick \/ Prune \/ Fetch \/ Correlate \/ Commit \/ RollBack \/ UNCHANGED vars
  BY <1>4 DEF Tick, Prune, Fetch, Correlate, Commit, RollBack, Abandon, vars
<1>5. CASE Start \/ Down \/ ReadStart
  BY <1>1, <1>5, CorrelationMonitorAssumption DEF Start, Down, ReadStart, Polling, Ruling
<1>6. CASE Examine
  BY <1>6 DEF Examine
<1>7. CASE Logged \/ Raised
  BY <1>1, <1>7 DEF Logged, Raised, Polling
<1>8. CASE NotLogged
  BY <1>8 DEF NotLogged, Abandon
<1> QED BY <1>2, <1>3, <1>4, <1>5, <1>6, <1>7, <1>8 DEF Next, Poll

(* The fetched list has no gap. *)
LEMMA NoGapStep ==
    ASSUME Base, Lasting, NoGap, [Next]_vars
    PROVE  NoGap'
<1> SUFFICES ASSUME NEW r \in todo', NEW s \in events', cursor' < s.id, s.id <= r.id
             PROVE  s \in todo'
  BY DEF NoGap
<1>1. Types /\ Table /\ Polling
  BY DEF Base
<1>2. /\ \A t \in events \cup todo : t.id \in Nat
      /\ cursor \in Nat /\ inserted \in Nat /\ LargestId = inserted
      /\ \A t \in todo : t.id <= inserted
  BY <1>1, Numbers, NoIdComesBack DEF Table
<1>3. s.id \in Nat
  <2>1. s \in Row
    BY TypesStep DEF Types
  <2>2. s.id \in Uids
    BY <2>1 DEF Row
  <2> QED BY <1>1, <2>2, Numbers
<1>4. ASSUME r \in todo PROVE s \in events
  <2>1. r.id <= inserted /\ r.id \in Nat
    BY <1>2, <1>4
  <2> QED BY <1>2, <1>3, <2>1, TableOfStep DEF Grown, Adds
<1>5. CASE cursor' = cursor /\ todo' = todo
  BY <1>4, <1>5 DEF NoGap
<1>6. CASE todo' = {t \in events' : t.id > cursor} /\ cursor' = cursor
  BY <1>2, <1>3, <1>6
<1>7. CASE todo # {} /\ Examined(NextRow)
  <2>1. NextRow \in todo /\ cursor' = NextRow.id /\ todo' = todo \ {NextRow} /\ NextRow.id > cursor
    BY <1>1, <1>7, NextRowIs DEF Examined, Polling
  <2>2. s \in events /\ s.id > cursor /\ s.id # NextRow.id
    BY <1>2, <1>3, <1>4, <2>1
  <2>3. s \in todo
    BY <1>2, <2>1, <2>2 DEF NoGap
  <2> QED BY <2>1, <2>2, <2>3
<1> QED BY <1>5, <1>6, <1>7, CursorOfStep

(* No row inserted under the monitor's eyes is passed by the cursor. *)
LEMMA NoneSkippedStep ==
    ASSUME Base, Lasting, NoGap, NoneSkipped, [Next]_vars
    PROVE  NoneSkipped'
<1> SUFFICES ASSUME NEW r \in events', r.uid \in watched', r.uid \notin examined'
             PROVE  r.id > cursor'
  BY DEF NoneSkipped, RowsOf
<1>1. Types /\ Table /\ Polling
  BY DEF Base
<1>2. /\ \A t \in events \cup todo : t.id \in Nat
      /\ cursor \in Nat /\ inserted \in Nat /\ LargestId = inserted /\ cursor <= inserted
  BY <1>1, Numbers, NoIdComesBack
<1>3. r.id \in Nat /\ r.uid \in Nat
  <2>1. r \in Row
    BY TypesStep DEF Types
  <2>2. r.id \in Uids /\ r.uid \in Uids
    BY <2>1 DEF Row
  <2> QED BY <1>1, <2>2, Numbers
<1>4. todo # {} => NextRow \in todo /\ NextRow.id <= inserted
  BY <1>1, NextRowIs
<1>5. CASE r \in events
  <2>1. r.uid \in watched
    <3>1. r.uid <= inserted
      BY <1>1, <1>5 DEF Table
    <3>2. r.uid \notin (inserted + 1)..inserted'
      BY <1>2, <1>3, <3>1
    <3> QED BY <3>2, TableOfStep DEF Grown, Adds
  <2>2. ASSUME examined \subseteq examined' PROVE r.id > cursor
    BY <1>5, <2>1, <2>2 DEF NoneSkipped, RowsOf
  <2>3. CASE todo # {} /\ Examined(NextRow)
    <3>1. /\ cursor' = NextRow.id /\ r.uid # NextRow.uid /\ r.id > cursor
          /\ NextRow \in todo /\ NextRow.id \in Nat
      BY <1>2, <1>4, <2>2, <2>3 DEF Examined
    <3>2. r.id <= NextRow.id => r \in todo
      BY <1>2, <1>5, <3>1 DEF NoGap
    <3>3. r \in todo => NextRow.id < r.id
      BY <1>1, <2>3, <3>1, NextRowIs
    <3> QED BY <1>3, <3>1, <3>2, <3>3
  <2> QED BY <2>2, <2>3, CursorOfStep
<1>6. CASE r \notin events
  <2>1. r.id > inserted
    BY <1>2, <1>6, TableOfStep DEF Grown, Adds
  <2>2. cursor' <= inserted
    <3>1. NextRow \in todo => NextRow.id \in Nat
      BY <1>2
    <3> QED BY <1>2, <1>4, CursorOfStep DEF Examined
  <2>3. cursor' \in Nat
    BY TypesStep, <1>2 DEF Types
  <2> QED BY <1>2, <1>3, <2>1, <2>2, <2>3
<1> QED BY <1>5, <1>6
-----------------------------------------------------------------------------
(* The theorems. *)

\* The inductive invariant, whatever the retention.
Invariant ==
    /\ Base /\ Counts /\ Once /\ Fresh /\ AttemptsAreAudited /\ AlertedWhenCalm
    /\ Withdrawn /\ IncidentsAreDisjoint /\ CorrelatedIsReported

\* ... and what comes on top of it when no id comes back.
Kept == Lasting /\ NoGap /\ NoneSkipped

(* Nothing has happened at first. *)
LEMMA InitInvariant == Init => Invariant /\ Kept
<1> SUFFICES ASSUME Init PROVE Invariant /\ Kept
  OBVIOUS
<1>1. Base
  BY InitBase
<1>2. \A u \in Uids : alerts[u] = 0 /\ responses[u] = 0 /\ audited[u] = 0
  BY DEF Init
<1>3. run = 0 /\ pc = "down" /\ events = {} /\ todo = {} /\ pending.alerts = {}
  BY DEF Init, Nothing
<1>4. AllIncidents = <<>>
  <2>1. pending.incidents = <<>> /\ incidents = <<>>
    BY DEF Init, Nothing
  <2> QED BY <2>1 DEF AllIncidents
<1>5. Counts /\ Once
  <2>1. MaxRuns \in Nat
    BY CorrelationMonitorAssumption
  <2> QED BY <1>2, <1>3, <2>1 DEF Counts, Once
<1>6. Fresh /\ AttemptsAreAudited
  <2>1. InHand = {}
    BY <1>3, CorrelationMonitorAssumption DEF InHand
  <2> QED BY <1>2, <1>3, <2>1 DEF Fresh, AttemptsAreAudited
<1>7. AlertedWhenCalm /\ NoGap /\ NoneSkipped
  BY <1>3 DEF AlertedWhenCalm, MatchesAreAlerted, NoGap, NoneSkipped, RowsOf
<1>8. Withdrawn
  BY <1>4 DEF Withdrawn
<1>9. IncidentsAreDisjoint /\ CorrelatedIsReported
  <2>1. correlated = {}
    BY DEF Init
  <2> QED BY <1>4, <2>1 DEF IncidentsAreDisjoint, CorrelatedIsReported, AllIncidents
<1>10. Lasting
  <2>1. inserted = 0
    BY DEF Init
  <2> QED BY <1>3, <1>4, <2>1 DEF Lasting
<1> QED BY <1>1, <1>5, <1>6, <1>7, <1>8, <1>9, <1>10 DEF Invariant, Kept

(* Every step keeps all of it. *)
LEMMA InvariantStep ==
    ASSUME Invariant, [Next]_vars
    PROVE  Invariant'
<1>1. Base'
  BY TypesStep, TableStep, PollingStep DEF Invariant, Base
<1>2. Counts' /\ Once' /\ Fresh'
  BY CountsStep, OnceStep, FreshStep DEF Invariant
<1>3. AttemptsAreAudited' /\ AlertedWhenCalm'
  BY AuditStep, AlertedStep DEF Invariant
<1>4. Withdrawn' /\ IncidentsAreDisjoint' /\ CorrelatedIsReported'
  BY WithdrawnStep, DisjointStep, ReportedStep DEF Invariant
<1> QED BY <1>1, <1>2, <1>3, <1>4 DEF Invariant

(* The invariant of the monitor, whatever the retention. *)
LEMMA Invariance == SafeSpec => []Invariant
<1>1. Init => Invariant
  BY InitInvariant
<1>2. Invariant /\ [Next]_vars => Invariant'
  BY InvariantStep
<1> QED BY <1>1, <1>2, PTL DEF SafeSpec

(* ... and with one that the newest row outlives. *)
LEMMA Keeping ==
    ASSUME RetentionOutlasts
    PROVE  SafeSpec => []Kept
<1>1. Init => Kept
  BY InitInvariant
<1>2. Invariant /\ Kept /\ [Next]_vars => Kept'
  <2> SUFFICES ASSUME Invariant, Kept, [Next]_vars PROVE Kept'
    OBVIOUS
  <2>1. Base /\ Lasting /\ NoGap /\ NoneSkipped
    BY DEF Invariant, Kept
  <2>2. Lasting'
    BY <2>1, LastingStep
  <2>3. NoGap' /\ NoneSkipped'
    BY <2>1, NoGapStep, NoneSkippedStep
  <2> QED BY <2>2, <2>3 DEF Kept
<1> QED BY <1>1, <1>2, Invariance, PTL DEF SafeSpec

(***************************************************************************)
(* The monitor's state keeps its types: in particular the cursor stays     *)
(* within the ids given so far, and a row has at most one alert per run    *)
(* of the agent, whatever fails.                                           *)
(***************************************************************************)
THEOREM TypesHold == SafeSpec => []TypeOK
<1>1. Invariant => TypeOK
  <2> SUFFICES ASSUME Invariant PROVE TypeOK
    OBVIOUS
  <2>1. Types /\ Counts
    BY DEF Invariant, Base
  <2>2. MaxRuns \in Nat /\ run \in Nat /\ run <= MaxRuns
    BY <2>1, Numbers DEF Types
  <2>3. ASSUME NEW u \in Uids
        PROVE  /\ alerts[u] \in 0..MaxRuns /\ audited[u] \in 0..MaxRuns
               /\ responses[u] \in 0..(MaxRuns + 1)
    <3>1. alerts[u] \in Nat /\ responses[u] \in Nat /\ audited[u] \in Nat
      BY <2>1 DEF Types
    <3>2. alerts[u] <= run /\ audited[u] <= run /\ responses[u] <= MaxRuns + 1
      BY <2>1 DEF Counts
    <3> QED BY <2>2, <3>1, <3>2
  <2>4. /\ {alerts, audited} \subseteq [Uids -> 0..MaxRuns]
        /\ responses \in [Uids -> 0..(MaxRuns + 1)]
    <3>1. {alerts, responses, audited} \subseteq [Uids -> Nat]
      BY <2>1 DEF Types
    <3> QED BY <2>3, <3>1
  <2> QED BY <2>1, <2>4 DEF Types, TypeOK
<1> QED BY <1>1, Invariance, PTL

(***************************************************************************)
(* "a match creates an Alert": every matching row that a poll has examined *)
(* has its alert in the database or in the open session, as long as the    *)
(* database answers; an auto-response that is refused or raises in the     *)
(* middle of the poll, a stop or a prune never loses one.                  *)
(***************************************************************************)
THEOREM AlertsAreKept == SafeSpec => []AlertedWhenCalm
<1>1. Invariant => AlertedWhenCalm
  BY DEF Invariant
<1> QED BY <1>1, Invariance, PTL

(***************************************************************************)
(* A row is alerted once and its action attempted once in the whole        *)
(* history, crashes between an action and its audit row and restarts       *)
(* included, unless a commit or a start query that raised put that row     *)
(* before the rules again; and every attempt has its row of audit, but one *)
(* that the agent's end, an exception or that very commit cut off.         *)
(***************************************************************************)
THEOREM ActionsAreOnce == SafeSpec => []ActedOnce
<1>1. Invariant => ActedOnce
  <2> SUFFICES ASSUME Invariant PROVE ActedOnce
    OBVIOUS
  <2>1. Types /\ Once /\ AttemptsAreAudited
    BY DEF Invariant, Base
  <2>2. AlertedOnce
    <3> SUFFICES ASSUME NEW u \in Uids \ again
                 PROVE  alerts[u] + (IF u \in pending.alerts THEN 1 ELSE 0) <= 1
      BY DEF AlertedOnce
    <3>1. alerts[u] \in Nat /\ alerts[u] <= 1 /\ (u \in pending.alerts => alerts[u] = 0)
      BY <2>1 DEF Types, Once
    <3> QED BY <3>1
  <2>3. RespondedOnce
    BY <2>1 DEF RespondedOnce, Once
  <2> QED BY <2>1, <2>2, <2>3 DEF ActedOnce
<1> QED BY <1>1, Invariance, PTL

(***************************************************************************)
(* "we never replay old history on startup": a run examines only rows      *)
(* inserted after it read its start cursor, or rows that a start query or  *)
(* a commit that raised put before the rules again, whatever the retention.*)
(***************************************************************************)
THEOREM HistoryIsNotReplayed == SafeSpec => []NoReplay
<1>1. Invariant => NoReplay
  <2> SUFFICES ASSUME Invariant, pc # "down"
               PROVE  {r.uid : r \in todo} \cup examined \subseteq watched \cup again
    BY DEF NoReplay
  <2>1. Polling /\ Fresh
    BY DEF Invariant, Base
  <2>2. CASE pc = "starting"
    BY <2>1, <2>2, CorrelationMonitorAssumption DEF Polling, Ruling
  <2>3. CASE pc # "starting"
    BY <2>1, <2>3 DEF Polling, Fresh
  <2> QED BY <2>2, <2>3
<1> QED BY <1>1, Invariance, PTL

(***************************************************************************)
(* When the newest row outlives every pause of the events, the cursor      *)
(* passes no row that was inserted while the monitor watched and was not   *)
(* put to the rules, and never goes back to history.                       *)
(***************************************************************************)
THEOREM CursorStaysSound ==
    ASSUME RetentionOutlasts
    PROVE  SafeSpec => []CursorIsSound
<1>1. Kept /\ NoReplay => CursorIsSound
  BY DEF Kept, CursorIsSound
<1> QED BY <1>1, Keeping, HistoryIsNotReplayed, PTL

(***************************************************************************)
(* Whatever the retention and whatever fails, two incidents of a run share *)
(* no event; and an event is withdrawn from correlation only for an        *)
(* incident that is there, as long as the database answers.                *)
(***************************************************************************)
THEOREM EventsAreReportedOnce == SafeSpec => [](IncidentsAreDisjoint /\ CorrelatedIsReported)
<1>1. Invariant => IncidentsAreDisjoint /\ CorrelatedIsReported
  BY DEF Invariant
<1> QED BY <1>1, Invariance, PTL

(***************************************************************************)
(* ... and when the newest row outlives every pause, what is exported for  *)
(* an incident is never another event under an id that has come back.      *)
(***************************************************************************)
THEOREM IncidentsStaySound ==
    ASSUME RetentionOutlasts
    PROVE  SafeSpec => []IncidentsAreSound
<1>1. Invariant /\ Kept => IncidentsAreSound
  <2> SUFFICES ASSUME Invariant, Kept PROVE ExportsAreTrue
    BY DEF Invariant, IncidentsAreSound
  <2> SUFFICES ASSUME NEW i \in 1..Len(incidents), NEW r \in events, r.id \in incidents[i].ids
               PROVE  r.uid \in incidents[i].uids
    BY DEF ExportsAreTrue, Exported
  <2>1. Types /\ Lasting
    BY DEF Invariant, Base, Kept
  <2>2. i \in 1..Len(AllIncidents) /\ AllIncidents[i] = incidents[i]
    <3>1. incidents \in Seq(Incident) /\ pending.incidents \in Seq(Incident)
      BY <2>1 DEF Types, Session
    <3> QED BY <3>1 DEF AllIncidents
  <2>3. incidents[i].uids = incidents[i].ids /\ r.id = r.uid
    BY <2>1, <2>2 DEF Lasting
  <2> QED BY <2>3
<1> QED BY <1>1, Invariance, Keeping, PTL
=============================================================================
