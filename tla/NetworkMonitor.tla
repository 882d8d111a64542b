---------------------------- MODULE NetworkMonitor ----------------------------
(***************************************************************************)
(* The network monitor: polls of the established connections, the writer   *)
(* that resolves each address through a small pool of look-up threads      *)
(* inside its transaction, and the order in which stop() takes them down.  *)
(*                                                                         *)
(* A connection stands for its key and its remote address.  A snapshot and *)
(* the puts that follow it are one step: nothing else touches what they    *)
(* read.  What a look-up answers is data; whether it answers is not.  A    *)
(* statement or a commit of the writer may raise, "database is locked" or  *)
(* otherwise: _write_batch rolls the transaction back and the queue's      *)
(* writer logs the failure and goes on with the next batch.                *)
(***************************************************************************)
EXTENDS Naturals, Sequences, FiniteSets

CONSTANTS
    Conns,        \* connections, by their key
    MaxOpens,     \* bound: how often one connection is opened
    MaxFailures,  \* bound: snapshots that raise AccessDenied
    MaxRollbacks, \* bound: transactions that fail
    PoolSize,     \* max_workers of the resolver's executor
    MaxCache      \* max_cache_entries of the resolver

ASSUME NetworkMonitorAssumption ==
    /\ IsFiniteSet(Conns)
    /\ MaxOpens \in Nat \ {0} /\ MaxCache \in Nat \ {0}
    /\ MaxFailures \in Nat /\ MaxRollbacks \in Nat /\ PoolSize \in Nat

VARIABLES
    open,       \* the established connections
    opens,      \* how often each was opened
    netPoll,    \* the poll thread
    netKnown,   \* NetworkMonitor._known
    netTold,    \* history, by connection: how often it was put on the queue
    failures,   \* snapshots that failed
    netQueue,   \* the queue to the writer
    netWriter,  \* the writer thread
    todo,       \* the part of its batch that has no row yet
    done,       \* the rows of its open transaction
    settled,    \* history, by connection: how often it was committed
    dropped,    \* history: a batch was rolled back for want of the resolver
    netFailed,  \* history, by connection: how often its transaction failed
    rollbacks,  \* how many transactions failed
    cache,      \* the addresses that the resolver has cached
    stuck,      \* look-ups that outlived their timeout and occupy the pool
    pool,       \* TRUE until the resolver's executor is shut down
    netOwner,   \* progress of stop()
    netLate     \* history: a join returned before its thread had ended

netPollVars == <<netPoll, netKnown, netTold, failures>>
failedVars == <<netFailed, rollbacks>>
netWriterVars == <<netWriter, todo, done, settled, dropped, failedVars>>
resolverVars == <<cache, stuck>>
netOwnerVars == <<netOwner, netLate, pool>>
networkVars == <<open, opens, netPollVars, netQueue, netWriterVars, resolverVars, netOwnerVars>>

NetworkTypeOK ==
    /\ open \subseteq Conns /\ netKnown \subseteq Conns
    /\ opens \in [Conns -> 0..MaxOpens]
    /\ netPoll \in {"new", "waiting", "ended"}
    /\ {netTold, settled, netFailed} \subseteq [Conns -> Nat]
    /\ failures \in 0..MaxFailures /\ rollbacks \in 0..MaxRollbacks
    /\ netQueue \in Seq(Conns) /\ todo \in Seq(Conns) /\ done \in Seq(Conns)
    /\ netWriter \in {"idle", "resolving", "ended"}
    /\ cache \subseteq Conns /\ Cardinality(cache) <= MaxCache
    /\ stuck \in Nat
    /\ netOwner \in {"running", "joining", "closing", "shutting", "stopped"}
    /\ dropped \in BOOLEAN /\ pool \in BOOLEAN /\ netLate \in BOOLEAN

NetworkInit ==
    /\ open \in SUBSET Conns
    /\ opens = [c \in Conns |-> IF c \in open THEN 1 ELSE 0]
    /\ netPoll = "new" /\ netKnown = {} /\ failures = 0
    /\ netTold = [c \in Conns |-> 0] /\ settled = netTold /\ dropped = FALSE
    /\ netFailed = netTold /\ rollbacks = 0
    /\ netQueue = <<>> /\ netWriter = "idle" /\ todo = <<>> /\ done = <<>>
    /\ cache = {} /\ stuck = 0 /\ pool = TRUE
    /\ netOwner = "running" /\ netLate = FALSE
-----------------------------------------------------------------------------
(* Connections are opened and closed. *)

Connect(c) ==
    /\ c \notin open /\ opens[c] < MaxOpens
    /\ open' = open \cup {c}
    /\ opens' = [opens EXCEPT ![c] = @ + 1]
    /\ UNCHANGED <<netPollVars, netQueue, netWriterVars, resolverVars, netOwnerVars>>

Disconnect(c) ==
    /\ c \in open
    /\ open' = open \ {c}
    /\ UNCHANGED <<opens, netPollVars, netQueue, netWriterVars, resolverVars, netOwnerVars>>
-----------------------------------------------------------------------------
(* The poll thread. *)

\* _snapshot: every established connection, or none when access is denied.
Snapshot(snapshot) ==
    \/ snapshot = open /\ UNCHANGED failures
    \/ snapshot = {} /\ failures < MaxFailures /\ failures' = failures + 1

\* A set in any of its orders: the order of psutil's list.
Orders(S) == {s \in [1..Cardinality(S) -> S] : \A c \in S : \E i \in DOMAIN s : s[i] = c}

\* How often c occurs in s.
Times(s, c) == Cardinality({i \in 1..Len(s) : s[i] = c})

SeedConnections ==
    /\ netPoll = "new"
    /\ netPoll' = "waiting"
    /\ \E snapshot \in SUBSET Conns : Snapshot(snapshot) /\ netKnown' = snapshot
    /\ UNCHANGED <<open, opens, netTold, netQueue, netWriterVars, resolverVars, netOwnerVars>>

\* Fault: the snapshot is not compared with the one before.
NewlySeenAll(snapshot) == snapshot

NewlySeen(snapshot) == snapshot \ netKnown

\* A failed snapshot becomes the known set like any other.
PollConnections ==
    /\ netPoll = "waiting"
    /\ \E snapshot \in SUBSET Conns :
           /\ Snapshot(snapshot)
           /\ \E news \in Orders(NewlySeen(snapshot)) : netQueue' = netQueue \o news
           /\ netTold' = [c \in Conns |->
                 IF c \in NewlySeen(snapshot) THEN netTold[c] + 1 ELSE netTold[c]]
           /\ netKnown' = snapshot
    /\ UNCHANGED <<open, opens, netPoll, netWriterVars, resolverVars, netOwnerVars>>

\* The stop event is set; a poll that hangs goes on for a while.
LeavePolls ==
    /\ netPoll # "ended" /\ netOwner # "running"
    /\ netPoll' = "ended"
    /\ UNCHANGED <<open, opens, netKnown, netTold, failures, netQueue, netWriterVars,
                   resolverVars, netOwnerVars>>
-----------------------------------------------------------------------------
(* The writer: one batch is one transaction. *)

TakeBatch ==
    /\ netWriter = "idle" /\ todo = <<>> /\ done = <<>> /\ netQueue # <<>>
    /\ todo' = netQueue
    /\ netQueue' = <<>>
    /\ UNCHANGED <<open, opens, netPollVars, netWriter, done, settled, dropped, failedVars,
                   resolverVars, netOwnerVars>>

\* A statement or the commit raises: nothing of the batch is kept, and the
\* writer goes on with the next one.
RollBack ==
    /\ rollbacks < MaxRollbacks /\ rollbacks' = rollbacks + 1
    /\ netFailed' = [c \in Conns |-> netFailed[c] + Times(done \o todo, c)]
    /\ todo' = <<>> /\ done' = <<>>
    /\ netWriter' = "idle"
    /\ UNCHANGED <<open, opens, netPollVars, netQueue, settled, dropped, netOwnerVars>>

\* _write_one has what it needs for the head of the batch; its query of the
\* blocklist flushes the rows before.
Row ==
    \/ /\ done' = Append(done, Head(todo))
       /\ todo' = Tail(todo)
       /\ netWriter' = "idle"
       /\ UNCHANGED <<open, opens, netPollVars, netQueue, settled, dropped, failedVars, netOwnerVars>>
    \/ RollBack

FindCached ==
    /\ netWriter = "idle" /\ todo # <<>> /\ Head(todo) \in cache
    /\ Row
    /\ UNCHANGED resolverVars

\* executor.submit: after shutdown() it raises, and the batch is rolled back.
Submit ==
    /\ netWriter = "idle" /\ todo # <<>> /\ Head(todo) \notin cache
    /\ IF pool
         THEN netWriter' = "resolving" /\ UNCHANGED <<todo, done, dropped>>
         ELSE /\ todo' = <<>> /\ done' = <<>> /\ dropped' = TRUE
              /\ UNCHANGED netWriter
    /\ UNCHANGED <<open, opens, netPollVars, netQueue, settled, failedVars, resolverVars, netOwnerVars>>

\* Fault: the full cache is not cleared.
RememberMore == cache' = cache \cup {Head(todo)}

\* A timeout is cached like an answer; a full cache is cleared first.
Remember ==
    cache' = {Head(todo)} \cup (IF Cardinality(cache) >= MaxCache THEN {} ELSE cache)

\* The look-up got a thread of the pool and answered, or failed, in time.
Answered ==
    /\ netWriter = "resolving" /\ stuck < PoolSize
    /\ Row /\ Remember
    /\ UNCHANGED stuck

\* Fault: result() without a timeout: the writer waits for the look-up that hangs.
WaitForAnswer ==
    /\ netWriter = "resolving" /\ stuck < PoolSize
    /\ stuck' = stuck + 1
    /\ UNCHANGED <<open, opens, netPollVars, netQueue, netWriterVars, cache, netOwnerVars>>

\* result(timeout): the look-up keeps its thread, or its place in the queue.
TimedOut ==
    /\ netWriter = "resolving"
    /\ Row /\ Remember
    /\ stuck' = stuck + 1

\* A look-up that nobody waits for any more ends.
LookUpEnds ==
    /\ stuck > 0
    /\ stuck' = stuck - 1
    /\ UNCHANGED <<open, opens, netPollVars, netQueue, netWriterVars, cache, netOwnerVars>>

Committed ==
    /\ netWriter = "idle" /\ todo = <<>> /\ done # <<>>
    /\ \/ /\ done' = <<>>
          /\ settled' = [c \in Conns |-> settled[c] + Times(done, c)]
          /\ UNCHANGED <<open, opens, netPollVars, netQueue, netWriter, todo, dropped, failedVars,
                         netOwnerVars>>
       \/ RollBack
    /\ UNCHANGED resolverVars

\* The final flush is over: nothing queued and the stop event set.
LeaveWriter ==
    /\ netWriter = "idle" /\ todo = <<>> /\ done = <<>> /\ netQueue = <<>>
    /\ netOwner \in {"closing", "shutting", "stopped"}
    /\ netWriter' = "ended"
    /\ UNCHANGED <<open, opens, netPollVars, netQueue, todo, done, settled, dropped,
                   failedVars, resolverVars, netOwnerVars>>
-----------------------------------------------------------------------------
(* stop(): the poll thread, the writer, then the resolver. *)

StopNetwork ==
    /\ netOwner = "running" /\ netPoll # "new"
    /\ netOwner' = "joining"
    /\ UNCHANGED <<open, opens, netPollVars, netQueue, netWriterVars, resolverVars, netLate, pool>>

\* A join ends with its thread or, late, without it.
NetJoined(ended) == netLate' = (netLate \/ ~ended)

JoinPolls ==
    /\ netOwner = "joining" /\ NetJoined(netPoll = "ended")
    /\ netOwner' = "closing"
    /\ UNCHANGED <<open, opens, netPollVars, netQueue, netWriterVars, resolverVars, pool>>

\* Fault: the resolver is shut down before the writer is joined.
JoinNetWriterLast ==
    /\ netOwner = "closing"
    /\ netOwner' = "shutting" /\ UNCHANGED netLate
    /\ UNCHANGED <<open, opens, netPollVars, netQueue, netWriterVars, resolverVars, pool>>

JoinNetWriter ==
    /\ netOwner = "closing" /\ NetJoined(netWriter = "ended")
    /\ netOwner' = "shutting"
    /\ UNCHANGED <<open, opens, netPollVars, netQueue, netWriterVars, resolverVars, pool>>

ShutResolver ==
    /\ netOwner = "shutting"
    /\ netOwner' = "stopped" /\ pool' = FALSE
    /\ UNCHANGED <<open, opens, netPollVars, netQueue, netWriterVars, resolverVars, netLate>>
-----------------------------------------------------------------------------
NetWriter ==
    TakeBatch \/ FindCached \/ Submit \/ Answered \/ TimedOut \/ Committed \/ LeaveWriter

NetworkNext ==
    \/ \E c \in Conns : Connect(c) \/ Disconnect(c)
    \/ SeedConnections \/ PollConnections \/ LeavePolls
    \/ NetWriter \/ LookUpEnds
    \/ StopNetwork \/ JoinPolls \/ JoinNetWriter \/ ShutResolver

\* The writer is never blocked longer than one look-up may take.
NetworkFairness == WF_networkVars(NetWriter)

NetworkSpec == NetworkInit /\ [][NetworkNext]_networkVars /\ NetworkFairness
-----------------------------------------------------------------------------
(* Properties *)

(***************************************************************************)
(* A connection is told at most once for each time it was opened and once  *)
(* more for each snapshot that failed: no storm of repeated reports builds *)
(* up from what the polls forget (_poll_once of monitors/                  *)
(* network_monitor.py, which takes a failed snapshot for an empty one).    *)
(***************************************************************************)
ToldPerOpening == \A c \in Conns : netTold[c] <= opens[c] + failures

(***************************************************************************)
(* A stop() whose joins all ended leaves nothing behind: every report is   *)
(* in the database, or was in a transaction that the database refused -    *)
(* no other batch pays for that one, and none was rolled back because the  *)
(* resolver had been shut down under the writer (stop() and _write_batch   *)
(* of monitors/network_monitor.py, _flush of monitors/queue_worker.py).    *)
(***************************************************************************)
CleanStopKeepsAll ==
    ~netLate =>
        /\ ~dropped
        /\ netOwner = "stopped" => \A c \in Conns : netTold[c] = settled[c] + netFailed[c]

\* The query for the second row flushes the first: SQLite's write lock is
\* held from then to the end of the transaction, look-ups included.
HoldsWriteLock == Len(done) >= 2

(***************************************************************************)
(* Look-ups that never answer delay the writer and do not stop it: what is *)
(* told is committed in the end or was in a transaction that failed,       *)
(* unless a late stop() rolled a batch back or left the queue behind; and  *)
(* the write lock, which the other components wait for, is always released *)
(* again (resolve() and its timeout, under _write_batch).                  *)
(***************************************************************************)
LookUpsNeverStall ==
    /\ \A c \in Conns : \A n \in 1..(MaxOpens + MaxFailures) :
           netTold[c] >= n ~> settled[c] + netFailed[c] >= n \/ netLate
    /\ []<>~HoldsWriteLock
=============================================================================
