----------------------------- MODULE QueueWriter -----------------------------
(***************************************************************************)
(* One polling monitor and its QueueWriter: the poll thread that puts      *)
(* observations on an unbounded in-memory queue, the writer thread that    *)
(* drains it in batches and commits each batch in one transaction, and the *)
(* owner thread (the lifespan of api/app.py) that starts and stops both.   *)
(*                                                                         *)
(* The process, network, persistence and log monitors have exactly this    *)
(* shape; the file monitor's poll thread is watchdog's observer.  The i-th *)
(* observation put on the queue is the number i: observations carry no     *)
(* number in the code, it is their identity here.                          *)
(***************************************************************************)
EXTENDS Naturals, Sequences

CONSTANTS
    BatchSize,      \* batch_size of QueueWriter.__init__
    MaxItems,       \* bound: observations the poll thread makes in all
    WriteMayFail,   \* TRUE: write_batch may raise (database locked, disk full)
    JoinMayTimeOut, \* TRUE: a thread may outlive the 5 s its join waits for it
    MayCrash        \* TRUE: the process may die with its daemon threads

ASSUME QueueWriterAssumption ==
    /\ BatchSize \in Nat \ {0}
    /\ MaxItems \in Nat
    /\ {WriteMayFail, JoinMayTimeOut, MayCrash} \subseteq BOOLEAN

VARIABLES
    owner,      \* progress of the monitor's start() and stop()
    pollStop,   \* the monitor's _stop_event
    poller,     \* the poll thread
    queue,      \* QueueWriter._queue
    writerStop, \* QueueWriter._stop_event
    writer,     \* the writer thread
    batch,      \* the list in the writer thread's hands (batch, remaining)
    produced,   \* history: how many observations were put
    history,    \* history: the observations handed to _flush, and their fate
    late        \* history: a join returned before its thread had ended

ownerVars == <<owner, pollStop, late>>
pollVars == <<poller, produced>>
writerVars == <<writer, batch, history>>
vars == <<ownerVars, pollVars, queue, writerStop, writerVars>>

Item == 1..MaxItems

Fate == [item : Item, kept : BOOLEAN]

TypeOK ==
    /\ owner \in {"new", "starting", "running", "joining", "closing", "stopped", "exited", "crashed"}
    /\ poller \in {"new", "waiting", "polling", "ended", "killed"}
    /\ writer \in {"new", "checking", "getting", "filling", "flushing", "draining",
                   "lastFlush", "ended", "killed"}
    /\ {pollStop, writerStop, late} \subseteq BOOLEAN
    /\ queue \in Seq(Item)
    /\ batch \in Seq(Item)
    /\ produced \in 0..MaxItems
    /\ history \in Seq(Fate)

Init ==
    /\ owner = "new" /\ poller = "new" /\ writer = "new"
    /\ pollStop = FALSE /\ writerStop = FALSE /\ late = FALSE
    /\ queue = <<>> /\ batch = <<>> /\ history = <<>>
    /\ produced = 0
-----------------------------------------------------------------------------
(* The owner: start() and stop(). *)

\* start(): the writer thread first ...
StartWriter ==
    /\ owner = "new"
    /\ owner' = "starting"
    /\ writer' = "checking"
    /\ UNCHANGED <<pollStop, late, pollVars, queue, writerStop, batch, history>>

\* ... then the poll thread.
StartPoller ==
    /\ owner = "starting"
    /\ owner' = "running"
    /\ poller' = "waiting"
    /\ UNCHANGED <<pollStop, late, produced, queue, writerStop, writerVars>>

\* stop(): the monitor's stop event is set before anything is joined.
StopPolling ==
    /\ owner = "running"
    /\ owner' = "joining"
    /\ pollStop' = TRUE
    /\ UNCHANGED <<late, pollVars, queue, writerStop, writerVars>>

\* join(timeout) comes back when the thread has ended, or late.
Joined(ended) ==
    \/ ended /\ UNCHANGED late
    \/ ~ended /\ JoinMayTimeOut /\ late' = TRUE

\* Fault: the owner stops the writer without waiting for the poll thread.
JoinPollerNot ==
    /\ owner = "joining"
    /\ owner' = "closing"
    /\ writerStop' = TRUE
    /\ UNCHANGED <<late, pollStop, pollVars, queue, writerVars>>

\* The poll thread is joined, then writer.stop() sets the writer's event.
JoinPoller ==
    /\ owner = "joining"
    /\ Joined(poller = "ended")
    /\ owner' = "closing"
    /\ writerStop' = TRUE
    /\ UNCHANGED <<pollStop, pollVars, queue, writerVars>>

\* Fault: writer.stop() sets the event and does not join the thread.
JoinWriterNot ==
    /\ owner = "closing"
    /\ owner' = "stopped"
    /\ UNCHANGED <<late, pollStop, pollVars, queue, writerStop, writerVars>>

\* writer.stop() joins the writer thread and stop() returns.
JoinWriter ==
    /\ owner = "closing"
    /\ Joined(writer = "ended")
    /\ owner' = "stopped"
    /\ UNCHANGED <<pollStop, pollVars, queue, writerStop, writerVars>>

\* The process ends; both threads are daemons and die wherever they are.
ProcessEnds ==
    /\ owner \notin {"exited", "crashed"}
    /\ owner' = IF owner = "stopped" THEN "exited" ELSE "crashed"
    /\ owner = "stopped" \/ MayCrash
    /\ poller' = IF poller = "ended" THEN "ended" ELSE "killed"
    /\ writer' = IF writer = "ended" THEN "ended" ELSE "killed"
    /\ UNCHANGED <<pollStop, late, produced, queue, writerStop, batch, history>>
-----------------------------------------------------------------------------
(* The poll thread: _run and _poll_once of the monitor. *)

BeginPoll ==
    /\ poller = "waiting" /\ ~pollStop
    /\ poller' = "polling"
    /\ UNCHANGED <<ownerVars, produced, queue, writerStop, writerVars>>

\* One writer.put; the stop event is not looked at inside a poll.
Put ==
    /\ poller = "polling" /\ produced < MaxItems
    /\ produced' = produced + 1
    /\ queue' = Append(queue, produced + 1)
    /\ UNCHANGED <<ownerVars, poller, writerStop, writerVars>>

\* The poll is over, or an exception nobody catches ends the thread.
EndPoll ==
    /\ poller = "polling"
    /\ poller' \in {"waiting", "ended"}
    /\ UNCHANGED <<ownerVars, produced, queue, writerStop, writerVars>>

LeavePollLoop ==
    /\ poller = "waiting" /\ pollStop
    /\ poller' = "ended"
    /\ UNCHANGED <<ownerVars, produced, queue, writerStop, writerVars>>
-----------------------------------------------------------------------------
(* The writer thread: _run, _drain_batch and _flush. *)

\* Fault: the thread returns as soon as the event is set.
CheckStopNoFinalFlush ==
    /\ writer = "checking"
    /\ writer' = IF writerStop THEN "ended" ELSE "getting"
    /\ UNCHANGED <<ownerVars, pollVars, queue, writerStop, batch, history>>

\* The head of the while loop.
CheckStop ==
    /\ writer = "checking"
    /\ writer' = IF writerStop THEN "draining" ELSE "getting"
    /\ UNCHANGED <<ownerVars, pollVars, queue, writerStop, batch, history>>

\* One item moves from the head of the queue to the end of the batch.
Take ==
    /\ queue # <<>>
    /\ queue' = Tail(queue)
    /\ batch' = Append(batch, Head(queue))

\* Queue.get with the flush interval as its timeout.
GetFirst ==
    /\ writer = "getting"
    /\ Take
    /\ writer' = "filling"
    /\ UNCHANGED <<ownerVars, pollVars, writerStop, history>>

\* Fault: the timeout is taken for an item (0 stands for None).
GetTimesOutWithNone ==
    /\ writer = "getting" /\ queue = <<>>
    /\ writer' = "filling"
    /\ batch' = <<0>>
    /\ UNCHANGED <<ownerVars, pollVars, queue, writerStop, history>>

\* Fault: get without a timeout blocks on an empty queue.
GetNeverTimesOut == writer = "getting" /\ queue = <<>> /\ UNCHANGED vars

GetTimesOut ==
    /\ writer = "getting" /\ queue = <<>>
    /\ writer' = "checking"
    /\ UNCHANGED <<ownerVars, pollVars, queue, writerStop, batch, history>>

\* Fault: "<=" for "<": the batch grows one past batch_size.
FillOneMore ==
    /\ writer = "filling" /\ Len(batch) <= BatchSize
    /\ Take
    /\ UNCHANGED <<ownerVars, pollVars, writerStop, writer, history>>

\* get_nowait while the batch has room.
FillBatch ==
    /\ writer = "filling" /\ Len(batch) < BatchSize
    /\ Take
    /\ UNCHANGED <<ownerVars, pollVars, writerStop, writer, history>>

BatchReady ==
    /\ writer = "filling"
    /\ Len(batch) >= BatchSize \/ queue = <<>>
    /\ writer' = "flushing"
    /\ UNCHANGED <<ownerVars, pollVars, queue, writerStop, batch, history>>

\* Fault: a batch whose write failed goes back to the end of the queue.
FlushRequeues ==
    /\ writer \in {"flushing", "lastFlush"}
    /\ \E kept \in {TRUE, ~WriteMayFail} :
           IF kept
           THEN /\ history' = history \o [i \in 1..Len(batch) |-> [item |-> batch[i], kept |-> TRUE]]
                /\ UNCHANGED queue
           ELSE queue' = queue \o batch /\ UNCHANGED history
    /\ batch' = <<>>
    /\ writer' = IF writer = "flushing" THEN "checking" ELSE "ended"
    /\ UNCHANGED <<ownerVars, pollVars, writerStop>>

\* _flush: the batch is one transaction; a failure is logged, not retried.
Flush ==
    /\ writer \in {"flushing", "lastFlush"}
    /\ \E kept \in {TRUE, ~WriteMayFail} :
           history' = history \o [i \in 1..Len(batch) |-> [item |-> batch[i], kept |-> kept]]
    /\ batch' = <<>>
    /\ writer' = IF writer = "flushing" THEN "checking" ELSE "ended"
    /\ UNCHANGED <<ownerVars, pollVars, queue, writerStop>>

\* The loop after the stop event: everything still queued is one batch.
DrainOne ==
    /\ writer = "draining"
    /\ Take
    /\ UNCHANGED <<ownerVars, pollVars, writerStop, writer, history>>

Drained ==
    /\ writer = "draining" /\ queue = <<>>
    /\ writer' = IF batch = <<>> THEN "ended" ELSE "lastFlush"
    /\ UNCHANGED <<ownerVars, pollVars, queue, writerStop, batch, history>>
-----------------------------------------------------------------------------
Owner == StartWriter \/ StartPoller \/ StopPolling \/ JoinPoller \/ JoinWriter

Poller == BeginPoll \/ Put \/ EndPoll \/ LeavePollLoop

Writer == CheckStop \/ GetFirst \/ GetTimesOut \/ FillBatch \/ BatchReady
          \/ Flush \/ DrainOne \/ Drained

Next == Owner \/ ProcessEnds \/ Poller \/ Writer

SafeSpec == Init /\ [][Next]_vars

(***************************************************************************)
(* Threads that are alive and not blocked keep being scheduled: the writer *)
(* never blocks for longer than the flush interval, a poll ends because    *)
(* the snapshot it walks is finite, and a stop() that has begun goes on.   *)
(* Nothing obliges anyone to start, poll or stop the monitor.              *)
(***************************************************************************)
Fairness ==
    /\ WF_vars(Writer)
    /\ WF_vars(EndPoll)
    /\ WF_vars(LeavePollLoop)
    /\ WF_vars(JoinPoller)
    /\ WF_vars(JoinWriter)

Spec == SafeSpec /\ Fairness
-----------------------------------------------------------------------------
(* Properties *)

(***************************************************************************)
(* Every observation is in exactly one place - settled, in the writer's    *)
(* hands or queued - and the three together are all of them in the order   *)
(* they were put: batching, timeouts and failed writes lose no other item, *)
(* repeat none and reorder none.                                           *)
(***************************************************************************)
InOrderOnce ==
    /\ produced = Len(history) + Len(batch) + Len(queue)
    /\ \A i \in 1..Len(history) : history[i].item = i
    /\ \A i \in 1..Len(batch) : batch[i] = Len(history) + i
    /\ \A i \in 1..Len(queue) : queue[i] = Len(history) + Len(batch) + i

(***************************************************************************)
(* Before the stop event no transaction carries more than batch_size       *)
(* observations (the bound on how long one batch may hold the database).   *)
(***************************************************************************)
BatchBounded == writer \in {"filling", "flushing"} => Len(batch) \in 1..BatchSize

(***************************************************************************)
(* A stop() none of whose joins timed out has settled every observation    *)
(* ever put: the order "stop the poll thread, join it, only then stop the  *)
(* writer" is what the final flush relies on.                              *)
(***************************************************************************)
CleanStopSettlesAll ==
    owner \in {"stopped", "exited"} /\ ~late => Len(history) = produced

(***************************************************************************)
(* After such a stop() returned nothing of this monitor touches the        *)
(* database or its queue again.                                            *)
(***************************************************************************)
QuietAfterCleanStop ==
    [][owner = "stopped" /\ ~late => UNCHANGED <<history, queue, batch, produced>>]_vars

(***************************************************************************)
(* Whatever was put is settled in the end: stored, or dropped with a failed *)
(* transaction - never forgotten in the queue, in a batch or behind the    *)
(* stop event.  Only a crash or a join that gave up excuses it.            *)
(***************************************************************************)
EverythingSettles ==
    \A n \in Item : produced >= n ~> Len(history) >= n \/ owner = "crashed" \/ late

(***************************************************************************)
(* Both threads notice a stop() that has begun and end, even when it has   *)
(* stopped waiting for them: the writer does not block on an empty queue.  *)
(***************************************************************************)
ThreadsEnd ==
    owner = "joining" ~> {poller, writer} \subseteq {"ended", "killed"}
-----------------------------------------------------------------------------
(* Refinement: what became of the i-th observation. *)

SettledAs(n, kept) == \E i \in 1..Len(history) : history[i] = [item |-> n, kept |-> kept]

OutcomeOf(n) ==
    IF SettledAs(n, TRUE) THEN "stored"
    ELSE IF SettledAs(n, FALSE) THEN "dropped" ELSE "pending"

Pipe == INSTANCE EventPipe WITH outcome <- [i \in 1..produced |-> OutcomeOf(i)]

\* The writer implements the pipe, whatever fails or times out.
PipeSafe == Pipe!SafeSpec
=============================================================================
