------------------------------ MODULE LogMonitor ------------------------------
(***************************************************************************)
(* The log monitor: one cursor of time for each channel of the Windows     *)
(* event log.  A poll asks the channel for what is newer than its cursor,  *)
(* tells all of it and moves the cursor to the newest time told.  The      *)
(* cursor has ticks; the query has whole seconds.                          *)
(*                                                                         *)
(* A channel is the sequence of the times of its records, in the order in  *)
(* which they were written.  A provider may write a record whose time is   *)
(* earlier, or the same as another's.                                      *)
(***************************************************************************)
EXTENDS Naturals, Sequences, FiniteSetsExt

CONSTANTS
    Channels,        \* the channels of CHANNEL_EVENT_IDS
    TicksPerSecond,  \* the resolution of a record's time
    MaxTime,         \* bound: the clock, in ticks
    MaxRecords,      \* bound: records of one channel
    MaxReadErrors,   \* bound: queries that fail
    MaxStarts        \* bound: starts of the agent

ASSUME LogMonitorAssumption ==
    /\ TicksPerSecond \in Nat \ {0}
    /\ {MaxTime, MaxRecords, MaxReadErrors, MaxStarts} \subseteq Nat

VARIABLES
    now,        \* the clock
    log,        \* by channel: the times of its records
    since,      \* LogMonitor._since
    logRuns,    \* how often the monitor was started
    logOn,      \* it is running
    startedAt,  \* history: when it was started last
    first,      \* history, by channel: the records that were there by then
    inOrder,    \* history: the records since then are each newer than all before
    logTold,    \* history, by channel: the records put on the queue since then
    logRead,    \* history, by channel: the records there at the last full read
    unparsed,   \* history, by channel: the records that could not be parsed
    readErrors  \* how many queries failed, or records could not be parsed

logMonitorVars == <<since, logRuns, logOn, startedAt, first, logTold, logRead, unparsed,
                    readErrors>>
logVars == <<now, log, inOrder, logMonitorVars>>

LogTypeOK ==
    /\ {now, startedAt} \subseteq 0..MaxTime
    /\ log \in [Channels -> Seq(0..MaxTime)]
    /\ since \in [Channels -> 0..MaxTime]
    /\ logRuns \in 0..MaxStarts /\ logOn \in BOOLEAN
    /\ {first, logRead} \subseteq [Channels -> 0..MaxRecords]
    /\ inOrder \in [Channels -> BOOLEAN]
    /\ \A c \in Channels : logTold[c] \cup unparsed[c] \subseteq DOMAIN log[c]
    /\ readErrors \in 0..MaxReadErrors

LogInit ==
    /\ now = 0 /\ startedAt = 0
    /\ log = [c \in Channels |-> <<>>]
    /\ since = [c \in Channels |-> 0]
    /\ logRuns = 0 /\ logOn = FALSE /\ readErrors = 0
    /\ first = since /\ logRead = since
    /\ inOrder = [c \in Channels |-> TRUE]
    /\ logTold = [c \in Channels |-> {}] /\ unparsed = logTold

Second(t) == t \div TicksPerSecond
-----------------------------------------------------------------------------
Clock ==
    /\ now < MaxTime
    /\ now' = now + 1
    /\ UNCHANGED <<log, inOrder, logMonitorVars>>

WriteRecord(c, t) ==
    /\ Len(log[c]) < MaxRecords
    /\ log' = [log EXCEPT ![c] = Append(@, t)]
    /\ inOrder' = [inOrder EXCEPT ![c] =
          @ /\ t > startedAt /\ \A i \in DOMAIN log[c] : log[c][i] < t]
    /\ UNCHANGED <<now, logMonitorVars>>

\* Every channel's cursor begins at the start's time.
StartCursor == now

StartLog ==
    /\ ~logOn /\ logRuns < MaxStarts
    /\ logOn' = TRUE /\ logRuns' = logRuns + 1
    /\ startedAt' = now
    /\ since' = [c \in Channels |-> StartCursor]
    /\ first' = [c \in Channels |-> Len(log[c])]
    /\ logRead' = first'
    /\ logTold' = [c \in Channels |-> {}] /\ unparsed' = logTold'
    /\ inOrder' = [c \in Channels |-> \A i \in DOMAIN log[c] : log[c][i] <= now]
    /\ UNCHANGED <<now, log, readErrors>>

\* stop(), or the end of the process: the cursors are not stored.
StopLog ==
    /\ logOn
    /\ logOn' = FALSE
    /\ UNCHANGED <<now, log, inOrder, since, logRuns, startedAt, first, logTold, logRead,
                   unparsed, readErrors>>

\* SystemTime > the cursor, cut to its whole second.
Newer(c) == {i \in DOMAIN log[c] : log[c][i] > Second(since[c]) * TicksPerSecond}

\* Fault: the cursor moves to the time of the poll.
CursorAtNow(c, read) == now

\* The newest time read, or the cursor.
Latest(c, read) == Max({since[c]} \cup {log[c][i] : i \in read})

ReadError == readErrors < MaxReadErrors /\ readErrors' = readErrors + 1

\* The records before last that parse: all or, if the query fails half-way,
\* those fetched before; a record that does not parse is left out.
ReadChannel(c, last, read) ==
    LET asked == {i \in Newer(c) : i <= last} IN
    \/ /\ last = Len(log[c]) /\ read = asked
       /\ UNCHANGED <<unparsed, readErrors>>
    \/ /\ last < Len(log[c]) /\ read = asked /\ ReadError
       /\ UNCHANGED unparsed
    \/ /\ last = Len(log[c]) /\ ReadError
       /\ \E i \in asked : /\ read = asked \ {i}
                           /\ unparsed' = [unparsed EXCEPT ![c] = @ \cup {i}]

\* _poll_once for one channel.
PollChannel(c) ==
    /\ logOn
    /\ \E last \in 0..Len(log[c]) : \E read \in SUBSET Newer(c) :
           /\ ReadChannel(c, last, read)
           /\ logTold' = [logTold EXCEPT ![c] = @ \cup read]
           /\ since' = [since EXCEPT ![c] = Latest(c, read)]
           /\ logRead' = [logRead EXCEPT ![c] = IF last = Len(log[c]) THEN last ELSE @]
    /\ UNCHANGED <<now, log, inOrder, logRuns, logOn, startedAt, first>>
-----------------------------------------------------------------------------
LogNext ==
    \/ Clock \/ StartLog \/ StopLog
    \/ \E c \in Channels : PollChannel(c) \/ \E t \in 0..now : WriteRecord(c, t)

LogSpec == LogInit /\ [][LogNext]_logVars
-----------------------------------------------------------------------------
(* Properties *)

(***************************************************************************)
(* While a channel's records are written in the order of their times, a    *)
(* full read leaves none of those written since the start untold, unless   *)
(* it could not be parsed, whatever reads failed half-way before it.  A    *)
(* restart replays no history: nothing older than the second of the start  *)
(* is told, though its other records of that second are.  And a record is  *)
(* told again only while it is of the second of the newest one told: the   *)
(* repeats that the cut cursor causes end as soon as the channel has       *)
(* anything of a later second to tell (read_new_events_win32evtlog and     *)
(* _poll_once of monitors/log_monitor.py).                                 *)
(***************************************************************************)
LogIsComplete ==
    \A c \in Channels :
        /\ inOrder[c] => first[c] + 1 .. logRead[c] \subseteq logTold[c] \cup unparsed[c]
        /\ \A i \in logTold[c] : Second(log[c][i]) >= Second(startedAt)
        /\ \A i \in Newer(c) \cap logTold[c] : Second(log[c][i]) = Second(since[c])
=============================================================================
