-------------------------- MODULE QueueWriterProofs --------------------------
(***************************************************************************)
(* Theorems about QueueWriter, for every batch size, every number of       *)
(* observations and every combination of failures.                         *)
(***************************************************************************)
EXTENDS QueueWriter, SequenceTheorems, TLAPS

(***************************************************************************)
(* What ties the stop sequence to the queue: the writer's event is set     *)
(* only after the poll thread was joined, the writer ends only on an empty *)
(* queue, and (unless a join was late) nobody puts after that.             *)
(***************************************************************************)
StopOrder ==
    /\ owner = "new" => writer = "new"
    /\ writerStop => owner \in {"closing", "stopped", "exited", "crashed"}
    /\ writerStop /\ ~late => poller \in {"ended", "killed"}
    /\ writer \in {"draining", "lastFlush", "ended"} => writerStop
    /\ writer \in {"lastFlush", "ended"} /\ ~late => queue = <<>>
    /\ writer \in {"new", "checking", "getting", "ended"} => batch = <<>>
    /\ owner \in {"closing", "stopped", "exited"} => writerStop
    /\ owner \in {"stopped", "exited"} /\ ~late => writer = "ended"

\* The inductive invariant.
IInv == TypeOK /\ InOrderOnce /\ BatchBounded /\ StopOrder

-----------------------------------------------------------------------------
\* Before the threads run nothing is queued or in hand.
THEOREM Initially == Init => IInv
<1> SUFFICES ASSUME Init PROVE IInv
  OBVIOUS
<1>1. /\ Len(queue) = 0 /\ Len(batch) = 0 /\ Len(history) = 0
      /\ queue \in Seq(Item) /\ batch \in Seq(Item) /\ history \in Seq(Fate)
  BY DEF Init
<1>2. TypeOK
  <2>1. produced \in 0..MaxItems
    BY QueueWriterAssumption DEF QueueWriterAssumption, Init
  <2> QED
    BY <1>1, <2>1 DEF Init, TypeOK
<1>3. InOrderOnce
  BY <1>1 DEF Init, InOrderOnce
<1>4. BatchBounded
  BY DEF Init, BatchBounded
<1>5. StopOrder
  BY DEF Init, StopOrder
<1> QED
  BY <1>2, <1>3, <1>4, <1>5 DEF IInv

(***************************************************************************)
(* Put appends the next number, on a queue that nobody has closed.         *)
(***************************************************************************)
LEMMA PutStep == IInv /\ Put => IInv'
<1> SUFFICES ASSUME IInv, Put PROVE IInv'
  OBVIOUS
<1> USE QueueWriterAssumption DEF QueueWriterAssumption, IInv
<1>1. produced + 1 \in Item
  BY DEF TypeOK, Put, Item
<1>2. /\ queue' \in Seq(Item)
      /\ Len(queue') = Len(queue) + 1
      /\ \A i \in 1..Len(queue) : queue'[i] = queue[i]
      /\ queue'[Len(queue) + 1] = produced + 1
  BY <1>1, AppendProperties DEF TypeOK, Put
<1>3. TypeOK'
  BY <1>1, <1>2 DEF TypeOK, Put, ownerVars, writerVars, Item
<1>4. InOrderOnce'
  BY <1>2 DEF TypeOK, InOrderOnce, Put, writerVars
<1>5. BatchBounded'
  BY DEF BatchBounded, Put, writerVars
<1>6. StopOrder'
  BY DEF StopOrder, Put, writerVars, ownerVars
<1> QED
  BY <1>3, <1>4, <1>5, <1>6

(***************************************************************************)
(* Taking an item keeps the order and moves exactly one item.              *)
(***************************************************************************)
LEMMA TakeOrder ==
  ASSUME TypeOK, InOrderOnce, Take, UNCHANGED <<history, produced>>
  PROVE  /\ queue' \in Seq(Item) /\ batch' \in Seq(Item)
         /\ Len(batch') = Len(batch) + 1
         /\ InOrderOnce'
<1>1. /\ Head(queue) \in Item /\ Head(queue) = queue[1]
      /\ queue' \in Seq(Item)
      /\ Len(queue) > 0 /\ Len(queue') = Len(queue) - 1
      /\ \A i \in 1..Len(queue') : queue'[i] = queue[i + 1]
  BY HeadTailProperties DEF TypeOK, Take
<1>2. /\ batch' \in Seq(Item)
      /\ Len(batch') = Len(batch) + 1
      /\ \A i \in 1..Len(batch) : batch'[i] = batch[i]
      /\ batch'[Len(batch) + 1] = queue[1]
  BY <1>1, AppendProperties DEF TypeOK, Take
<1>3. Len(queue) \in Nat /\ Len(batch) \in Nat /\ Len(history) \in Nat
  BY LenProperties DEF TypeOK
<1>4. produced' = Len(history') + Len(batch') + Len(queue')
  BY <1>1, <1>2, <1>3 DEF InOrderOnce
<1>5. ASSUME NEW i \in 1..Len(batch')
      PROVE  batch'[i] = Len(history') + i
  <2>1. CASE i \in 1..Len(batch)
    <3>1. batch[i] = Len(history) + i
      BY <2>1 DEF InOrderOnce
    <3> QED
      BY <2>1, <3>1, <1>2
  <2>2. CASE i = Len(batch) + 1
    <3>1. queue[1] = Len(history) + Len(batch) + 1
      BY <1>1, <1>3 DEF InOrderOnce
    <3> QED
      BY <2>2, <3>1, <1>2, <1>3
  <2> QED
    BY <2>1, <2>2, <1>2, <1>3
<1>6. ASSUME NEW i \in 1..Len(queue')
      PROVE  queue'[i] = Len(history') + Len(batch') + i
  <2>1. i + 1 \in 1..Len(queue)
    BY <1>1, <1>3
  <2>2. queue[i + 1] = Len(history) + Len(batch) + (i + 1)
    BY <2>1 DEF InOrderOnce
  <2> QED
    BY <1>1, <1>2, <1>3, <2>2
<1> QED
  BY <1>1, <1>2, <1>4, <1>5, <1>6 DEF InOrderOnce

\* The first of a batch is the oldest in the queue.
LEMMA GetFirstStep == IInv /\ GetFirst => IInv'
<1> SUFFICES ASSUME IInv, GetFirst PROVE IInv'
  OBVIOUS
<1> USE QueueWriterAssumption DEF QueueWriterAssumption, IInv
<1>1. Take /\ UNCHANGED <<history, produced>>
  BY DEF GetFirst, pollVars
<1>2. /\ queue' \in Seq(Item) /\ batch' \in Seq(Item)
      /\ Len(batch') = Len(batch) + 1
      /\ InOrderOnce'
  BY <1>1, TakeOrder
<1>3. TypeOK'
  BY <1>2 DEF TypeOK, GetFirst, ownerVars, pollVars
<1>4. BatchBounded'
  BY <1>2 DEF TypeOK, BatchBounded, StopOrder, GetFirst
<1>5. StopOrder'
  BY DEF StopOrder, GetFirst, ownerVars, pollVars
<1> QED
  BY <1>2, <1>3, <1>4, <1>5

\* ... and so is every further one, up to batch_size.
LEMMA FillBatchStep == IInv /\ FillBatch => IInv'
<1> SUFFICES ASSUME IInv, FillBatch PROVE IInv'
  OBVIOUS
<1> USE QueueWriterAssumption DEF QueueWriterAssumption, IInv
<1>1. Take /\ UNCHANGED <<history, produced>>
  BY DEF FillBatch, pollVars
<1>2. /\ queue' \in Seq(Item) /\ batch' \in Seq(Item)
      /\ Len(batch') = Len(batch) + 1
      /\ InOrderOnce'
  BY <1>1, TakeOrder
<1>3. TypeOK'
  BY <1>2 DEF TypeOK, FillBatch, ownerVars, pollVars
<1>4. BatchBounded'
  <2>1. Len(batch) \in Nat
    BY LenProperties DEF TypeOK
  <2> QED
    BY <1>2, <2>1 DEF BatchBounded, FillBatch
<1>5. StopOrder'
  BY DEF StopOrder, FillBatch, ownerVars, pollVars
<1> QED
  BY <1>2, <1>3, <1>4, <1>5

\* The final flush takes them one by one, without a bound.
LEMMA DrainOneStep == IInv /\ DrainOne => IInv'
<1> SUFFICES ASSUME IInv, DrainOne PROVE IInv'
  OBVIOUS
<1> USE QueueWriterAssumption DEF QueueWriterAssumption, IInv
<1>1. Take /\ UNCHANGED <<history, produced>>
  BY DEF DrainOne, pollVars
<1>2. /\ queue' \in Seq(Item) /\ batch' \in Seq(Item)
      /\ InOrderOnce'
  BY <1>1, TakeOrder
<1>3. TypeOK'
  BY <1>2 DEF TypeOK, DrainOne, ownerVars, pollVars
<1>4. BatchBounded'
  BY DEF BatchBounded, DrainOne
<1>5. StopOrder'
  BY DEF StopOrder, DrainOne, ownerVars, pollVars
<1> QED
  BY <1>2, <1>3, <1>4, <1>5

(***************************************************************************)
(* Settling a batch appends it to the history, whatever its fate.          *)
(***************************************************************************)
LEMMA FlushStep == IInv /\ Flush => IInv'
<1> SUFFICES ASSUME IInv, Flush PROVE IInv'
  OBVIOUS
<1> USE QueueWriterAssumption DEF QueueWriterAssumption, IInv
<1>1. PICK kept \in {TRUE, ~WriteMayFail} :
         history' = history \o [i \in 1..Len(batch) |-> [item |-> batch[i], kept |-> kept]]
  BY DEF Flush
<1> DEFINE settled == [i \in 1..Len(batch) |-> [item |-> batch[i], kept |-> kept]]
<1>2. Len(queue) \in Nat /\ Len(batch) \in Nat /\ Len(history) \in Nat
  BY LenProperties DEF TypeOK
<1>3. \A i \in 1..Len(batch) : batch[i] \in Item
  BY ElementOfSeq DEF TypeOK
<1>4. kept \in BOOLEAN
  OBVIOUS
<1>5. settled \in Seq(Fate) /\ Len(settled) = Len(batch)
  <2>1. \A i \in 1..Len(batch) : [item |-> batch[i], kept |-> kept] \in Fate
    BY <1>3, <1>4 DEF Fate
  <2> QED
    BY <1>2, <2>1, IsASeq
<1> HIDE DEF settled
<1>6. /\ history' \in Seq(Fate)
      /\ Len(history') = Len(history) + Len(batch)
      /\ \A i \in 1..Len(history') :
             history'[i] = IF i <= Len(history) THEN history[i]
                           ELSE settled[i - Len(history)]
  BY <1>1, <1>5, ConcatProperties DEF TypeOK, settled
<1>7. batch' = <<>> /\ Len(batch') = 0 /\ batch' \in Seq(Item)
  BY DEF Flush
<1>8. UNCHANGED <<queue, produced, poller, ownerVars, writerStop>>
  BY DEF Flush, pollVars
<1>9. TypeOK'
  BY <1>6, <1>7, <1>8 DEF TypeOK, Flush, ownerVars
<1>10. ASSUME NEW i \in 1..Len(history')
       PROVE  history'[i].item = i
  <2>1. CASE i <= Len(history)
    <3>1. i \in 1..Len(history)
      BY <2>1, <1>2, <1>6
    <3> QED
      BY <3>1, <2>1, <1>6 DEF InOrderOnce
  <2>2. CASE ~(i <= Len(history))
    <3>1. i - Len(history) \in 1..Len(batch)
      BY <2>2, <1>2, <1>6
    <3>2. history'[i] = settled[i - Len(history)]
      BY <2>2, <1>6
    <3>3. settled[i - Len(history)] = [item |-> batch[i - Len(history)], kept |-> kept]
      BY <3>1 DEF settled
    <3>4. batch[i - Len(history)] = Len(history) + (i - Len(history))
      BY <3>1 DEF InOrderOnce
    <3>5. Len(history) + (i - Len(history)) = i
      BY <1>2, <1>6
    <3> QED
      BY <3>2, <3>3, <3>4, <3>5
  <2> QED
    BY <2>1, <2>2
<1>11. InOrderOnce'
  BY <1>2, <1>6, <1>7, <1>8, <1>10 DEF InOrderOnce
<1>12. BatchBounded'
  BY DEF BatchBounded, Flush
<1>13. StopOrder'
  BY <1>7, <1>8 DEF StopOrder, Flush, ownerVars
<1> QED
  BY <1>9, <1>11, <1>12, <1>13

(***************************************************************************)
(* The steps that move no observation: control alone.                      *)
(***************************************************************************)
Control ==
    \/ StartWriter \/ StartPoller \/ StopPolling \/ JoinPoller \/ JoinWriter \/ ProcessEnds
    \/ BeginPoll \/ EndPoll \/ LeavePollLoop
    \/ CheckStop \/ GetTimesOut \/ BatchReady \/ Drained

\* Where threads only move on, the data stays.
LEMMA ControlData == Control => UNCHANGED <<queue, batch, history, produced>>
BY DEF Control, StartWriter, StartPoller, StopPolling, JoinPoller, JoinWriter, ProcessEnds,
       BeginPoll, EndPoll, LeavePollLoop, CheckStop, GetTimesOut, BatchReady, Drained,
       ownerVars, pollVars, writerVars

\* ... and the positions go on saying what they say about it.
LEMMA ControlStep == IInv /\ Control => IInv'
<1> SUFFICES ASSUME IInv, Control PROVE IInv'
  OBVIOUS
<1> USE QueueWriterAssumption DEF QueueWriterAssumption, IInv
<1>0. UNCHANGED <<queue, batch, history, produced>>
  BY ControlData
<1>1. InOrderOnce'
  BY <1>0 DEF InOrderOnce
<1>2. TypeOK' /\ BatchBounded' /\ StopOrder'
  <2> USE <1>0 DEF TypeOK, BatchBounded, StopOrder, ownerVars, pollVars, writerVars
  <2>1. CASE StartWriter
    BY <2>1 DEF StartWriter
  <2>2. CASE StartPoller
    BY <2>2 DEF StartPoller
  <2>3. CASE StopPolling
    BY <2>3 DEF StopPolling
  <2>4. CASE JoinPoller
    BY <2>4 DEF JoinPoller, Joined
  <2>5. CASE JoinWriter
    BY <2>5 DEF JoinWriter, Joined
  <2>6. CASE ProcessEnds
    BY <2>6 DEF ProcessEnds
  <2>7. CASE BeginPoll
    BY <2>7 DEF BeginPoll
  <2>8. CASE EndPoll
    BY <2>8 DEF EndPoll
  <2>9. CASE LeavePollLoop
    BY <2>9 DEF LeavePollLoop
  <2>10. CASE CheckStop
    BY <2>10 DEF CheckStop
  <2>11. CASE GetTimesOut
    BY <2>11 DEF GetTimesOut
  <2>12. CASE BatchReady
    BY <2>12 DEF BatchReady
  <2>13. CASE Drained
    BY <2>13 DEF Drained
  <2> QED
    BY <2>1, <2>2, <2>3, <2>4, <2>5, <2>6, <2>7, <2>8, <2>9, <2>10, <2>11, <2>12, <2>13
       DEF Control
<1> QED
  BY <1>1, <1>2

\* Every step is one of these six.
LEMMA NextCases == Next => Put \/ GetFirst \/ FillBatch \/ DrainOne \/ Flush \/ Control
BY DEF Next, Owner, Poller, Writer, Control

\* Every step of the three threads keeps the invariant.
THEOREM Preserved == IInv /\ [Next]_vars => IInv'
<1> SUFFICES ASSUME IInv, [Next]_vars PROVE IInv'
  OBVIOUS
<1>1. CASE Next
  BY <1>1, NextCases, PutStep, GetFirstStep, FillBatchStep, DrainOneStep, FlushStep, ControlStep
<1>2. CASE UNCHANGED vars
  BY <1>2 DEF vars, ownerVars, pollVars, writerVars, IInv, TypeOK, InOrderOnce, BatchBounded,
              StopOrder
<1> QED
  BY <1>1, <1>2

\* The inductive invariant of poll thread, writer and owner (queue_worker.py).
THEOREM Invariance == SafeSpec => []IInv
BY Initially, Preserved, PTL DEF SafeSpec

\* Type correctness.
THEOREM TypeCorrect == SafeSpec => []TypeOK
BY Invariance, PTL DEF IInv

(***************************************************************************)
(* Batching, failures, late joins and the stop sequence lose, repeat and   *)
(* reorder nothing on the way from put to _flush.                          *)
(***************************************************************************)
THEOREM OrderKept == SafeSpec => []InOrderOnce
BY Invariance, PTL DEF IInv

\* No transaction before the final flush exceeds batch_size.
THEOREM BatchesBounded == SafeSpec => []BatchBounded
BY Invariance, PTL DEF IInv

(***************************************************************************)
(* The stop() of a monitor whose joins were in time leaves nothing queued. *)
(***************************************************************************)
THEOREM CleanStop == SafeSpec => []CleanStopSettlesAll
<1>1. IInv => CleanStopSettlesAll
  <2> SUFFICES ASSUME IInv, owner \in {"stopped", "exited"}, ~late
               PROVE  Len(history) = produced
    BY DEF CleanStopSettlesAll
  <2>1. writer = "ended"
    BY DEF IInv, StopOrder
  <2>2. queue = <<>> /\ batch = <<>>
    BY <2>1 DEF IInv, StopOrder
  <2>3. Len(queue) = 0 /\ Len(batch) = 0 /\ Len(history) \in Nat
    BY <2>2, LenProperties DEF IInv, TypeOK
  <2> QED
    BY <2>3 DEF IInv, InOrderOnce
<1> QED
  BY <1>1, Invariance, PTL

(***************************************************************************)
(* After such a stop() the monitor touches neither queue nor database.     *)
(***************************************************************************)
THEOREM QuietAfterStop == SafeSpec => QuietAfterCleanStop
<1>1. IInv /\ [Next]_vars
      => [owner = "stopped" /\ ~late => UNCHANGED <<history, queue, batch, produced>>]_vars
  <2> SUFFICES ASSUME IInv, [Next]_vars, owner = "stopped", ~late
               PROVE  UNCHANGED <<history, queue, batch, produced>>
    OBVIOUS
  <2>1. writer = "ended" /\ poller \in {"ended", "killed"}
    BY DEF IInv, StopOrder
  <2>2. ~Put /\ ~GetFirst /\ ~FillBatch /\ ~DrainOne /\ ~Flush
    BY <2>1 DEF Put, GetFirst, FillBatch, DrainOne, Flush
  <2>3. CASE Next
    BY <2>2, <2>3, NextCases, ControlData
  <2>4. CASE UNCHANGED vars
    BY <2>4 DEF vars, pollVars, writerVars
  <2> QED
    BY <2>3, <2>4
<1> QED
  BY <1>1, Invariance, PTL DEF SafeSpec, QuietAfterCleanStop
-----------------------------------------------------------------------------
(* Refinement: the queue and its writer implement EventPipe. *)

Fated(kept) == IF kept THEN "stored" ELSE "dropped"

\* By InOrderOnce the fate of the n-th observation is the n-th fate.
ByPosition ==
    \A n \in 1..produced :
        OutcomeOf(n) = IF n <= Len(history) THEN Fated(history[n].kept) ELSE "pending"

\* What became of the n-th observation stands at the n-th place of the history.
LEMMA OutcomeByPosition == IInv => ByPosition
<1> SUFFICES ASSUME IInv, NEW n \in 1..produced
             PROVE  OutcomeOf(n) = IF n <= Len(history) THEN Fated(history[n].kept) ELSE "pending"
  BY DEF ByPosition
<1>1. Len(history) \in Nat /\ \A i \in 1..Len(history) : history[i] \in Fate
  BY LenProperties, ElementOfSeq DEF IInv, TypeOK
<1>2. \A i \in 1..Len(history) : history[i].item = i
  BY DEF IInv, InOrderOnce
<1>3. CASE n <= Len(history)
  <2>1. n \in 1..Len(history)
    BY <1>1, <1>3
  <2>2. history[n] = [item |-> n, kept |-> history[n].kept] /\ history[n].kept \in BOOLEAN
    BY <2>1, <1>1, <1>2 DEF Fate
  <2>3. \A kept \in BOOLEAN : SettledAs(n, kept) <=> history[n].kept = kept
    <3> TAKE kept \in BOOLEAN
    <3>1. ASSUME SettledAs(n, kept) PROVE history[n].kept = kept
      <4>1. PICK i \in 1..Len(history) : history[i] = [item |-> n, kept |-> kept]
        BY <3>1 DEF SettledAs
      <4>2. history[i].item = n
        BY <4>1
      <4>3. i = n
        BY <4>2, <1>2
      <4> QED
        BY <4>1, <4>3
    <3>2. ASSUME history[n].kept = kept PROVE SettledAs(n, kept)
      BY <3>2, <2>1, <2>2 DEF SettledAs
    <3> QED
      BY <3>1, <3>2
  <2> QED
    BY <2>2, <2>3, <1>3 DEF OutcomeOf, Fated
<1>4. CASE ~(n <= Len(history))
  <2>1. ASSUME NEW kept, SettledAs(n, kept) PROVE FALSE
    <3>1. PICK i \in 1..Len(history) : history[i] = [item |-> n, kept |-> kept]
      BY <2>1 DEF SettledAs
    <3>2. history[i].item = n
      BY <3>1
    <3>3. i = n
      BY <3>2, <1>2
    <3> QED
      BY <3>3, <1>1, <1>4
  <2> QED
    BY <2>1, <1>4 DEF OutcomeOf
<1> QED
  BY <1>3, <1>4

outcomes == [i \in 1..produced |-> OutcomeOf(i)]

\* The refinement mapping gives EventPipe a sequence of outcomes.
LEMMA OutcomesAreASeq ==
  ASSUME IInv
  PROVE  outcomes \in Seq(Pipe!Outcomes) /\ Len(outcomes) = produced /\ produced \in Nat
<1>1. produced \in Nat
  BY DEF IInv, TypeOK
<1>2. \A i \in 1..produced : OutcomeOf(i) \in Pipe!Outcomes
  BY DEF OutcomeOf, Pipe!Outcomes
<1> QED
  BY <1>1, <1>2, IsASeq DEF outcomes

\* A put is the pipe's acceptance.
LEMMA PutAccepts == IInv /\ Put => Pipe!Accept
<1> SUFFICES ASSUME IInv, Put PROVE outcomes' = Append(outcomes, "pending")
  BY DEF Pipe!Accept, outcomes
<1>1. produced' = produced + 1 /\ UNCHANGED history
  BY DEF Put, writerVars
<1>2. outcomes \in Seq(Pipe!Outcomes) /\ Len(outcomes) = produced /\ produced \in Nat
  BY OutcomesAreASeq
<1>3. \A i : OutcomeOf(i)' = OutcomeOf(i)
  BY <1>1 DEF OutcomeOf, SettledAs
<1>4. ByPosition
  BY OutcomeByPosition
<1>5. OutcomeOf(produced + 1) = "pending"
  <2>1. Len(history) \in Nat /\ produced >= Len(history)
    <3>1. Len(history) \in Nat /\ Len(batch) \in Nat /\ Len(queue) \in Nat
      BY LenProperties DEF IInv, TypeOK
    <3> QED
      BY <3>1 DEF IInv, InOrderOnce
  <2>2. ASSUME NEW kept, SettledAs(produced + 1, kept) PROVE FALSE
    <3>1. PICK i \in 1..Len(history) : history[i] = [item |-> produced + 1, kept |-> kept]
      BY <2>2 DEF SettledAs
    <3>2. history[i].item = produced + 1
      BY <3>1
    <3>3. i = produced + 1
      BY <3>2 DEF IInv, InOrderOnce
    <3> QED
      BY <3>3, <2>1, <1>2
  <2> QED
    BY <2>2 DEF OutcomeOf
<1>6. "pending" \in Pipe!Outcomes
  BY DEF Pipe!Outcomes
<1> DEFINE longer == Append(outcomes, "pending")
<1>7. /\ longer \in Seq(Pipe!Outcomes) /\ Len(longer) = produced + 1
      /\ \A i \in 1..produced : longer[i] = outcomes[i]
      /\ longer[produced + 1] = "pending"
  BY <1>2, <1>6, AppendProperties
<1>8. outcomes' = [i \in 1..(produced + 1) |-> OutcomeOf(i)]
  BY <1>1, <1>3 DEF outcomes
<1> HIDE DEF longer
<1>9. longer = [i \in 1..(produced + 1) |-> longer[i]]
  BY <1>7, <1>2, LenProperties
<1>10. ASSUME NEW i \in 1..(produced + 1) PROVE longer[i] = OutcomeOf(i)
  <2>1. CASE i \in 1..produced
    BY <2>1, <1>7 DEF outcomes
  <2>2. CASE i = produced + 1
    BY <2>2, <1>7, <1>5
  <2> QED
    BY <2>1, <2>2, <1>2
<1>11. longer = outcomes'
  BY <1>8, <1>9, <1>10
<1> QED
  BY <1>11 DEF longer

\* A transaction settles a run of the oldest, with one outcome.
LEMMA FlushSettles == IInv /\ Flush => Pipe!Settle \/ outcomes' = outcomes
<1> SUFFICES ASSUME IInv, Flush PROVE Pipe!Settle \/ outcomes' = outcomes
  OBVIOUS
<1>1. PICK kept \in {TRUE, ~WriteMayFail} :
         history' = history \o [i \in 1..Len(batch) |-> [item |-> batch[i], kept |-> kept]]
  BY DEF Flush
<1>2. kept \in BOOLEAN
  BY QueueWriterAssumption DEF QueueWriterAssumption
<1>3. /\ Len(queue) \in Nat /\ Len(batch) \in Nat /\ Len(history) \in Nat /\ produced \in Nat
      /\ produced = Len(history) + Len(batch) + Len(queue) /\ UNCHANGED produced
  BY LenProperties DEF IInv, TypeOK, InOrderOnce, Flush, pollVars
<1> DEFINE settled == [i \in 1..Len(batch) |-> [item |-> batch[i], kept |-> kept]]
<1>4. settled \in Seq(Fate) /\ Len(settled) = Len(batch)
  <2>1. \A i \in 1..Len(batch) : [item |-> batch[i], kept |-> kept] \in Fate
    BY <1>2, ElementOfSeq DEF Fate, IInv, TypeOK
  <2> QED
    BY <1>3, <2>1, IsASeq
<1> HIDE DEF settled
<1>5. /\ Len(history') = Len(history) + Len(batch)
      /\ \A i \in 1..Len(history') :
             history'[i] = IF i <= Len(history) THEN history[i]
                           ELSE settled[i - Len(history)]
  BY <1>1, <1>4, ConcatProperties DEF IInv, TypeOK, settled
<1>6. ByPosition /\ ByPosition'
  <2>1. IInv'
    BY FlushStep
  <2>2. IInv' => ByPosition'
    BY OutcomeByPosition, PTL
  <2> QED
    BY <2>1, <2>2, OutcomeByPosition
<1> DEFINE first == Len(history) + 1
           last == Len(history) + Len(batch)
<1>7. outcomes' = [n \in 1..produced |-> IF n \in first..last THEN Fated(kept) ELSE outcomes[n]]
  <2>1. ASSUME NEW n \in 1..produced
        PROVE  OutcomeOf(n)' = IF n \in first..last THEN Fated(kept) ELSE outcomes[n]
    <3>1. OutcomeOf(n)' = IF n <= Len(history') THEN Fated(history'[n].kept) ELSE "pending"
      BY <1>6, <1>3 DEF ByPosition
    <3>2. outcomes[n] = IF n <= Len(history) THEN Fated(history[n].kept) ELSE "pending"
      BY <1>6 DEF ByPosition, outcomes
    <3>3. CASE n <= Len(history)
      BY <3>1, <3>2, <3>3, <1>3, <1>5
    <3>4. CASE n \in first..last
      <4>1. n - Len(history) \in 1..Len(batch)
        BY <3>4, <1>3
      <4>2. history'[n] = settled[n - Len(history)]
        BY <3>4, <1>3, <1>5
      <4>3. history'[n].kept = kept
        BY <4>1, <4>2 DEF settled
      <4> QED
        BY <3>1, <3>4, <4>3, <1>3, <1>5
    <3>5. CASE n > last
      BY <3>1, <3>2, <3>5, <1>3, <1>5
    <3> QED
      BY <3>3, <3>4, <3>5, <1>3
  <2> QED
    BY <2>1, <1>3 DEF outcomes
<1>8. CASE Len(batch) = 0
  <2>1. \A n \in 1..produced : n \notin first..last
    BY <1>8, <1>3
  <2>2. outcomes' = [n \in 1..produced |-> outcomes[n]]
    BY <1>7, <2>1
  <2> QED
    BY <2>2 DEF outcomes
<1>9. CASE Len(batch) > 0
  <2>1. Len(outcomes) = produced
    BY OutcomesAreASeq
  <2>2. first \in 1..produced /\ last \in first..produced
    BY <1>9, <1>3
  <2>3. \A n \in 1..produced : outcomes[n] = "pending" <=> n >= first
    BY <1>6, <1>3 DEF ByPosition, outcomes, Fated
  <2>4. Fated(kept) \in {"stored", "dropped"}
    BY DEF Fated
  <2>5. Pipe!Oldest(first)
    BY <2>1, <2>2, <2>3 DEF Pipe!Oldest, outcomes
  <2>6. Pipe!Settle
    <3>1. outcomes' = [n \in 1..Len(outcomes) |->
                          IF n \in first..last THEN Fated(kept) ELSE outcomes[n]]
      BY <2>1, <1>7
    <3>2. first \in 1..Len(outcomes) /\ last \in first..Len(outcomes)
      BY <2>1, <2>2
    <3> HIDE DEF first, last
    <3>3. \E i \in 1..Len(outcomes) : \E j \in i..Len(outcomes) :
             \E o \in {"stored", "dropped"} :
                /\ Pipe!Oldest(i)
                /\ outcomes' = [k \in 1..Len(outcomes) |->
                                   IF k \in i..j THEN o ELSE outcomes[k]]
      BY <3>1, <3>2, <2>4, <2>5
    <3> QED
      BY <3>3 DEF Pipe!Settle, outcomes
  <2> QED
    BY <2>6
<1> QED
  BY <1>8, <1>9, <1>3

(***************************************************************************)
(* The queue and its writer implement the pipe: accepted one at a time,    *)
(* settled oldest first in runs that share one outcome.                    *)
(***************************************************************************)
THEOREM ImplementsPipe == SafeSpec => PipeSafe
<1>1. Init => Pipe!Init
  <2>1. Init => produced = 0
    BY DEF Init
  <2>2. produced = 0 => outcomes = <<>>
    BY DEF outcomes
  <2> QED
    BY <2>1, <2>2 DEF Pipe!Init, outcomes
<1>2. IInv /\ [Next]_vars => [Pipe!Next]_outcomes
  <2> SUFFICES ASSUME IInv, [Next]_vars PROVE Pipe!Next \/ outcomes' = outcomes
    OBVIOUS
  <2>1. (UNCHANGED <<produced, history>>) => outcomes' = outcomes
    BY DEF outcomes, OutcomeOf, SettledAs
  <2>2. CASE Put
    BY <2>2, PutAccepts DEF Pipe!Next
  <2>3. CASE Flush
    BY <2>3, FlushSettles DEF Pipe!Next
  <2>4. CASE GetFirst \/ FillBatch \/ DrainOne
    BY <2>1, <2>4 DEF GetFirst, FillBatch, DrainOne, pollVars
  <2>5. CASE Control
    BY <2>1, <2>5, ControlData
  <2>6. CASE UNCHANGED vars
    BY <2>1, <2>6 DEF vars, pollVars, writerVars
  <2> QED
    BY <2>2, <2>3, <2>4, <2>5, <2>6, NextCases
<1> QED
  BY <1>1, <1>2, Invariance, PTL DEF SafeSpec, PipeSafe, Pipe!SafeSpec, outcomes

=============================================================================
