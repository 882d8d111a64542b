---------------------------- MODULE MonitorsProofs ----------------------------
(***************************************************************************)
(* What the polling monitors tell of the world, for worlds of every size:  *)
(* the lives of processes, the connections, the autostart entries, the     *)
(* records of the event log.                                               *)
(***************************************************************************)
EXTENDS MCMonitors, FiniteSetTheorems, FunctionTheorems, SequenceTheorems, WellFoundedInduction,
        TLAPS

USE NetworkMonitorAssumption DEF NetworkMonitorAssumption
-----------------------------------------------------------------------------
(***************************************************************************)
(* The network monitor: no connection is told more often than it was       *)
(* opened and snapshots failed, and a stop in time loses nothing of what   *)
(* was told.  Occurrences in a sequence are counted.                       *)
(***************************************************************************)

(* A number of occurrences is a natural number. *)
LEMMA TimesType ==
    ASSUME NEW S, NEW s \in Seq(S), NEW c
    PROVE  /\ IsFiniteSet({i \in 1..Len(s) : s[i] = c})
           /\ Times(s, c) \in Nat
<1>1. Len(s) \in Nat
  BY LenProperties
<1>2. IsFiniteSet(1..Len(s))
  BY <1>1, FS_Interval
<1>3. IsFiniteSet({i \in 1..Len(s) : s[i] = c})
  BY <1>2, FS_Subset
<1> QED BY <1>3, FS_CardinalityType DEF Times

(* The empty sequence holds nothing. *)
LEMMA TimesNone == \A c : Times(<<>>, c) = 0
<1> SUFFICES ASSUME NEW c PROVE Times(<<>>, c) = 0
  OBVIOUS
<1>1. {i \in 1..Len(<<>>) : <<>>[i] = c} = {}
  OBVIOUS
<1> QED BY <1>1, FS_EmptySet DEF Times

(* A concatenation holds what its parts hold. *)
LEMMA TimesConcat ==
    ASSUME NEW S, NEW s \in Seq(S), NEW t \in Seq(S), NEW c
    PROVE  Times(s \o t, c) = Times(s, c) + Times(t, c)
<1> DEFINE A == {i \in 1..Len(s) : s[i] = c}
           B == {i \in 1..Len(t) : t[i] = c}
           D == {i \in Len(s) + 1 .. Len(s) + Len(t) : t[i - Len(s)] = c}
           f == [i \in B |-> i + Len(s)]
<1>1. Len(s) \in Nat /\ Len(t) \in Nat
  BY LenProperties
<1>2. {i \in 1..Len(s \o t) : (s \o t)[i] = c} = A \cup D
  <2>1. /\ Len(s \o t) = Len(s) + Len(t)
        /\ \A i \in 1..Len(s) + Len(t) :
               (s \o t)[i] = IF i <= Len(s) THEN s[i] ELSE t[i - Len(s)]
    BY ConcatProperties
  <2> QED BY <1>1, <2>1
<1>3. IsFiniteSet(A) /\ IsFiniteSet(B)
  BY TimesType
<1>4. f \in Bijection(B, D)
  <2>1. f \in [B -> D]
    BY <1>1
  <2>2. \A i, j \in B : f[i] = f[j] => i = j
    BY <1>1
  <2>3. \A k \in D : \E i \in B : f[i] = k
    <3> SUFFICES ASSUME NEW k \in D PROVE \E i \in B : f[i] = k
      OBVIOUS
    <3>1. k - Len(s) \in B
      BY <1>1
    <3> QED BY <1>1, <3>1
  <2> QED BY <2>1, <2>2, <2>3, Fun_IsBij
<1>5. IsFiniteSet(D) /\ Cardinality(D) = Cardinality(B)
  BY <1>3, <1>4, FS_Bijection DEF ExistsBijection
<1>6. A \cap D = {}
  BY <1>1
<1>7. Cardinality(A \cup D) = Cardinality(A) + Cardinality(D) - Cardinality(A \cap D)
  BY <1>3, <1>5, FS_Union
<1>8. Cardinality(A) \in Nat /\ Cardinality(D) \in Nat /\ Cardinality(A \cap D) = 0
  BY <1>3, <1>5, <1>6, FS_CardinalityType, FS_EmptySet
<1>9. Times(s \o t, c) = Cardinality(A \cup D) /\ Times(s, c) = Cardinality(A)
      /\ Times(t, c) = Cardinality(B)
  BY <1>2 DEF Times
<1> HIDE DEF A, B, D
<1> QED BY <1>5, <1>7, <1>8, <1>9

(* An ordering of a set holds each of its elements once. *)
LEMMA OrdersCount ==
    ASSUME NEW S \in SUBSET Conns, NEW s \in Orders(S)
    PROVE  /\ s \in Seq(Conns)
           /\ \A c \in Conns : Times(s, c) = IF c \in S THEN 1 ELSE 0
<1> DEFINE n == Cardinality(S)
<1>1. IsFiniteSet(S) /\ n \in Nat
  BY FS_Subset, FS_CardinalityType
<1>2. s \in [1..n -> S] /\ DOMAIN s = 1..n /\ \A c \in S : \E i \in 1..n : s[i] = c
  BY DEF Orders
<1>3. s \in Seq(Conns) /\ Len(s) = n
  BY <1>1, <1>2
<1>4. IsFiniteSet(1..n) /\ Cardinality(1..n) = n
  BY <1>1, FS_Interval
<1>5. s \in Surjection(1..n, S)
  BY <1>2, Fun_IsSurj
<1>6. s \in Injection(1..n, S)
  BY <1>4, <1>5, FS_SurjSameCardinalityImpliesInj
<1>7. \A i, j \in 1..n : s[i] = s[j] => i = j
  BY <1>6, Fun_InjectionProperties
<1>8. ASSUME NEW c \in Conns PROVE Times(s, c) = IF c \in S THEN 1 ELSE 0
  <2>1. CASE c \in S
    <3>1. PICK i \in 1..n : s[i] = c
      BY <1>2, <2>1
    <3>2. {j \in 1..Len(s) : s[j] = c} = {i}
      BY <1>3, <1>7, <3>1
    <3> QED BY <2>1, <3>2, FS_Singleton DEF Times
  <2>2. CASE c \notin S
    <3>1. {j \in 1..Len(s) : s[j] = c} = {}
      BY <1>2, <1>3, <2>2
    <3> QED BY <2>2, <3>1, FS_EmptySet DEF Times
  <2> QED BY <2>1, <2>2
<1> QED BY <1>3, <1>8
-----------------------------------------------------------------------------
(***************************************************************************)
(* A connection that is open and not known has one report in store.        *)
(***************************************************************************)
InStore == \A c \in Conns :
    netTold[c] + (IF c \in open \ netKnown THEN 1 ELSE 0) <= opens[c] + failures

(***************************************************************************)
(* What is told is committed, failed with its transaction, written or      *)
(* waiting: nothing leaves the queue and the batch but by a commit or by   *)
(* the failure of the transaction it is in.                                *)
(***************************************************************************)
InFlight(c) == Times(done, c) + Times(todo, c) + Times(netQueue, c)

Accounted == ~dropped => \A c \in Conns : netTold[c] = settled[c] + netFailed[c] + InFlight(c)

(***************************************************************************)
(* The order of the stop: as long as the joins ended in time, the poll     *)
(* thread has ended before the writer is told to, the writer before the    *)
(* resolver is shut down, and nothing is left to resolve by then.          *)
(***************************************************************************)
StopOrder ==
    /\ pool <=> netOwner # "stopped"
    /\ netWriter = "ended" => /\ todo = <<>> /\ done = <<>>
                             /\ netOwner \in {"closing", "shutting", "stopped"}
    /\ ~netLate =>
           /\ ~dropped
           /\ netOwner \in {"closing", "shutting", "stopped"} => netPoll = "ended"
           /\ netOwner \in {"shutting", "stopped"} => netWriter = "ended"
           /\ netWriter = "ended" => netQueue = <<>>
    /\ netWriter = "resolving" => todo # <<>>

\* The inductive invariant.
NetworkInv == NetworkTypeOK /\ InStore /\ Accounted /\ StopOrder
-----------------------------------------------------------------------------
(* Nothing is told, queued or written at first. *)
THEOREM NetworkInitially == NetworkInit => NetworkInv
<1> SUFFICES ASSUME NetworkInit PROVE NetworkInv
  OBVIOUS
<1>1. NetworkTypeOK
  <2>1. Cardinality({}) = 0 /\ <<>> \in Seq(Conns)
    BY FS_EmptySet
  <2>2. opens \in [Conns -> 0..MaxOpens]
    BY DEF NetworkInit
  <2>3. netTold \in [Conns -> Nat] /\ settled \in [Conns -> Nat] /\ netFailed \in [Conns -> Nat]
    BY DEF NetworkInit
  <2>4. cache \subseteq Conns /\ Cardinality(cache) <= MaxCache /\ stuck \in Nat
        /\ failures \in 0..MaxFailures /\ rollbacks \in 0..MaxRollbacks
    BY <2>1 DEF NetworkInit
  <2>5. open \subseteq Conns /\ netKnown \subseteq Conns
    BY DEF NetworkInit
  <2> QED BY <2>1, <2>2, <2>3, <2>4, <2>5 DEF NetworkInit, NetworkTypeOK
<1>2. InStore
  BY DEF NetworkInit, InStore
<1>3. Accounted
  BY TimesNone DEF NetworkInit, Accounted, InFlight
<1>4. StopOrder
  BY DEF NetworkInit, StopOrder
<1> QED BY <1>1, <1>2, <1>3, <1>4 DEF NetworkInv

(* Connections come and go: what was opened only grows. *)
LEMMA WorldStep ==
    ASSUME NetworkInv, NEW c \in Conns, Connect(c) \/ Disconnect(c)
    PROVE  NetworkInv'
<1> USE DEF NetworkInv, netPollVars, netWriterVars, failedVars, resolverVars, netOwnerVars
<1>1. NetworkTypeOK'
  <2>1. opens' \in [Conns -> 0..MaxOpens]
    <3>1. CASE Connect(c)
      <4>1. opens[c] + 1 \in 0..MaxOpens
        BY <3>1 DEF Connect, NetworkTypeOK
      <4> QED BY <3>1, <4>1 DEF Connect, NetworkTypeOK
    <3>2. CASE Disconnect(c)
      BY <3>2 DEF Disconnect, NetworkTypeOK
    <3> QED BY <3>1, <3>2
  <2>2. open' \subseteq Conns
    BY DEF Connect, Disconnect, NetworkTypeOK
  <2> QED BY <2>1, <2>2 DEF Connect, Disconnect, NetworkTypeOK
<1>2. InStore'
  <2> SUFFICES ASSUME NEW d \in Conns
               PROVE  netTold[d] + (IF d \in open' \ netKnown THEN 1 ELSE 0) <= opens'[d] + failures
    BY DEF Connect, Disconnect, InStore
  <2>1. netTold[d] + (IF d \in open \ netKnown THEN 1 ELSE 0) <= opens[d] + failures
    BY DEF InStore
  <2>2. netTold[d] \in Nat /\ opens[d] \in Nat /\ opens'[d] \in Nat /\ failures \in Nat
    BY <1>1 DEF NetworkTypeOK
  <2>3. CASE d = c /\ Connect(c)
    <3>1. d \notin open /\ opens'[d] = opens[d] + 1
      BY <2>3 DEF Connect, NetworkTypeOK
    <3> QED BY <2>1, <2>2, <3>1
  <2>4. CASE ~(d = c /\ Connect(c))
    <3>1. opens'[d] = opens[d]
      BY <2>4 DEF Connect, Disconnect, NetworkTypeOK
    <3>2. d \in open' => d \in open
      BY <2>4 DEF Connect, Disconnect
    <3> QED BY <2>1, <2>2, <3>1, <3>2
  <2> QED BY <2>3, <2>4
<1>3. Accounted'
  BY DEF Connect, Disconnect, Accounted, InFlight
<1>4. StopOrder'
  BY DEF Connect, Disconnect, StopOrder
<1> QED BY <1>1, <1>2, <1>3, <1>4

(* The seed makes connections known without a report. *)
LEMMA SeedStep == ASSUME NetworkInv, SeedConnections PROVE NetworkInv'
<1> USE DEF NetworkInv, netWriterVars, failedVars, resolverVars, netOwnerVars
<1>1. PICK snapshot \in SUBSET Conns : Snapshot(snapshot) /\ netKnown' = snapshot
  BY DEF SeedConnections
<1>2. failures' \in 0..MaxFailures /\ failures' \in {failures, failures + 1}
  BY <1>1 DEF Snapshot, NetworkTypeOK
<1>3. NetworkTypeOK'
  BY <1>1, <1>2 DEF SeedConnections, NetworkTypeOK
<1>4. InStore'
  <2> SUFFICES ASSUME NEW d \in Conns
               PROVE  netTold[d] + (IF d \in open \ netKnown' THEN 1 ELSE 0)
                          <= opens[d] + failures'
    BY DEF SeedConnections, InStore
  <2>1. netTold[d] + (IF d \in open \ netKnown THEN 1 ELSE 0) <= opens[d] + failures
    BY DEF InStore
  <2>2. netTold[d] \in Nat /\ opens[d] \in Nat /\ failures \in Nat
    BY DEF NetworkTypeOK
  <2>3. \/ d \notin open \ netKnown' /\ failures' = failures
        \/ failures' = failures + 1
    BY <1>1 DEF Snapshot
  <2> QED BY <2>1, <2>2, <2>3
<1>5. Accounted'
  BY DEF SeedConnections, Accounted, InFlight
<1>6. StopOrder'
  BY DEF SeedConnections, StopOrder
<1> QED BY <1>3, <1>4, <1>5, <1>6

(* A poll pays each report with an opening or with a failure. *)
LEMMA PollStep == ASSUME NetworkInv, PollConnections PROVE NetworkInv'
<1> USE DEF NetworkInv, netWriterVars, failedVars, resolverVars, netOwnerVars
<1>1. PICK snapshot \in SUBSET Conns :
          /\ Snapshot(snapshot)
          /\ \E news \in Orders(NewlySeen(snapshot)) : netQueue' = netQueue \o news
          /\ netTold' = [c \in Conns |->
                IF c \in NewlySeen(snapshot) THEN netTold[c] + 1 ELSE netTold[c]]
          /\ netKnown' = snapshot
  BY DEF PollConnections
<1>2. PICK news \in Orders(NewlySeen(snapshot)) : netQueue' = netQueue \o news
  BY <1>1
<1>3. NewlySeen(snapshot) \in SUBSET Conns
  BY DEF NewlySeen
<1>4. /\ news \in Seq(Conns)
      /\ \A c \in Conns : Times(news, c) = IF c \in NewlySeen(snapshot) THEN 1 ELSE 0
  BY <1>3, OrdersCount
<1>5. netQueue' \in Seq(Conns)
  BY <1>2, <1>4, ConcatProperties DEF NetworkTypeOK
<1>6. failures' \in 0..MaxFailures /\ failures' \in {failures, failures + 1}
  BY <1>1 DEF Snapshot, NetworkTypeOK
<1>7. NetworkTypeOK'
  BY <1>1, <1>5, <1>6 DEF PollConnections, NetworkTypeOK
<1>8. InStore'
  <2> SUFFICES ASSUME NEW d \in Conns
               PROVE  netTold'[d] + (IF d \in open \ netKnown' THEN 1 ELSE 0)
                          <= opens[d] + failures'
    BY DEF PollConnections, InStore
  <2>1. netTold[d] + (IF d \in open \ netKnown THEN 1 ELSE 0) <= opens[d] + failures
    BY DEF InStore
  <2>2. netTold[d] \in Nat /\ opens[d] \in Nat /\ failures \in Nat
    BY DEF NetworkTypeOK
  <2>3. netTold'[d] = IF d \in snapshot \ netKnown THEN netTold[d] + 1 ELSE netTold[d]
    BY <1>1 DEF NewlySeen
  <2>4. \/ snapshot = open /\ failures' = failures
        \/ snapshot = {} /\ failures' = failures + 1
    BY <1>1 DEF Snapshot
  <2> QED BY <1>1, <2>1, <2>2, <2>3, <2>4
<1>9. Accounted'
  <2> SUFFICES ASSUME ~dropped, NEW c \in Conns
               PROVE  netTold'[c] = settled[c] + netFailed[c] + InFlight(c)'
    BY DEF PollConnections, Accounted
  <2>1. Times(netQueue', c) = Times(netQueue, c) + Times(news, c)
    BY <1>2, <1>4, TimesConcat DEF NetworkTypeOK
  <2>2. /\ Times(netQueue, c) \in Nat /\ Times(done, c) \in Nat /\ Times(todo, c) \in Nat
        /\ settled[c] \in Nat /\ netFailed[c] \in Nat /\ netTold[c] \in Nat
    BY TimesType DEF NetworkTypeOK
  <2>3. netTold[c] = settled[c] + netFailed[c] + InFlight(c)
    BY DEF Accounted
  <2>4. netTold'[c] = netTold[c] + Times(news, c)
    BY <1>1, <1>4, <2>2
  <2>5. Times(news, c) \in Nat
    BY <1>4
  <2>6. UNCHANGED <<done, todo, settled, netFailed>>
    BY DEF PollConnections
  <2>7. InFlight(c)' = Times(done, c) + Times(todo, c) + Times(netQueue', c)
    BY <2>6 DEF InFlight
  <2>8. InFlight(c) = Times(done, c) + Times(todo, c) + Times(netQueue, c)
    BY DEF InFlight
  <2> QED BY <2>1, <2>2, <2>3, <2>4, <2>5, <2>6, <2>7, <2>8
<1>10. StopOrder'
  BY DEF PollConnections, StopOrder
<1> QED BY <1>7, <1>8, <1>9, <1>10

(* The poll thread ends only once stop() has begun. *)
LEMMA LeavePollsStep == ASSUME NetworkInv, LeavePolls PROVE NetworkInv'
<1> USE DEF NetworkInv, netWriterVars, failedVars, resolverVars, netOwnerVars
<1>1. NetworkTypeOK' /\ InStore'
  BY DEF LeavePolls, NetworkTypeOK, InStore
<1>2. Accounted' /\ StopOrder'
  BY DEF LeavePolls, Accounted, InFlight, StopOrder
<1> QED BY <1>1, <1>2
-----------------------------------------------------------------------------
(* The writer. *)

(* The batch is what the queue held. *)
LEMMA TakeBatchStep == ASSUME NetworkInv, TakeBatch PROVE NetworkInv'
<1> USE DEF NetworkInv, netPollVars, failedVars, resolverVars, netOwnerVars
<1>1. NetworkTypeOK' /\ InStore'
  BY DEF TakeBatch, NetworkTypeOK, InStore
<1>2. Accounted'
  <2> SUFFICES ASSUME ~dropped, NEW c \in Conns
               PROVE  netTold[c] = settled[c] + netFailed[c] + InFlight(c)'
    BY DEF TakeBatch, Accounted
  <2>1. netTold[c] = settled[c] + netFailed[c] + InFlight(c) /\ Times(netQueue, c) \in Nat
    BY TimesType DEF Accounted, NetworkTypeOK
  <2> QED BY <2>1, TimesNone DEF TakeBatch, InFlight
<1>3. StopOrder'
  BY DEF TakeBatch, StopOrder
<1> QED BY <1>1, <1>2, <1>3

(***************************************************************************)
(* A transaction that fails takes its batch along: what was written of it  *)
(* and what was not.                                                       *)
(***************************************************************************)
LEMMA RollBackStep ==
    ASSUME NetworkInv, netWriter \in {"idle", "resolving"}, RollBack,
           cache' \subseteq Conns, Cardinality(cache') <= MaxCache, stuck' \in Nat
    PROVE  NetworkInv'
<1> USE DEF NetworkInv, netPollVars, netOwnerVars
<1>1. done \in Seq(Conns) /\ todo \in Seq(Conns) /\ netQueue \in Seq(Conns)
  BY DEF NetworkTypeOK
<1>2. \A c \in Conns : /\ Times(done \o todo, c) = Times(done, c) + Times(todo, c)
                       /\ Times(done, c) \in Nat /\ Times(todo, c) \in Nat
                       /\ Times(netQueue, c) \in Nat
                       /\ settled[c] \in Nat /\ netFailed[c] \in Nat
  <2> SUFFICES ASSUME NEW c \in Conns
               PROVE  /\ Times(done \o todo, c) = Times(done, c) + Times(todo, c)
                      /\ Times(done, c) \in Nat /\ Times(todo, c) \in Nat
                      /\ Times(netQueue, c) \in Nat
                      /\ settled[c] \in Nat /\ netFailed[c] \in Nat
    OBVIOUS
  <2>1. Times(done \o todo, c) = Times(done, c) + Times(todo, c)
    BY <1>1, TimesConcat
  <2>2. Times(done, c) \in Nat /\ Times(todo, c) \in Nat /\ Times(netQueue, c) \in Nat
    BY <1>1, TimesType
  <2>3. settled[c] \in Nat /\ netFailed[c] \in Nat
    BY DEF NetworkTypeOK
  <2> QED BY <2>1, <2>2, <2>3
<1>3. /\ netFailed' = [c \in Conns |-> netFailed[c] + Times(done \o todo, c)]
      /\ rollbacks' = rollbacks + 1 /\ rollbacks < MaxRollbacks
      /\ todo' = <<>> /\ done' = <<>> /\ netWriter' = "idle"
      /\ UNCHANGED <<settled, dropped, netQueue, netTold>>
  BY DEF RollBack
<1>4. \A c \in Conns : /\ netFailed'[c] = netFailed[c] + Times(done, c) + Times(todo, c)
                       /\ netFailed[c] + Times(done \o todo, c) \in Nat
  BY <1>2, <1>3
<1>5. netFailed' \in [Conns -> Nat] /\ rollbacks' \in 0..MaxRollbacks
  BY <1>3, <1>4 DEF NetworkTypeOK
<1>6. NetworkTypeOK'
  <2>1. UNCHANGED <<open, opens, netPoll, netKnown, netTold, failures, netQueue, settled, dropped,
                    netOwner, netLate, pool>>
    BY DEF RollBack
  <2>2. <<>> \in Seq(Conns)
    OBVIOUS
  <2> QED BY <1>3, <1>5, <2>1, <2>2 DEF NetworkTypeOK
<1>7. InStore'
  BY DEF RollBack, InStore
<1>8. Accounted'
  <2> SUFFICES ASSUME ~dropped, NEW c \in Conns
               PROVE  netTold[c] = settled[c] + netFailed'[c] + InFlight(c)'
    BY <1>3 DEF Accounted
  <2>1. netTold[c] = settled[c] + netFailed[c] + InFlight(c)
    BY DEF Accounted
  <2>2. /\ Times(done', c) = 0 /\ Times(todo', c) = 0
        /\ Times(netQueue', c) = Times(netQueue, c)
    BY <1>3, TimesNone
  <2>3. InFlight(c) = Times(done, c) + Times(todo, c) + Times(netQueue, c)
    BY DEF InFlight
  <2>4. InFlight(c)' = Times(netQueue, c)
    BY <1>2, <2>2 DEF InFlight
  <2> QED BY <1>2, <1>4, <2>1, <2>3, <2>4
<1>9. StopOrder'
  BY DEF RollBack, StopOrder
<1> QED BY <1>6, <1>7, <1>8, <1>9

\* The row is written, by whichever way the writer had its address.
Written ==
    /\ done' = Append(done, Head(todo))
    /\ todo' = Tail(todo)
    /\ netWriter' = "idle"
    /\ UNCHANGED <<open, opens, netPollVars, netQueue, settled, dropped, failedVars, netOwnerVars>>

(* A row moves from the batch to the transaction. *)
LEMMA RowMoves ==
    ASSUME NetworkInv, todo # <<>>, Written
    PROVE  /\ done' \in Seq(Conns) /\ todo' \in Seq(Conns)
           /\ Accounted'
<1> USE DEF NetworkInv, netPollVars, failedVars, netOwnerVars
<1>1. Head(todo) \in Conns /\ Tail(todo) \in Seq(Conns)
  BY HeadTailProperties DEF NetworkTypeOK
<1>2. <<Head(todo)>> \in Seq(Conns)
  BY <1>1
<1>3. done' = done \o <<Head(todo)>> /\ done' \in Seq(Conns)
  BY <1>1, AppendIsConcat, AppendProperties DEF Written, NetworkTypeOK
<1>4. todo = <<Head(todo)>> \o Tail(todo)
  <2> DEFINE u == <<Head(todo)>> \o Tail(todo)
  <2>1. /\ u \in Seq(Conns) /\ Len(u) = 1 + Len(Tail(todo))
        /\ \A i \in 1..1 + Len(Tail(todo)) :
               u[i] = IF i <= 1 THEN Head(todo) ELSE Tail(todo)[i - 1]
    BY <1>1, <1>2, ConcatProperties
  <2>2. /\ Len(todo) \in Nat /\ Len(todo) > 0 /\ Len(Tail(todo)) = Len(todo) - 1
        /\ Head(todo) = todo[1] /\ \A i \in 1..Len(Tail(todo)) : Tail(todo)[i] = todo[i + 1]
    BY HeadTailProperties, EmptySeq, LenProperties DEF NetworkTypeOK
  <2>3. \A i \in 1..Len(todo) : i > 1 => i - 1 \in 1..Len(Tail(todo)) /\ (i - 1) + 1 = i
    BY <2>2
  <2>4. \A i \in 1..Len(todo) : todo[i] = u[i]
    BY <2>1, <2>2, <2>3
  <2> HIDE DEF u
  <2>5. todo \in Seq(Conns) /\ Len(todo) = Len(u)
    BY <2>1, <2>2 DEF NetworkTypeOK
  <2>6. todo = u
    BY <2>1, <2>4, <2>5, SeqEqual
  <2> QED BY <2>6 DEF u
<1>5. Accounted'
  <2> SUFFICES ASSUME ~dropped, NEW c \in Conns
               PROVE  netTold[c] = settled[c] + netFailed[c] + InFlight(c)'
    BY DEF Written, Accounted
  <2> DEFINE one == <<Head(todo)>>
  <2>0. done \in Seq(Conns) /\ one \in Seq(Conns)
    BY <1>2 DEF NetworkTypeOK
  <2>1. Times(done \o one, c) = Times(done, c) + Times(one, c)
    BY <2>0, TimesConcat
  <2>2. Times(one \o Tail(todo), c) = Times(one, c) + Times(Tail(todo), c)
    BY <1>1, <1>2, TimesConcat
  <2>3. /\ Times(done, c) \in Nat /\ Times(one, c) \in Nat /\ Times(Tail(todo), c) \in Nat
        /\ Times(netQueue, c) \in Nat /\ settled[c] \in Nat /\ netFailed[c] \in Nat
    BY <1>1, <1>2, TimesType DEF NetworkTypeOK
  <2>4. netTold[c] = settled[c] + netFailed[c] + InFlight(c)
    BY DEF Accounted
  <2>5. Times(done', c) = Times(done \o one, c) /\ Times(todo', c) = Times(Tail(todo), c)
        /\ Times(todo, c) = Times(one \o Tail(todo), c) /\ netQueue' = netQueue
        /\ netFailed' = netFailed /\ settled' = settled
    BY <1>3, <1>4 DEF Written
  <2> HIDE DEF one
  <2> QED BY <2>1, <2>2, <2>3, <2>4, <2>5 DEF InFlight
<1> QED BY <1>1, <1>3, <1>5 DEF Written

(* A row passes from the batch to the transaction, or the batch fails. *)
LEMMA RowStep ==
    ASSUME NetworkInv, todo # <<>>, netWriter \in {"idle", "resolving"}, Row,
           cache' \subseteq Conns, Cardinality(cache') <= MaxCache, stuck' \in Nat
    PROVE  NetworkInv'
<1>1. CASE Written
  <2> USE <1>1 DEF NetworkInv, netPollVars, failedVars, netOwnerVars
  <2>1. done' \in Seq(Conns) /\ todo' \in Seq(Conns) /\ Accounted'
    BY RowMoves
  <2>2. NetworkTypeOK'
    BY <2>1 DEF Written, NetworkTypeOK
  <2>3. InStore'
    BY DEF Written, InStore
  <2>4. StopOrder'
    BY DEF Written, StopOrder
  <2> QED BY <2>1, <2>2, <2>3, <2>4
<1>2. CASE RollBack
  BY <1>2, RollBackStep
<1> QED BY <1>1, <1>2 DEF Row, Written

(* The cache never outgrows its limit. *)
LEMMA RememberBounded ==
    ASSUME NetworkTypeOK, todo # <<>>, Remember
    PROVE  cache' \subseteq Conns /\ Cardinality(cache') <= MaxCache
<1>1. Head(todo) \in Conns
  BY HeadTailProperties DEF NetworkTypeOK
<1>2. IsFiniteSet(cache) /\ Cardinality(cache) \in Nat
  BY FS_Subset, FS_CardinalityType DEF NetworkTypeOK
<1>3. CASE Cardinality(cache) >= MaxCache
  <2>1. cache' = {Head(todo)}
    BY <1>3 DEF Remember
  <2>2. Cardinality(cache') = 1
    BY <2>1, FS_Singleton
  <2> QED BY <1>1, <2>1, <2>2
<1>4. CASE ~(Cardinality(cache) >= MaxCache)
  <2>1. cache' = cache \cup {Head(todo)}
    BY <1>4 DEF Remember
  <2>2. Cardinality(cache \cup {Head(todo)}) \in {Cardinality(cache), Cardinality(cache) + 1}
    BY <1>2, FS_AddElement
  <2> QED BY <1>1, <1>2, <1>4, <2>1, <2>2 DEF NetworkTypeOK
<1> QED BY <1>3, <1>4

(* A batch is rolled back only when the joins were late. *)
LEMMA SubmitStep == ASSUME NetworkInv, Submit PROVE NetworkInv'
<1> USE DEF NetworkInv, netPollVars, failedVars, resolverVars, netOwnerVars
<1>1. NetworkTypeOK'
  <2>1. CASE pool
    BY <2>1 DEF Submit, NetworkTypeOK
  <2>2. CASE ~pool
    <3>1. todo' = <<>> /\ done' = <<>> /\ dropped' = TRUE /\ <<>> \in Seq(Conns)
      BY <2>2 DEF Submit
    <3> QED BY <2>2, <3>1 DEF Submit, NetworkTypeOK
  <2> QED BY <2>1, <2>2
<1>4. InStore'
  BY DEF Submit, InStore
<1>2. Accounted'
  BY DEF Submit, Accounted, InFlight
<1>3. StopOrder'
  BY DEF Submit, StopOrder
<1> QED BY <1>1, <1>2, <1>3, <1>4

\* The commit, when it succeeds.
Settles ==
    /\ done' = <<>>
    /\ settled' = [c \in Conns |-> settled[c] + Times(done, c)]
    /\ UNCHANGED <<open, opens, netPollVars, netQueue, netWriter, todo, dropped, failedVars,
                   netOwnerVars>>

(* The commit settles what the transaction holds, or fails with it. *)
LEMMA CommittedStep == ASSUME NetworkInv, Committed PROVE NetworkInv'
<1>0. netWriter = "idle" /\ (Settles \/ RollBack) /\ UNCHANGED resolverVars
  BY DEF Committed, Settles
<1>1. CASE RollBack
  BY <1>0, <1>1, RollBackStep DEF resolverVars, NetworkInv, NetworkTypeOK
<1>2. CASE Settles
  <2> USE <1>0, <1>2 DEF NetworkInv, netPollVars, failedVars, resolverVars, netOwnerVars
  <2>1. \A c \in Conns : /\ Times(done, c) \in Nat /\ settled[c] \in Nat
                         /\ netFailed[c] \in Nat
    BY TimesType DEF NetworkTypeOK
  <2>2. settled' \in [Conns -> Nat]
    BY <2>1 DEF Settles
  <2>3. NetworkTypeOK' /\ InStore'
    BY <2>2 DEF Settles, NetworkTypeOK, InStore
  <2>4. Accounted'
    <3> SUFFICES ASSUME ~dropped, NEW c \in Conns
                 PROVE  netTold[c] = settled'[c] + netFailed[c] + InFlight(c)'
      BY DEF Settles, Accounted
    <3>1. /\ netTold[c] = settled[c] + netFailed[c] + InFlight(c)
          /\ Times(netQueue, c) \in Nat /\ Times(todo, c) \in Nat
      BY TimesType DEF Accounted, NetworkTypeOK
    <3>2. /\ settled'[c] = settled[c] + Times(done, c) /\ Times(done', c) = 0
          /\ todo' = todo /\ netQueue' = netQueue
      BY TimesNone DEF Settles
    <3> QED BY <2>1, <3>1, <3>2 DEF InFlight
  <2>5. StopOrder'
    BY DEF Settles, StopOrder
  <2> QED BY <2>3, <2>4, <2>5
<1> QED BY <1>0, <1>1, <1>2

(* Every step of the writer keeps the invariant. *)
LEMMA WriterStep == ASSUME NetworkInv, NetWriter PROVE NetworkInv'
<1>1. CASE TakeBatch
  BY <1>1, TakeBatchStep
<1>2. CASE FindCached
  BY <1>2, RowStep DEF FindCached, resolverVars, NetworkInv, NetworkTypeOK
<1>3. CASE Submit
  BY <1>3, SubmitStep
<1>4. CASE Answered
  BY <1>4, RowStep, RememberBounded DEF Answered, NetworkInv, NetworkTypeOK, StopOrder
<1>5. CASE TimedOut
  <2>1. /\ netWriter = "resolving" /\ Row /\ Remember /\ stuck' = stuck + 1
        /\ NetworkTypeOK /\ todo # <<>> /\ stuck \in Nat
    BY <1>5 DEF TimedOut, NetworkInv, NetworkTypeOK, StopOrder
  <2>2. stuck' \in Nat
    BY <2>1
  <2> QED BY <2>1, <2>2, RowStep, RememberBounded
<1>6. CASE Committed
  BY <1>6, CommittedStep
<1>7. CASE LeaveWriter
  <2> USE DEF NetworkInv, netPollVars, failedVars, resolverVars, netOwnerVars
  <2>1. NetworkTypeOK' /\ InStore'
    BY <1>7 DEF LeaveWriter, NetworkTypeOK, InStore
  <2>2. Accounted' /\ StopOrder'
    BY <1>7 DEF LeaveWriter, Accounted, InFlight, StopOrder
  <2> QED BY <2>1, <2>2
<1> QED BY <1>1, <1>2, <1>3, <1>4, <1>5, <1>6, <1>7 DEF NetWriter

(* Every step of stop() keeps the invariant. *)
LEMMA OwnerStep ==
    ASSUME NetworkInv, StopNetwork \/ JoinPolls \/ JoinNetWriter \/ ShutResolver
    PROVE  NetworkInv'
<1> USE DEF NetworkInv, netPollVars, netWriterVars, failedVars, resolverVars, NetJoined,
            StopNetwork, JoinPolls, JoinNetWriter, ShutResolver
<1>1. NetworkTypeOK'
  <2>1. /\ netOwner' \in {"running", "joining", "closing", "shutting", "stopped"}
        /\ pool' \in BOOLEAN /\ netLate' \in BOOLEAN
    BY DEF NetworkTypeOK
  <2> QED BY <2>1 DEF NetworkTypeOK
<1>2. InStore' /\ Accounted'
  BY DEF InStore, Accounted, InFlight
<1>3. StopOrder'
  <2>1. CASE StopNetwork
    BY <2>1 DEF StopOrder
  <2>2. CASE JoinPolls
    BY <2>2 DEF StopOrder
  <2>3. CASE JoinNetWriter
    BY <2>3 DEF StopOrder
  <2>4. CASE ShutResolver
    BY <2>4 DEF StopOrder
  <2> QED BY <2>1, <2>2, <2>3, <2>4
<1> QED BY <1>1, <1>2, <1>3

(* A look-up that ends late touches nothing of it. *)
LEMMA LookUpEndsStep == ASSUME NetworkInv, LookUpEnds PROVE NetworkInv'
<1> USE DEF NetworkInv, netPollVars, netWriterVars, failedVars, netOwnerVars, LookUpEnds
<1>1. stuck' \in Nat
  BY DEF NetworkTypeOK
<1>2. NetworkTypeOK'
  BY <1>1 DEF NetworkTypeOK
<1>3. InStore' /\ Accounted' /\ StopOrder'
  BY DEF InStore, Accounted, InFlight, StopOrder
<1> QED BY <1>2, <1>3

(* NetworkInv holds in every state, for all connections and limits. *)
THEOREM NetworkInvariance == NetworkSpec => []NetworkInv
<1>1. NetworkInv /\ [NetworkNext]_networkVars => NetworkInv'
  <2> SUFFICES ASSUME NetworkInv, [NetworkNext]_networkVars PROVE NetworkInv'
    OBVIOUS
  <2>1. CASE \E c \in Conns : Connect(c) \/ Disconnect(c)
    BY <2>1, WorldStep
  <2>2. CASE SeedConnections \/ PollConnections \/ LeavePolls
    BY <2>2, SeedStep, PollStep, LeavePollsStep
  <2>3. CASE NetWriter
    BY <2>3, WriterStep
  <2>4. CASE StopNetwork \/ JoinPolls \/ JoinNetWriter \/ ShutResolver
    BY <2>4, OwnerStep
  <2>6. CASE LookUpEnds
    BY <2>6, LookUpEndsStep
  <2>5. CASE UNCHANGED networkVars
    <3> USE <2>5 DEF NetworkInv, networkVars, netPollVars, netWriterVars, failedVars, resolverVars, netOwnerVars
    <3>1. NetworkTypeOK'
      BY DEF NetworkTypeOK
    <3>2. InStore' /\ Accounted' /\ StopOrder'
      BY DEF InStore, Accounted, InFlight, StopOrder
    <3> QED BY <3>1, <3>2
  <2> QED BY <2>1, <2>2, <2>3, <2>4, <2>5, <2>6 DEF NetworkNext
<1> QED BY <1>1, NetworkInitially, PTL DEF NetworkSpec

(***************************************************************************)
(* Reports do not multiply: one for each opening, and at most one more for *)
(* each snapshot that was denied.                                          *)
(***************************************************************************)
THEOREM OneReportPerOpening == NetworkSpec => []ToldPerOpening
<1>1. NetworkInv => ToldPerOpening
  <2> SUFFICES ASSUME NetworkInv, NEW c \in Conns PROVE netTold[c] <= opens[c] + failures
    BY DEF ToldPerOpening
  <2>1. netTold[c] \in Nat /\ opens[c] \in Nat /\ failures \in Nat
    BY DEF NetworkInv, NetworkTypeOK
  <2>2. netTold[c] + (IF c \in open \ netKnown THEN 1 ELSE 0) <= opens[c] + failures
    BY DEF NetworkInv, InStore
  <2> QED BY <2>1, <2>2
<1> QED BY <1>1, NetworkInvariance, PTL

(***************************************************************************)
(* A stop() whose joins end in time leaves nothing behind: what was told   *)
(* is committed, or was in a transaction that the database itself refused. *)
(***************************************************************************)
THEOREM NothingLostOnStop == NetworkSpec => []CleanStopKeepsAll
<1>1. NetworkInv => CleanStopKeepsAll
  <2>1. ASSUME NetworkInv, ~netLate PROVE ~dropped
    BY <2>1 DEF NetworkInv, StopOrder
  <2>2. ASSUME NetworkInv, ~netLate, netOwner = "stopped", NEW c \in Conns
        PROVE  netTold[c] = settled[c] + netFailed[c]
    <3>1. ~dropped /\ netQueue = <<>> /\ todo = <<>> /\ done = <<>>
      BY <2>2 DEF NetworkInv, StopOrder
    <3>2. /\ netTold[c] = settled[c] + netFailed[c] + InFlight(c)
          /\ settled[c] \in Nat /\ netFailed[c] \in Nat
      BY <2>2, <3>1 DEF NetworkInv, NetworkTypeOK, Accounted
    <3>3. InFlight(c) = 0
      BY <3>1, TimesNone DEF InFlight
    <3> QED BY <3>2, <3>3
  <2> QED BY <2>1, <2>2 DEF CleanStopKeepsAll
<1> QED BY <1>1, NetworkInvariance, PTL
-----------------------------------------------------------------------------
(***************************************************************************)
(* The process monitor: what it tells of a pid is the lives that bore it.  *)
(***************************************************************************)

Report == [status : {"running", "terminated"}, life : Life]

ReportRow == [status : {"running", "terminated"}, life : Life, integrity : 0..MaxLives]

\* Of a pid, nothing of a later life than the one that was seen is told.
LivesAscend(p) ==
    /\ known[p].life <= lives[p] /\ current[p].life <= lives[p] /\ listed[p] <= lives[p]
    /\ \A i \in 1..Len(told[p]) : told[p][i].life <= lives[p]
    /\ current[p] # Unseen =>
           /\ known[p].life <= current[p].life
           /\ \A i \in 1..Len(told[p]) : told[p][i].life <= current[p].life
    /\ known[p] # Unseen => \A i \in 1..Len(told[p]) : told[p][i].life <= known[p].life
    /\ \A i, j \in 1..Len(told[p]) : i < j => told[p][i].life <= told[p][j].life
    /\ \A i \in 1..Len(rows[p]) : rows[p][i].integrity \in {0} \cup rows[p][i].life..MaxLives

\* Where the poll thread is, for one pid.
WalkReaches(p) ==
    /\ walk \in {"new", "seeding"} => known[p] = Unseen /\ told[p] = <<>> /\ seeded[p] = 0
    /\ walk \in {"new", "waiting"} => p \notin unread /\ current[p] = known[p]
    /\ (known[p] # Unseen) <=> ToldAsRunning(p)
    /\ p \notin unread /\ listed[p] # 0 /\ alive[p] = listed[p] => current[p].life = alive[p]

Untold(p, l) == TimesTold(p, "running", l) = 0 /\ TimesTold(p, "terminated", l) = 0

\* A life that is not known and may still be seen has not been told; one that
\* a walk did not find has ended.
SeenInTime(p) ==
    /\ known[p].stamp = known[p].life /\ current[p].stamp = current[p].life
    /\ alive[p] # 0 /\ alive[p] # known[p].life => Untold(p, alive[p])
    /\ current[p].life # 0 /\ current[p].life # known[p].life => Untold(p, current[p].life)
    /\ p \notin unread /\ known[p].life # 0 /\ known[p].life # current[p].life
           => alive[p] # known[p].life
    /\ known[p].life # 0 => TimesTold(p, "terminated", known[p].life) = 0

ToldOnce(p, l) ==
    /\ TimesTold(p, "running", l) <= 1 /\ TimesTold(p, "terminated", l) <= 1
    /\ \/ l = seeded[p]
       \/ TimesTold(p, "running", l) = 1
       \/ TimesTold(p, "terminated", l) = 0 /\ known[p].life # l

PidInv(p) ==
    /\ LivesAscend(p) /\ WalkReaches(p)
    /\ misreads = 0 => SeenInTime(p) /\ \A l \in Life : ToldOnce(p, l)

\* The inductive invariant.
LivesInv == ProcessTypeOK /\ \A p \in Pids : PidInv(p)

(* What a snapshot holds of a pid. *)
LEMMA SeenParts ==
    ASSUME NEW x \in Seen
    PROVE  /\ x.life \in 0..MaxLives /\ x.stamp \in 0..MaxLives
           /\ x = Unseen <=> x.life = 0
           /\ x # Unseen => x.life \in Life
<1>1. MaxLives \in Nat \ {0}
  BY ProcessMonitorAssumption
<1>2. CASE x = Unseen
  BY <1>1, <1>2 DEF Unseen, Life
<1>3. CASE x # Unseen
  <2>1. PICK l \in Life, s \in 0..MaxLives : x = [life |-> l, stamp |-> s]
    BY <1>3 DEF Seen
  <2> QED BY <1>1, <2>1 DEF Unseen, Life
<1> QED BY <1>2, <1>3

(* What the variables hold of a pid. *)
LEMMA PidTypes ==
    ASSUME ProcessTypeOK, NEW p \in Pids
    PROVE  /\ MaxLives \in Nat \ {0} /\ MaxMisreads \in Nat /\ misreads \in Nat
           /\ alive[p] \in 0..MaxLives /\ lives[p] \in 0..MaxLives /\ listed[p] \in 0..MaxLives
           /\ seeded[p] \in 0..MaxLives /\ alive[p] \in {0, lives[p]}
           /\ known[p] \in Seen /\ current[p] \in Seen
           /\ told[p] \in Seq(Report) /\ rows[p] \in Seq(ReportRow)
           /\ Len(told[p]) \in Nat /\ Len(rows[p]) \in Nat
           /\ \A i \in 1..Len(told[p]) : told[p][i].life \in Life
<1>1. told[p] \in Seq(Report) /\ rows[p] \in Seq(ReportRow)
  BY DEF ProcessTypeOK, Report, ReportRow
<1>2. \A i \in 1..Len(told[p]) : told[p][i] \in Report
  BY <1>1, ElementOfSeq
<1>3. \A i \in 1..Len(told[p]) : told[p][i].life \in Life
  BY <1>2 DEF Report
<1>4. alive \in [Pids -> 0..MaxLives] /\ lives \in [Pids -> 0..MaxLives]
      /\ listed \in [Pids -> 0..MaxLives] /\ seeded \in [Pids -> 0..MaxLives]
      /\ known \in [Pids -> Seen] /\ current \in [Pids -> Seen]
  BY DEF ProcessTypeOK
<1>5. Len(told[p]) \in Nat /\ Len(rows[p]) \in Nat
  BY <1>1, LenProperties
<1> QED BY <1>1, <1>3, <1>4, <1>5, ProcessMonitorAssumption DEF ProcessTypeOK

(* One report more. *)
LEMMA OneMoreReport ==
    ASSUME NEW S, NEW s \in Seq(S), NEW r \in S
    PROVE  /\ s \o <<r>> \in Seq(S) /\ Len(s \o <<r>>) = Len(s) + 1
           /\ (s \o <<r>>)[Len(s) + 1] = r
           /\ \A i \in 1..Len(s) : (s \o <<r>>)[i] = s[i]
           /\ \A c : Times(s \o <<r>>, c) = Times(s, c) + (IF c = r THEN 1 ELSE 0)
<1>1. <<r>> \in Seq(S) /\ Len(<<r>>) = 1 /\ <<r>>[1] = r
  OBVIOUS
<1>2. ASSUME NEW c PROVE Times(<<r>>, c) = IF c = r THEN 1 ELSE 0
  <2>1. 1..Len(<<r>>) = {1}
    BY <1>1
  <2>2. {i \in 1..Len(<<r>>) : <<r>>[i] = c} = IF c = r THEN {1} ELSE {}
    BY <1>1, <2>1
  <2> QED BY <2>2, FS_EmptySet, FS_Singleton DEF Times
<1>3. \A c : Times(s \o <<r>>, c) = Times(s, c) + Times(<<r>>, c)
  BY <1>1, TimesConcat
<1>4. \A c : Times(s \o <<r>>, c) = Times(s, c) + (IF c = r THEN 1 ELSE 0)
  BY <1>2, <1>3
<1> QED BY <1>1, <1>4

(* A life that no report is about has not been told. *)
LEMMA NoReportOf ==
    ASSUME NEW p, NEW l, \A i \in 1..Len(told[p]) : told[p][i].life # l
    PROVE  Untold(p, l)
<1>1. ASSUME NEW s PROVE TimesTold(p, s, l) = 0
  <2>1. {i \in 1..Len(told[p]) : told[p][i] = [status |-> s, life |-> l]} = {}
    OBVIOUS
  <2> QED BY <2>1, FS_EmptySet DEF TimesTold
<1> QED BY <1>1 DEF Untold

(* What is told of a pid alone decides what is told of it. *)
LEMMA TimesToldKeeps ==
    ASSUME NEW p, told'[p] = told[p]
    PROVE  /\ \A s, l : TimesTold(p, s, l)' = TimesTold(p, s, l)
           /\ \A l : Untold(p, l)' = Untold(p, l)
           /\ seeded'[p] = seeded[p] => ToldAsRunning(p)' = ToldAsRunning(p)
           /\ seeded'[p] = seeded[p] /\ known'[p] = known[p]
                  => \A l : ToldOnce(p, l)' = ToldOnce(p, l)
<1>1. \A s, l : TimesTold(p, s, l)' = TimesTold(p, s, l)
  BY DEF TimesTold
<1>2. \A l : Untold(p, l)' = Untold(p, l)
  BY <1>1 DEF Untold
<1>3. seeded'[p] = seeded[p] => ToldAsRunning(p)' = ToldAsRunning(p)
  BY DEF ToldAsRunning
<1>4. seeded'[p] = seeded[p] /\ known'[p] = known[p] => \A l : ToldOnce(p, l)' = ToldOnce(p, l)
  BY <1>1 DEF ToldOnce
<1> QED BY <1>1, <1>2, <1>3, <1>4

(* Nothing happens to a pid. *)
LEMMA PidKeeps ==
    ASSUME NEW p, PidInv(p), walk' = walk, misreads = misreads', p \in unread' <=> p \in unread,
           alive'[p] = alive[p], lives'[p] = lives[p], listed'[p] = listed[p],
           current'[p] = current[p], known'[p] = known[p], seeded'[p] = seeded[p],
           told'[p] = told[p], rows'[p] = rows[p]
    PROVE  PidInv(p)'
<1>1. LivesAscend(p)'
  BY DEF PidInv, LivesAscend
<1>2. WalkReaches(p)'
  BY TimesToldKeeps DEF PidInv, WalkReaches
<1>3. SeenInTime(p)' = SeenInTime(p)
  BY TimesToldKeeps DEF SeenInTime
<1> QED BY <1>1, <1>2, <1>3, TimesToldKeeps DEF PidInv

(* At first nothing is known and nothing has been told. *)
LEMMA LivesInitially == ProcessInit => LivesInv
<1> SUFFICES ASSUME ProcessInit PROVE LivesInv
  OBVIOUS
<1>1. MaxLives \in Nat \ {0} /\ MaxMisreads \in Nat
  BY ProcessMonitorAssumption
<1>2. ProcessTypeOK
  <2>1. lives \in [Pids -> 0..MaxLives] /\ alive = lives
    BY <1>1 DEF ProcessInit
  <2>2. {alive, lives, listed, seeded} \subseteq [Pids -> 0..MaxLives]
    BY <1>1, <2>1 DEF ProcessInit
  <2>3. {current, known} \subseteq [Pids -> Seen]
    BY DEF ProcessInit, Seen
  <2>4. told \in [Pids -> Seq([status : {"running", "terminated"}, life : Life])]
    BY DEF ProcessInit
  <2>5. rows \in [Pids -> Seq([status : {"running", "terminated"}, life : Life,
                               integrity : 0..MaxLives])]
    BY DEF ProcessInit
  <2>6. walk = "new" /\ unread = {} /\ misreads = 0
    BY DEF ProcessInit
  <2>7. \A p \in Pids : alive[p] \in {0, lives[p]}
    BY <2>1
  <2>8. misreads \in 0..MaxMisreads /\ unread \subseteq Pids
    BY <1>1, <2>6
  <2>9. walk \in {"new", "seeding", "waiting", "polling"}
    BY <2>6
  <2> QED BY <2>2, <2>3, <2>4, <2>5, <2>7, <2>8, <2>9 DEF ProcessTypeOK
<1>3. ASSUME NEW p \in Pids PROVE PidInv(p)
  <2>1. /\ known[p] = Unseen /\ current[p] = Unseen /\ told[p] = <<>> /\ rows[p] = <<>>
        /\ listed[p] = 0 /\ seeded[p] = 0 /\ walk = "new" /\ unread = {} /\ misreads = 0
        /\ lives[p] \in Nat
    BY DEF ProcessInit
  <2>2. Unseen.life = 0 /\ Unseen.stamp = 0 /\ Len(<<>>) = 0
    BY DEF Unseen
  <2>3. \A l : Untold(p, l)
    BY <2>1, <2>2, NoReportOf
  <2>4. LivesAscend(p)
    BY <2>1, <2>2 DEF LivesAscend
  <2>5. WalkReaches(p)
    BY <2>1 DEF WalkReaches, ToldAsRunning
  <2>6. SeenInTime(p)
    BY <2>1, <2>2, <2>3 DEF SeenInTime, Untold
  <2>7. \A l \in Life : ToldOnce(p, l)
    BY <1>1, <2>1, <2>2, <2>3 DEF ToldOnce, Untold, Life
  <2> QED BY <2>4, <2>5, <2>6, <2>7 DEF PidInv
<1> QED BY <1>2, <1>3 DEF LivesInv

(* A process begins or ends. *)
LEMMA ProcessesComeAndGo ==
    ASSUME LivesInv, NEW q \in Pids, Spawn(q) \/ Exit(q) PROVE LivesInv'
<1>1. /\ UNCHANGED <<walkVars, rows>>
      /\ \/ /\ alive[q] = 0 /\ lives[q] < MaxLives
            /\ lives' = [lives EXCEPT ![q] = lives[q] + 1]
            /\ alive' = [alive EXCEPT ![q] = lives[q] + 1]
         \/ /\ alive[q] # 0 /\ lives' = lives /\ alive' = [alive EXCEPT ![q] = 0]
  BY DEF Spawn, Exit
<1>2. /\ walk' = walk /\ listed' = listed /\ unread' = unread /\ current' = current
      /\ known' = known /\ seeded' = seeded /\ told' = told /\ misreads' = misreads /\ rows' = rows
  BY <1>1 DEF walkVars
<1>3. ProcessTypeOK /\ lives \in [Pids -> 0..MaxLives] /\ alive \in [Pids -> 0..MaxLives]
      /\ MaxLives \in Nat \ {0}
  BY ProcessMonitorAssumption DEF LivesInv, ProcessTypeOK
<1>4. ProcessTypeOK'
  <2>1. lives' \in [Pids -> 0..MaxLives] /\ alive' \in [Pids -> 0..MaxLives]
    BY <1>1, <1>3
  <2>2. \A p \in Pids : alive'[p] \in {0, lives'[p]}
    BY <1>1, <1>3 DEF ProcessTypeOK
  <2>3. {alive, lives, listed, seeded}' \subseteq [Pids -> 0..MaxLives]
    BY <1>2, <1>3, <2>1 DEF ProcessTypeOK
  <2> QED BY <1>2, <1>3, <2>2, <2>3 DEF ProcessTypeOK
<1>5. ASSUME NEW p \in Pids \ {q} PROVE PidInv(p)'
  <2>1. alive'[p] = alive[p] /\ lives'[p] = lives[p]
    BY <1>1, <1>3
  <2> QED BY <1>2, <2>1, PidKeeps DEF LivesInv
<1>6. PidInv(q)'
  <2>1. PidInv(q)
    BY DEF LivesInv
  <2>2. \/ alive'[q] = lives[q] + 1 /\ lives'[q] = lives[q] + 1
        \/ alive'[q] = 0 /\ lives'[q] = lives[q]
    BY <1>1, <1>3
  <2>3. /\ lives[q] \in Nat /\ Len(told[q]) \in Nat /\ listed[q] \in Nat
        /\ known[q].life \in Nat /\ current[q].life \in Nat
        /\ \A i \in 1..Len(told[q]) : told[q][i].life \in Nat
    BY <1>3, PidTypes, SeenParts DEF Life
  <2>4. LivesAscend(q)'
    <3>1. LivesAscend(q) /\ lives[q] <= lives'[q] /\ lives'[q] \in Nat
      BY <2>1, <2>2, <2>3 DEF PidInv
    <3>2. /\ known[q].life <= lives'[q] /\ current[q].life <= lives'[q] /\ listed[q] <= lives'[q]
          /\ \A i \in 1..Len(told[q]) : told[q][i].life <= lives'[q]
      BY <2>3, <3>1 DEF LivesAscend
    <3> QED BY <1>2, <3>1, <3>2 DEF LivesAscend
  <2>5. WalkReaches(q)'
    BY <1>2, <2>1, <2>2, <2>3, TimesToldKeeps DEF PidInv, WalkReaches, LivesAscend
  <2>6. Untold(q, lives[q] + 1)
    <3>1. \A i \in 1..Len(told[q]) : told[q][i].life # lives[q] + 1
      BY <2>1, <2>3 DEF PidInv, LivesAscend
    <3> QED BY <3>1, NoReportOf
  <2>7. SeenInTime(q) => SeenInTime(q)'
    <3>1. known[q].life # lives[q] + 1
      BY <2>1, <2>3 DEF PidInv, LivesAscend
    <3> QED BY <1>2, <2>2, <2>6, <3>1, TimesToldKeeps DEF SeenInTime
  <2> QED BY <1>2, <2>1, <2>4, <2>5, <2>7, TimesToldKeeps DEF PidInv
<1> QED BY <1>4, <1>5, <1>6 DEF LivesInv

(* A walk begins. *)
LEMMA BeginWalkStep == ASSUME LivesInv, BeginWalk PROVE LivesInv'
<1>1. /\ alive' = alive /\ lives' = lives /\ known' = known /\ seeded' = seeded /\ told' = told
      /\ misreads' = misreads /\ rows' = rows /\ listed' = alive
      /\ unread' = {p \in Pids : alive[p] # 0} /\ current' = [p \in Pids |-> Unseen]
      /\ \/ walk = "new" /\ walk' = "seeding"
         \/ walk = "waiting" /\ walk' = "polling"
  BY DEF BeginWalk, worldVars
<1>2. ProcessTypeOK
  BY DEF LivesInv
<1>3. ProcessTypeOK'
  <2>1. current' \in [Pids -> Seen] /\ unread' \subseteq Pids
    BY <1>1 DEF Seen
  <2> QED BY <1>1, <1>2, <2>1 DEF ProcessTypeOK
<1>4. ASSUME NEW p \in Pids PROVE PidInv(p)'
  <2>1. PidInv(p)
    BY DEF LivesInv
  <2>2. current'[p] = Unseen /\ Unseen.life = 0 /\ Unseen.stamp = 0 /\ listed'[p] = alive[p]
        /\ (p \in unread' <=> alive[p] # 0)
    BY <1>1 DEF Unseen
  <2>3. lives[p] \in Nat /\ alive[p] <= lives[p]
    BY <1>2, PidTypes
  <2>4. LivesAscend(p)'
    BY <1>1, <2>1, <2>2, <2>3 DEF PidInv, LivesAscend
  <2>5. WalkReaches(p)'
    BY <1>1, <2>1, <2>2, TimesToldKeeps DEF PidInv, WalkReaches
  <2>6. SeenInTime(p) => SeenInTime(p)'
    BY <1>1, <2>2, TimesToldKeeps DEF SeenInTime
  <2> QED BY <1>1, <2>1, <2>4, <2>5, <2>6, TimesToldKeeps DEF PidInv
<1> QED BY <1>3, <1>4 DEF LivesInv

(* A pid of the walk is read: it holds what bears the pid now. *)
LEMMA ReadProcessStep == ASSUME LivesInv, NEW q \in Pids, ReadProcess(q) PROVE LivesInv'
<1>1. PICK s \in {0, alive[q]} :
          /\ current' = [current EXCEPT ![q] = [life |-> alive[q], stamp |-> s]]
          /\ s = alive[q] \/ alive[q] # 0
          /\ \/ s = alive[q] /\ misreads' = misreads
             \/ misreads' = misreads + 1 /\ misreads < MaxMisreads
  BY DEF ReadProcess
<1>2. /\ alive' = alive /\ lives' = lives /\ walk' = walk /\ listed' = listed /\ known' = known
      /\ seeded' = seeded /\ told' = told /\ rows' = rows
      /\ unread' = unread \ {q} /\ q \in unread
  BY DEF ReadProcess, worldVars
<1>3. ProcessTypeOK /\ MaxLives \in Nat \ {0}
  BY ProcessMonitorAssumption DEF LivesInv
<1>4. alive[q] \in 0..MaxLives /\ lives[q] \in Nat /\ alive[q] <= lives[q] /\ misreads \in Nat
      /\ MaxMisreads \in Nat /\ (alive[q] # 0 => alive[q] = lives[q])
  BY <1>3, PidTypes
<1> DEFINE new == [life |-> alive[q], stamp |-> s]
<1>5. /\ new \in Seen /\ new.life = alive[q] /\ new.stamp = s
      /\ (new = Unseen <=> alive[q] = 0)
  <2>1. CASE alive[q] = 0
    BY <1>1, <2>1 DEF Seen, Unseen
  <2>2. CASE alive[q] # 0
    BY <1>3, <1>4, <2>2 DEF Seen, Life, Unseen
  <2> QED BY <2>1, <2>2
<1>6. current'[q] = new /\ \A p \in Pids \ {q} : current'[p] = current[p]
  BY <1>1, <1>3 DEF ProcessTypeOK
<1>7. ProcessTypeOK'
  <2>1. current' \in [Pids -> Seen]
    BY <1>1, <1>3, <1>5 DEF ProcessTypeOK
  <2>2. misreads' \in 0..MaxMisreads
    BY <1>1, <1>3, <1>4 DEF ProcessTypeOK
  <2> QED BY <1>2, <1>3, <2>1, <2>2 DEF ProcessTypeOK
<1>8. misreads' = 0 => misreads = 0 /\ s = alive[q]
  BY <1>1, <1>4
<1> HIDE DEF new
<1>9. ASSUME NEW p \in Pids \ {q} PROVE PidInv(p)'
  <2>1. PidInv(p)
    BY DEF LivesInv
  <2>2. LivesAscend(p)'
    BY <1>2, <1>6, <2>1 DEF PidInv, LivesAscend
  <2>3. WalkReaches(p)'
    BY <1>2, <1>6, <2>1, TimesToldKeeps DEF PidInv, WalkReaches
  <2>4. SeenInTime(p) => SeenInTime(p)'
    BY <1>2, <1>6, TimesToldKeeps DEF SeenInTime
  <2> QED BY <1>2, <1>8, <2>1, <2>2, <2>3, <2>4, TimesToldKeeps DEF PidInv
<1>10. PidInv(q)'
  <2>1. PidInv(q)
    BY DEF LivesInv
  <2>2. LivesAscend(q)'
    BY <1>2, <1>4, <1>5, <1>6, <2>1 DEF PidInv, LivesAscend
  <2>3. WalkReaches(q)'
    BY <1>2, <1>5, <1>6, <2>1, TimesToldKeeps DEF PidInv, WalkReaches
  <2>4. SeenInTime(q) /\ s = alive[q] => SeenInTime(q)'
    BY <1>2, <1>5, <1>6, TimesToldKeeps DEF SeenInTime
  <2> QED BY <1>2, <1>8, <2>1, <2>2, <2>3, <2>4, TimesToldKeeps DEF PidInv
<1> QED BY <1>7, <1>9, <1>10 DEF LivesInv

(* The seed: what is seen first is known and not told. *)
LEMMA SeedProcessesStep == ASSUME LivesInv, Seed PROVE LivesInv'
<1>1. /\ alive' = alive /\ lives' = lives /\ listed' = listed /\ unread' = unread
      /\ current' = current /\ told' = told /\ misreads' = misreads /\ rows' = rows
      /\ walk = "seeding" /\ unread = {} /\ walk' = "waiting" /\ known' = current
      /\ seeded' = [p \in Pids |-> current[p].life]
  BY DEF Seed, worldVars
<1>2. ProcessTypeOK
  BY DEF LivesInv
<1>3. ProcessTypeOK'
  <2>1. \A p \in Pids : current[p].life \in 0..MaxLives
    BY <1>2, PidTypes, SeenParts
  <2>2. seeded' \in [Pids -> 0..MaxLives]
    BY <1>1, <2>1
  <2> QED BY <1>1, <1>2, <2>2 DEF ProcessTypeOK
<1>4. ASSUME NEW p \in Pids PROVE PidInv(p)'
  <2>1. PidInv(p) /\ told[p] = <<>> /\ known'[p] = current[p] /\ seeded'[p] = current[p].life
        /\ Len(<<>>) = 0
    BY <1>1 DEF LivesInv, PidInv, WalkReaches
  <2>2. /\ current[p] = Unseen <=> current[p].life = 0
        /\ current[p].life \in Nat
    BY <1>2, PidTypes, SeenParts
  <2>3. LivesAscend(p)'
    BY <1>1, <2>1, <2>2 DEF PidInv, LivesAscend
  <2>4. WalkReaches(p)'
    BY <1>1, <2>1, <2>2 DEF PidInv, WalkReaches, ToldAsRunning
  <2>5. \A l : Untold(p, l)'
    <3>1. \A l : Untold(p, l)
      BY <2>1, NoReportOf
    <3> QED BY <1>1, <3>1, TimesToldKeeps
  <2>6. SeenInTime(p) => SeenInTime(p)'
    BY <1>1, <2>1, <2>5 DEF SeenInTime, Untold
  <2>7. \A l \in Life : ToldOnce(p, l)'
    <3> SUFFICES ASSUME NEW l \in Life PROVE ToldOnce(p, l)'
      OBVIOUS
    <3>1. TimesTold(p, "running", l)' = 0 /\ TimesTold(p, "terminated", l)' = 0
      BY <2>5 DEF Untold
    <3>2. l = seeded'[p] \/ known'[p].life # l
      BY <2>1
    <3> QED BY <3>1, <3>2 DEF ToldOnce
  <2> QED BY <1>1, <2>1, <2>3, <2>4, <2>6, <2>7 DEF PidInv
<1> QED BY <1>3, <1>4 DEF LivesInv

(* What a comparison tells of one pid. *)
LEMMA NewsParts ==
    ASSUME LivesInv, NEW p \in Pids
    PROVE  \/ /\ News(known[p], current[p]) = <<[status |-> "running", life |-> current[p].life]>>
              /\ current[p] # Unseen
              /\ known[p] = Unseen \/ known[p].stamp # current[p].stamp
           \/ /\ News(known[p], current[p]) = <<[status |-> "terminated", life |-> known[p].life]>>
              /\ current[p] = Unseen /\ known[p] # Unseen
           \/ /\ News(known[p], current[p]) = <<>>
              /\ (current[p] = Unseen <=> known[p] = Unseen)
              /\ known[p].stamp = current[p].stamp
BY DEF News

(* A comparison, for one pid. *)
LEMMA CompareOne == ASSUME LivesInv, Compare, NEW p \in Pids PROVE PidInv(p)'
<1>1. /\ alive' = alive /\ lives' = lives /\ listed' = listed /\ unread' = unread
      /\ current' = current /\ misreads' = misreads /\ rows' = rows /\ seeded' = seeded
      /\ walk = "polling" /\ unread = {} /\ walk' = "waiting" /\ known' = current
      /\ told'[p] = told[p] \o News(known[p], current[p])
  BY DEF Compare, worldVars
<1>2. ProcessTypeOK /\ PidInv(p) /\ p \notin unread
  BY <1>1 DEF LivesInv
<1>3. /\ MaxLives \in Nat \ {0} /\ misreads \in Nat /\ alive[p] \in Nat /\ lives[p] \in Nat
      /\ known[p] \in Seen /\ current[p] \in Seen /\ told[p] \in Seq(Report)
      /\ Len(told[p]) \in Nat /\ \A i \in 1..Len(told[p]) : told[p][i].life \in Life
  BY <1>2, PidTypes
<1>4. /\ known[p] = Unseen <=> known[p].life = 0
      /\ current[p] = Unseen <=> current[p].life = 0
      /\ known[p].life \in Nat /\ current[p].life \in Nat
      /\ known[p] # Unseen => known[p].life \in Life
      /\ current[p] # Unseen => current[p].life \in Life
  BY <1>3, SeenParts
<1>5. \A s, l : TimesTold(p, s, l) = Times(told[p], [status |-> s, life |-> l])
               /\ TimesTold(p, s, l)' = Times(told'[p], [status |-> s, life |-> l])
  BY DEF TimesTold, Times
<1>6. \A s, l : TimesTold(p, s, l) \in Nat
  BY <1>3, <1>5, TimesType
<1>7. known'[p] = current[p]
  BY <1>1
<1>8. ASSUME NEW st \in {"running", "terminated"}, NEW k \in Life,
             told'[p] = told[p] \o <<[status |-> st, life |-> k]>>
      PROVE  /\ Len(told'[p]) = Len(told[p]) + 1
             /\ told'[p][Len(told[p]) + 1] = [status |-> st, life |-> k]
             /\ \A i \in 1..Len(told[p]) : told'[p][i] = told[p][i]
             /\ \A s, l : TimesTold(p, s, l)' = TimesTold(p, s, l) + (IF s = st /\ l = k THEN 1 ELSE 0)
             /\ ToldAsRunning(p)' <=> st = "running"
  <2>1. [status |-> st, life |-> k] \in Report
    BY DEF Report
  <2>2. /\ Len(told'[p]) = Len(told[p]) + 1
        /\ told'[p][Len(told[p]) + 1] = [status |-> st, life |-> k]
        /\ \A i \in 1..Len(told[p]) : told'[p][i] = told[p][i]
        /\ \A c : Times(told'[p], c)
                      = Times(told[p], c) + (IF c = [status |-> st, life |-> k] THEN 1 ELSE 0)
    BY <1>3, <1>8, <2>1, OneMoreReport
  <2>3. \A s, l : [status |-> s, life |-> l] = [status |-> st, life |-> k] <=> s = st /\ l = k
    <3> SUFFICES ASSUME NEW s, NEW l, [status |-> s, life |-> l] = [status |-> st, life |-> k]
                 PROVE  s = st /\ l = k
      OBVIOUS
    <3>1. [status |-> s, life |-> l].status = s /\ [status |-> s, life |-> l].life = l
      OBVIOUS
    <3>2. [status |-> st, life |-> k].status = st /\ [status |-> st, life |-> k].life = k
      OBVIOUS
    <3> QED BY <3>1, <3>2
  <2>4. \A s, l : TimesTold(p, s, l)' = TimesTold(p, s, l) + (IF s = st /\ l = k THEN 1 ELSE 0)
    <3> SUFFICES ASSUME NEW s, NEW l
                 PROVE  TimesTold(p, s, l)' = TimesTold(p, s, l) + (IF s = st /\ l = k THEN 1 ELSE 0)
      OBVIOUS
    <3> DEFINE c == [status |-> s, life |-> l]
    <3>1. TimesTold(p, s, l)' = Times(told'[p], c) /\ TimesTold(p, s, l) = Times(told[p], c)
      BY <1>5
    <3>2. c = [status |-> st, life |-> k] <=> s = st /\ l = k
      BY <2>3
    <3> HIDE DEF c
    <3> QED BY <2>2, <3>1, <3>2
  <2>5. ToldAsRunning(p)' <=> st = "running"
    <3>1. told'[p] # <<>> /\ told'[p][Len(told'[p])].status = st
      BY <1>3, <2>2
    <3> QED BY <3>1 DEF ToldAsRunning
  <2> QED BY <2>2, <2>4, <2>5
<1>9. CASE told'[p] = told[p] /\ (current[p] = Unseen <=> known[p] = Unseen)
           /\ known[p].stamp = current[p].stamp
  <2>1. LivesAscend(p)'
    BY <1>1, <1>2, <1>3, <1>4, <1>7, <1>9 DEF PidInv, LivesAscend
  <2>2. WalkReaches(p)'
    BY <1>1, <1>2, <1>7, <1>9, TimesToldKeeps DEF PidInv, WalkReaches
  <2>3. SeenInTime(p) => known[p].life = current[p].life
    BY <1>9 DEF SeenInTime
  <2>4. SeenInTime(p) => SeenInTime(p)'
    BY <1>1, <1>7, <1>9, <2>3, TimesToldKeeps DEF SeenInTime
  <2>5. SeenInTime(p) => \A l \in Life : ToldOnce(p, l) => ToldOnce(p, l)'
    BY <1>1, <1>7, <1>9, <2>3, TimesToldKeeps DEF ToldOnce
  <2> QED BY <1>1, <1>2, <2>1, <2>2, <2>4, <2>5 DEF PidInv
<1>10. CASE /\ told'[p] = told[p] \o <<[status |-> "running", life |-> current[p].life]>>
            /\ current[p] # Unseen
            /\ known[p] = Unseen \/ known[p].stamp # current[p].stamp
  <2>1. current[p].life \in Life
    BY <1>4, <1>10
  <2>2. /\ Len(told'[p]) = Len(told[p]) + 1
        /\ told'[p][Len(told[p]) + 1] = [status |-> "running", life |-> current[p].life]
        /\ \A i \in 1..Len(told[p]) : told'[p][i] = told[p][i]
        /\ ToldAsRunning(p)'
        /\ \A l : TimesTold(p, "terminated", l)' = TimesTold(p, "terminated", l)
        /\ \A l : TimesTold(p, "running", l)'
                      = TimesTold(p, "running", l) + (IF l = current[p].life THEN 1 ELSE 0)
    BY <1>6, <1>8, <1>10, <2>1
  <2>3. LivesAscend(p)'
    <3> DEFINE n == Len(told[p]) + 1
    <3>1. \A i \in 1..n - 1 : told'[p][i].life = told[p][i].life /\ told[p][i].life \in Nat
      BY <1>3, <2>2 DEF Life
    <3>2. told'[p][n].life = current[p].life /\ Len(told'[p]) = n /\ n \in Nat /\ n - 1 = Len(told[p])
      BY <1>3, <2>2
    <3>3. \A i \in 1..n - 1 : told[p][i].life <= current[p].life
      BY <1>2, <1>10, <3>2 DEF PidInv, LivesAscend
    <3>4. \A i \in 1..n - 1, j \in 1..n - 1 : i < j => told[p][i].life <= told[p][j].life
      BY <1>2, <3>2 DEF PidInv, LivesAscend
    <3>5. current[p].life <= lives[p]
      BY <1>2 DEF PidInv, LivesAscend
    <3> HIDE DEF n
    <3>6. \A i \in 1..n : i \in 1..n - 1 \/ i = n
      BY <3>2
    <3>7. \A i \in 1..n : told'[p][i].life \in Nat /\ told'[p][i].life <= current[p].life
      BY <1>4, <3>1, <3>2, <3>3, <3>6
    <3>8. \A i, j \in 1..n : i < j => told'[p][i].life <= told'[p][j].life
      <4> SUFFICES ASSUME NEW i \in 1..n, NEW j \in 1..n, i < j
                   PROVE  told'[p][i].life <= told'[p][j].life
        OBVIOUS
      <4>1. CASE j = n
        BY <3>2, <3>7, <4>1
      <4>2. CASE j # n
        <5>1. i \in 1..n - 1 /\ j \in 1..n - 1
          BY <3>2, <4>2
        <5> QED BY <3>1, <3>4, <5>1
      <4> QED BY <4>1, <4>2
    <3>9. \A i \in 1..n : told'[p][i].life <= lives[p]
      BY <1>3, <1>4, <3>5, <3>7
    <3>10. known'[p].life <= lives'[p] /\ current'[p].life <= lives'[p] /\ listed'[p] <= lives'[p]
           /\ known'[p].life <= current'[p].life
      BY <1>1, <1>2, <1>4, <1>7, <3>5 DEF PidInv, LivesAscend
    <3>11. \A i \in 1..Len(rows'[p]) : rows'[p][i].integrity \in {0} \cup rows'[p][i].life..MaxLives
      BY <1>1, <1>2 DEF PidInv, LivesAscend
    <3> QED BY <1>1, <1>7, <3>2, <3>7, <3>8, <3>9, <3>10, <3>11 DEF LivesAscend
  <2>4. WalkReaches(p)'
    BY <1>1, <1>2, <1>7, <1>10, <2>2 DEF PidInv, WalkReaches
  <2>5. ASSUME SeenInTime(p) PROVE known[p].life # current[p].life /\ Untold(p, current[p].life)
    BY <1>4, <1>10, <2>5 DEF SeenInTime, Unseen
  <2>6. SeenInTime(p) => SeenInTime(p)'
    <3> SUFFICES ASSUME SeenInTime(p) PROVE SeenInTime(p)'
      OBVIOUS
    <3>1. alive[p] # 0 /\ alive[p] # current[p].life => Untold(p, alive[p])
      BY <1>2, <2>5 DEF SeenInTime
    <3>2. \A l : Untold(p, l) /\ l # current[p].life => Untold(p, l)'
      BY <1>6, <2>2 DEF Untold
    <3>3. \A l : Untold(p, l) => TimesTold(p, "terminated", l)' = 0
      BY <2>2 DEF Untold
    <3> QED BY <1>1, <1>7, <2>5, <3>1, <3>2, <3>3 DEF SeenInTime
  <2>7. ASSUME SeenInTime(p), NEW l \in Life, ToldOnce(p, l) PROVE ToldOnce(p, l)'
    <3>1. CASE l = current[p].life
      <4>1. TimesTold(p, "running", l)' = 1 /\ TimesTold(p, "terminated", l)' = 0
        BY <2>2, <2>5, <2>7, <3>1 DEF Untold
      <4> QED BY <4>1 DEF ToldOnce
    <3>2. CASE l # current[p].life
      <4>1. TimesTold(p, "running", l)' = TimesTold(p, "running", l)
            /\ TimesTold(p, "terminated", l)' = TimesTold(p, "terminated", l)
        BY <1>6, <2>2, <3>2
      <4> QED BY <1>1, <1>7, <2>7, <3>2, <4>1 DEF ToldOnce
    <3> QED BY <3>1, <3>2
  <2> QED BY <1>1, <1>2, <2>3, <2>4, <2>6, <2>7 DEF PidInv
<1>11. CASE /\ told'[p] = told[p] \o <<[status |-> "terminated", life |-> known[p].life]>>
            /\ current[p] = Unseen /\ known[p] # Unseen
  <2>1. known[p].life \in Life /\ current[p].life = 0
    BY <1>4, <1>11
  <2>2. /\ Len(told'[p]) = Len(told[p]) + 1
        /\ told'[p][Len(told[p]) + 1] = [status |-> "terminated", life |-> known[p].life]
        /\ \A i \in 1..Len(told[p]) : told'[p][i] = told[p][i]
        /\ ~ToldAsRunning(p)'
        /\ \A l : TimesTold(p, "running", l)' = TimesTold(p, "running", l)
        /\ \A l : TimesTold(p, "terminated", l)'
                      = TimesTold(p, "terminated", l) + (IF l = known[p].life THEN 1 ELSE 0)
    BY <1>6, <1>8, <1>11, <2>1
  <2>3. LivesAscend(p)'
    <3> DEFINE n == Len(told[p]) + 1
    <3>1. \A i \in 1..n - 1 : told'[p][i].life = told[p][i].life /\ told[p][i].life \in Nat
      BY <1>3, <2>2 DEF Life
    <3>2. told'[p][n].life = known[p].life /\ Len(told'[p]) = n /\ n \in Nat /\ n - 1 = Len(told[p])
      BY <1>3, <2>2
    <3>3. \A i \in 1..n - 1 : told[p][i].life <= known[p].life
      BY <1>2, <1>11, <3>2 DEF PidInv, LivesAscend
    <3>4. \A i \in 1..n - 1, j \in 1..n - 1 : i < j => told[p][i].life <= told[p][j].life
      BY <1>2, <3>2 DEF PidInv, LivesAscend
    <3>5. known[p].life <= lives[p]
      BY <1>2 DEF PidInv, LivesAscend
    <3> HIDE DEF n
    <3>6. \A i \in 1..n : i \in 1..n - 1 \/ i = n
      BY <3>2
    <3>7. \A i \in 1..n : told'[p][i].life \in Nat /\ told'[p][i].life <= known[p].life
      BY <1>4, <3>1, <3>2, <3>3, <3>6
    <3>8. \A i, j \in 1..n : i < j => told'[p][i].life <= told'[p][j].life
      <4> SUFFICES ASSUME NEW i \in 1..n, NEW j \in 1..n, i < j
                   PROVE  told'[p][i].life <= told'[p][j].life
        OBVIOUS
      <4>1. CASE j = n
        BY <3>2, <3>7, <4>1
      <4>2. CASE j # n
        <5>1. i \in 1..n - 1 /\ j \in 1..n - 1
          BY <3>2, <4>2
        <5> QED BY <3>1, <3>4, <5>1
      <4> QED BY <4>1, <4>2
    <3>9. \A i \in 1..n : told'[p][i].life <= lives[p]
      BY <1>3, <1>4, <3>5, <3>7
    <3>10. known'[p].life <= lives'[p] /\ current'[p].life <= lives'[p] /\ listed'[p] <= lives'[p]
      BY <1>1, <1>2, <1>4, <1>7, <3>5 DEF PidInv, LivesAscend
    <3>11. \A i \in 1..Len(rows'[p]) : rows'[p][i].integrity \in {0} \cup rows'[p][i].life..MaxLives
      BY <1>1, <1>2 DEF PidInv, LivesAscend
    <3>12. known'[p] = Unseen /\ current'[p] = Unseen
      BY <1>1, <1>7, <1>11
    <3> QED BY <1>1, <3>2, <3>8, <3>9, <3>10, <3>11, <3>12 DEF LivesAscend
  <2>4. WalkReaches(p)'
    BY <1>1, <1>2, <1>7, <1>11, <2>2 DEF PidInv, WalkReaches
  <2>5. ASSUME SeenInTime(p) PROVE alive[p] # known[p].life
    BY <1>2, <2>1, <2>5 DEF SeenInTime, Life
  <2>6. SeenInTime(p) => SeenInTime(p)'
    <3> SUFFICES ASSUME SeenInTime(p) PROVE SeenInTime(p)'
      OBVIOUS
    <3>1. \A l : Untold(p, l) /\ l # known[p].life => Untold(p, l)'
      BY <1>6, <2>2 DEF Untold
    <3> QED BY <1>1, <1>7, <2>1, <2>5, <3>1 DEF SeenInTime
  <2>7. ASSUME SeenInTime(p), NEW l \in Life, ToldOnce(p, l) PROVE ToldOnce(p, l)'
    <3>1. CASE l = known[p].life
      <4>1. TimesTold(p, "terminated", l)' = 1 /\ TimesTold(p, "running", l)' = TimesTold(p, "running", l)
        BY <2>1, <2>2, <2>7, <3>1 DEF SeenInTime, Life
      <4> QED BY <1>1, <2>7, <3>1, <4>1 DEF ToldOnce
    <3>2. CASE l # known[p].life
      <4>1. TimesTold(p, "running", l)' = TimesTold(p, "running", l)
            /\ TimesTold(p, "terminated", l)' = TimesTold(p, "terminated", l)
        BY <1>6, <2>2, <3>2
      <4>2. known'[p].life # l
        BY <1>7, <2>1 DEF Life
      <4> QED BY <1>1, <2>7, <3>2, <4>1, <4>2 DEF ToldOnce
    <3> QED BY <3>1, <3>2
  <2> QED BY <1>1, <1>2, <2>3, <2>4, <2>6, <2>7 DEF PidInv
<1>12. told[p] \o <<>> = told[p]
  BY <1>3, ConcatEmptySeq
<1> QED BY <1>1, <1>9, <1>10, <1>11, <1>12, NewsParts

(* A comparison tells only what fits the types. *)
LEMMA CompareStep == ASSUME LivesInv, Compare PROVE LivesInv'
<1>1. /\ alive' = alive /\ lives' = lives /\ listed' = listed /\ unread' = unread
      /\ current' = current /\ misreads' = misreads /\ rows' = rows /\ seeded' = seeded
      /\ walk' = "waiting" /\ known' = current
      /\ told' = [p \in Pids |-> told[p] \o News(known[p], current[p])]
  BY DEF Compare, worldVars
<1>2. ProcessTypeOK
  BY DEF LivesInv
<1>3. ASSUME NEW p \in Pids PROVE told[p] \o News(known[p], current[p]) \in Seq(Report)
  <2>1. told[p] \in Seq(Report) /\ known[p] \in Seen /\ current[p] \in Seen
    BY <1>2, PidTypes
  <2>2. /\ known[p] # Unseen => [status |-> "terminated", life |-> known[p].life] \in Report
        /\ current[p] # Unseen => [status |-> "running", life |-> current[p].life] \in Report
    BY <2>1, SeenParts DEF Report
  <2>3. News(known[p], current[p]) \in Seq(Report)
    <3>1. <<>> \in Seq(Report) /\ \A r \in Report : <<r>> \in Seq(Report)
      OBVIOUS
    <3> QED BY Zenon, <2>2, <3>1, NewsParts
  <2> QED BY <2>1, <2>3
<1>4. told' \in [Pids -> Seq(Report)]
  BY <1>1, <1>3
<1>5. ProcessTypeOK'
  BY <1>1, <1>2, <1>4 DEF ProcessTypeOK, Report
<1> QED BY <1>5, CompareOne DEF LivesInv

(* The writer looks a new process up: under its pid there may be a later one. *)
LEMMA WriteRowStep == ASSUME LivesInv, NEW q \in Pids, WriteRow(q) PROVE LivesInv'
<1> DEFINE news == told[q][Len(rows[q]) + 1]
<1>1. /\ UNCHANGED <<worldVars, walkVars>> /\ Len(rows[q]) < Len(told[q])
      /\ \E i \in IntegrityLevel(q, news.status) :
             rows' = [rows EXCEPT ![q] =
                 Append(@, [status |-> news.status, life |-> news.life, integrity |-> i])]
  BY DEF WriteRow
<1>2. PICK i \in IntegrityLevel(q, news.status) :
          rows' = [rows EXCEPT ![q] =
              Append(@, [status |-> news.status, life |-> news.life, integrity |-> i])]
  BY <1>1
<1>3. /\ ProcessTypeOK /\ PidInv(q) /\ MaxLives \in Nat
      /\ told[q] \in Seq(Report) /\ rows[q] \in Seq(ReportRow)
      /\ Len(told[q]) \in Nat /\ Len(rows[q]) \in Nat
      /\ alive[q] \in 0..MaxLives /\ alive[q] \in {0, lives[q]} /\ lives[q] \in 0..MaxLives
  BY PidTypes DEF LivesInv
<1>4. news \in Report /\ news.life <= lives[q]
  <2>1. Len(rows[q]) + 1 \in 1..Len(told[q])
    BY <1>1, <1>3
  <2>2. news \in Report
    BY <1>3, <2>1, ElementOfSeq
  <2> QED BY <1>3, <2>1, <2>2 DEF PidInv, LivesAscend
<1> HIDE DEF news
<1> DEFINE r == [status |-> news.status, life |-> news.life, integrity |-> i]
<1>5. i \in {0, alive[q]}
  BY DEF IntegrityLevel
<1>6. r \in ReportRow /\ r.integrity \in {0} \cup r.life..MaxLives
  <2>1. i \in 0..MaxLives /\ (i = 0 \/ i = lives[q])
    BY <1>3, <1>5
  <2>2. i \in {0} \cup news.life..MaxLives
    BY <1>3, <1>4, <2>1 DEF Report, Life
  <2> QED BY <1>4, <2>1, <2>2 DEF ReportRow, Report
<1>7. rows'[q] = Append(rows[q], r) /\ \A p \in Pids \ {q} : rows'[p] = rows[p]
  BY <1>2, <1>3 DEF ProcessTypeOK
<1> HIDE DEF r
<1>8. /\ alive' = alive /\ lives' = lives /\ walk' = walk /\ listed' = listed /\ unread' = unread
      /\ current' = current /\ known' = known /\ seeded' = seeded /\ told' = told
      /\ misreads' = misreads
  BY <1>1 DEF worldVars, walkVars
<1>9. ProcessTypeOK'
  <2>1. Append(rows[q], r) \in Seq(ReportRow)
    BY <1>3, <1>6
  <2>2. rows' \in [Pids -> Seq(ReportRow)]
    BY <1>2, <1>3, <1>7, <2>1 DEF ProcessTypeOK, ReportRow
  <2> QED BY <1>3, <1>8, <2>2 DEF ProcessTypeOK, ReportRow
<1>10. ASSUME NEW p \in Pids \ {q} PROVE PidInv(p)'
  BY <1>7, <1>8, PidKeeps DEF LivesInv
<1>11. PidInv(q)'
  <2>1. \A j \in 1..Len(rows'[q]) : rows'[q][j].integrity \in {0} \cup rows'[q][j].life..MaxLives
    <3> SUFFICES ASSUME NEW j \in 1..Len(rows'[q])
                 PROVE  rows'[q][j].integrity \in {0} \cup rows'[q][j].life..MaxLives
      OBVIOUS
    <3>1. \/ j \in 1..Len(rows[q]) /\ rows'[q][j] = rows[q][j]
          \/ rows'[q][j] = r
      BY <1>3, <1>6, <1>7, AppendProperties
    <3> QED BY <1>3, <1>6, <3>1 DEF PidInv, LivesAscend
  <2>2. LivesAscend(q)'
    BY <1>3, <1>8, <2>1 DEF PidInv, LivesAscend
  <2>3. WalkReaches(q)'
    BY <1>3, <1>8, TimesToldKeeps DEF PidInv, WalkReaches
  <2>4. SeenInTime(q)' = SeenInTime(q)
    BY <1>8, TimesToldKeeps DEF SeenInTime
  <2> QED BY <1>3, <1>8, <2>2, <2>3, <2>4, TimesToldKeeps DEF PidInv
<1> QED BY <1>9, <1>10, <1>11 DEF LivesInv

(* LivesInv is inductive. *)
LEMMA LivesInvariance == ProcessSpec => []LivesInv
<1>1. LivesInv /\ [ProcessNext]_processVars => LivesInv'
  <2> SUFFICES ASSUME LivesInv, [ProcessNext]_processVars PROVE LivesInv'
    OBVIOUS
  <2>1. CASE UNCHANGED processVars
    <3>1. /\ alive' = alive /\ lives' = lives /\ walk' = walk /\ listed' = listed
          /\ unread' = unread /\ current' = current /\ known' = known /\ seeded' = seeded
          /\ told' = told /\ misreads' = misreads /\ rows' = rows
      BY <2>1 DEF processVars, worldVars, walkVars
    <3>2. ProcessTypeOK'
      BY <3>1 DEF LivesInv, ProcessTypeOK
    <3>3. \A p \in Pids : PidInv(p)'
      BY <3>1, PidKeeps DEF LivesInv
    <3> QED BY <3>2, <3>3 DEF LivesInv
  <2> QED BY <2>1, ProcessesComeAndGo, BeginWalkStep, ReadProcessStep, SeedProcessesStep,
             CompareStep, WriteRowStep DEF ProcessNext
<1> QED BY <1>1, LivesInitially, PTL DEF ProcessSpec

(***************************************************************************)
(* Whatever processes come and go during the walks, whoever reuses a pid,  *)
(* for every number of them and of unreadable creation times: what is told *)
(* are the lives, each once, in order, and those that last are known.      *)
(***************************************************************************)
THEOREM LivesAreReported == ProcessSpec => []LivesAreTold
<1>1. LivesInv => LivesAreTold
  <2> SUFFICES ASSUME LivesInv, NEW p \in Pids
               PROVE  /\ walk # "new" => ((known[p] # Unseen) <=> ToldAsRunning(p))
                      /\ \A i, j \in 1..Len(told[p]) : i < j => told[p][i].life <= told[p][j].life
                      /\ \A i \in 1..Len(rows[p]) :
                             rows[p][i].integrity \in {0} \cup rows[p][i].life..MaxLives
                      /\ misreads = 0 =>
                             /\ \A l \in Life : \A s \in {"running", "terminated"} :
                                    TimesTold(p, s, l) <= 1
                             /\ \A l \in Life :
                                    \/ l = seeded[p]
                                    \/ TimesTold(p, "running", l) = 1
                                    \/ TimesTold(p, "terminated", l) = 0 /\ known[p].life # l
                             /\ walk = "waiting" /\ listed[p] # 0 /\ alive[p] = listed[p]
                                    => known[p].life = alive[p]
    BY DEF LivesAreTold
  <2>1. PidInv(p)
    BY DEF LivesInv
  <2>2. \A l \in Life : \A s \in {"running", "terminated"} : ToldOnce(p, l) => TimesTold(p, s, l) <= 1
    BY DEF ToldOnce
  <2>3. \A l \in Life : ToldOnce(p, l) =>
            \/ l = seeded[p]
            \/ TimesTold(p, "running", l) = 1
            \/ TimesTold(p, "terminated", l) = 0 /\ known[p].life # l
    BY DEF ToldOnce
  <2>4. walk = "waiting" /\ listed[p] # 0 /\ alive[p] = listed[p] => known[p].life = alive[p]
    BY <2>1 DEF PidInv, WalkReaches
  <2> QED BY <2>1, <2>2, <2>3, <2>4 DEF PidInv, LivesAscend, WalkReaches
<1> QED BY <1>1, LivesInvariance, PTL
-----------------------------------------------------------------------------
(***************************************************************************)
(* The persistence monitor: what is steady is known, and the reports of an *)
(* entry are paid for by its installs and by the reads that went wrong.    *)
(***************************************************************************)

Reading == round \in {"seeding", "polling"}

\* Whether the backend of e has answered in the round under way.
Read(e) == Reading /\ BackendOf[e[1]] \notin toAsk

\* A report of e is due: at the next comparison or the one after it.
Due(e) ==
    IF Read(e) THEN (IF e \in found THEN e \notin perKnown ELSE e \in Present)
               ELSE e \in Present /\ e \notin perKnown

ReportsArePaid ==
    \A e \in Entries :
        /\ perTold[e] <= installs[e] + badReads
        /\ Due(e) => perTold[e] + 1 <= installs[e] + badReads

SteadyIsSeen ==
    /\ steady \subseteq Present
    /\ round # "new" => Present \subseteq around
    /\ ~Reading => toAsk = {}
    /\ Reading =>
           /\ \A e \in steady : Read(e) /\ e[1] \notin misread => e \in found
           /\ \A e \in found : Read(e) /\ (e \in around \/ e[2] = None)
    /\ round = "waiting" =>
           /\ \A e \in steady : e[1] \notin misread => e \in perKnown
           /\ \A e \in perKnown : e \in around \/ e[2] = None

KnownIsTold == \A e \in perKnown : e \in perSeeded \/ perTold[e] > 0

\* The inductive invariant.
PersistenceInv == PersistenceTypeOK /\ SteadyIsSeen /\ KnownIsTold /\ ReportsArePaid

(* What an entry is. *)
LEMMA EntryParts ==
    /\ \A e \in Entries : e = <<e[1], e[2]>> /\ e[1] \in Places /\ e[2] \in Commands \cup {None}
    /\ \A p \in Places, c \in Commands \cup {None} :
           <<p, c>> \in Entries /\ <<p, c>>[1] = p /\ <<p, c>>[2] = c
BY DEF Entries

(* At first nothing is known, and what is installed was installed once. *)
LEMMA PersistenceInitially == PersistenceInit => PersistenceInv
<1> SUFFICES ASSUME PersistenceInit PROVE PersistenceInv
  OBVIOUS
<1>1. MaxInstalls \in Nat \ {0} /\ MaxBadReads \in Nat
  BY PersistenceMonitorAssumption
<1>2. PersistenceTypeOK
  <2>1. installs \in [Entries -> 0..MaxInstalls]
    BY <1>1 DEF PersistenceInit
  <2>2. perTold \in [Entries -> Nat]
    BY DEF PersistenceInit
  <2> QED BY <1>1, <2>1, <2>2 DEF PersistenceInit, PersistenceTypeOK
<1>3. SteadyIsSeen /\ KnownIsTold
  BY DEF PersistenceInit, SteadyIsSeen, KnownIsTold, Reading
<1>4. ReportsArePaid
  <2> SUFFICES ASSUME NEW e \in Entries
               PROVE  /\ perTold[e] <= installs[e] + badReads
                      /\ Due(e) => perTold[e] + 1 <= installs[e] + badReads
    BY DEF ReportsArePaid
  <2>1. perTold[e] = 0 /\ badReads = 0 /\ round = "new"
    BY DEF PersistenceInit
  <2>2. installs[e] = IF e[2] # None /\ installed[e[1]] = e[2] THEN 1 ELSE 0
    BY DEF PersistenceInit
  <2>3. Due(e) => installs[e] = 1
    BY <2>1, <2>2 DEF Due, Read, Reading, Present
  <2> QED BY <2>1, <2>2, <2>3
<1> QED BY <1>2, <1>3, <1>4 DEF PersistenceInv

(* An entry is installed, changed or removed: of its place, nothing else is *)
(* there then.                                                             *)
LEMMA EntriesChange ==
    ASSUME PersistenceInv, NEW p \in Places, NEW c \in Commands \cup {None},
           installed[p] # c, UNCHANGED roundVars,
           installed' = [installed EXCEPT ![p] = c],
           steady' = {e \in steady : e[1] # p},
           \/ c # None /\ installs' = [installs EXCEPT ![<<p, c>>] = @ + 1]
                       /\ installs[<<p, c>>] < MaxInstalls
                       /\ around' = around \cup {<<p, c>>}
           \/ c = None /\ UNCHANGED <<installs, around>>
    PROVE  PersistenceInv'
<1>1. PersistenceTypeOK /\ MaxInstalls \in Nat \ {0} /\ MaxBadReads \in Nat
  BY PersistenceMonitorAssumption DEF PersistenceInv
<1>2. /\ round' = round /\ toAsk' = toAsk /\ found' = found /\ perKnown' = perKnown
      /\ misread' = misread /\ perTold' = perTold /\ perSeeded' = perSeeded
      /\ badReads' = badReads
  BY DEF roundVars
<1>3. <<p, c>> \in Entries
  BY EntryParts
<1>4. PersistenceTypeOK'
  <2>1. installed' \in [Places -> Commands \cup {None}]
    BY <1>1 DEF PersistenceTypeOK
  <2>2. installs' \in [Entries -> 0..MaxInstalls]
    BY <1>1, <1>3 DEF PersistenceTypeOK
  <2>3. steady' \subseteq Entries /\ around' \subseteq Entries
    BY <1>1, <1>3 DEF PersistenceTypeOK
  <2>4. {found, perKnown, steady, around, perSeeded}' \subseteq SUBSET Entries
    BY <1>1, <1>2, <2>3 DEF PersistenceTypeOK
  <2> QED BY <1>1, <1>2, <2>1, <2>2, <2>4 DEF PersistenceTypeOK
<1>5. Present' = {e \in Present : e[1] # p} \cup (IF c = None THEN {} ELSE {<<p, c>>})
  <2>1. ASSUME NEW e \in Entries
        PROVE  e \in Present' <=> \/ e \in Present /\ e[1] # p
                                  \/ c # None /\ e = <<p, c>>
    <3>1. installed'[e[1]] = IF e[1] = p THEN c ELSE installed[e[1]]
      BY <1>1, EntryParts DEF PersistenceTypeOK
    <3>2. e = <<p, c>> <=> e[1] = p /\ e[2] = c
      BY EntryParts
    <3> QED BY <3>1, <3>2 DEF Present
  <2>2. Present \subseteq Entries /\ Present' \subseteq Entries
    BY DEF Present
  <2> QED BY <1>3, <2>1, <2>2
<1>6. SteadyIsSeen'
  <2>1. steady' \subseteq Present'
    BY <1>5 DEF PersistenceInv, SteadyIsSeen
  <2>2. round' # "new" => Present' \subseteq around'
    BY <1>2, <1>5 DEF PersistenceInv, SteadyIsSeen
  <2>3. steady' \subseteq steady /\ around \subseteq around'
    OBVIOUS
  <2>4. \A e : Read(e)' = Read(e)
    BY <1>2 DEF Read, Reading
  <2> QED BY <1>2, <2>1, <2>2, <2>3, <2>4 DEF PersistenceInv, SteadyIsSeen, Reading
<1>7. KnownIsTold'
  BY <1>2 DEF PersistenceInv, KnownIsTold
<1>8. ReportsArePaid'
  <2> SUFFICES ASSUME NEW e \in Entries
               PROVE  /\ perTold'[e] <= installs'[e] + badReads'
                      /\ Due(e)' => perTold'[e] + 1 <= installs'[e] + badReads'
    BY DEF ReportsArePaid
  <2>1. perTold'[e] = perTold[e] /\ perTold[e] \in Nat /\ badReads' = badReads
        /\ badReads \in Nat /\ installs[e] \in Nat
    BY <1>1, <1>2 DEF PersistenceTypeOK
  <2>2. /\ perTold[e] <= installs[e] + badReads
        /\ Due(e) => perTold[e] + 1 <= installs[e] + badReads
    BY DEF PersistenceInv, ReportsArePaid
  <2>3. CASE c # None /\ e = <<p, c>>
    <3>1. installs'[e] = installs[e] + 1
      BY <1>1, <2>3 DEF PersistenceTypeOK
    <3> QED BY <2>1, <2>2, <3>1
  <2>4. CASE ~(c # None /\ e = <<p, c>>)
    <3>1. installs'[e] = installs[e]
      BY <1>1, <2>4 DEF PersistenceTypeOK
    <3>2. e \in Present' => e \in Present
      BY <1>5, <2>4
    <3>3. Due(e)' => Due(e)
      BY <1>2, <3>2 DEF Due, Read, Reading
    <3> QED BY <2>1, <2>2, <3>1, <3>3
  <2> QED BY <2>3, <2>4
<1> QED BY <1>4, <1>6, <1>7, <1>8 DEF PersistenceInv

(* A round begins. *)
LEMMA BeginRoundStep == ASSUME PersistenceInv, BeginRound PROVE PersistenceInv'
<1>1. PersistenceTypeOK /\ Present \subseteq Entries
  BY DEF PersistenceInv, Present
<1>2. Present' = Present /\ steady' = Present /\ around' = Present /\ found' = {}
      /\ toAsk' = Backends /\ Reading' /\ round' # "waiting" /\ round' # "new" /\ ~Reading
      /\ UNCHANGED <<installed, installs, perKnown, perTold, perSeeded, badReads>>
  BY DEF BeginRound, Present, Reading
<1>3. PersistenceTypeOK'
  BY <1>1, <1>2 DEF BeginRound, PersistenceTypeOK
<1>4. \A e \in Entries : ~Read(e)'
  BY <1>2, EntryParts DEF Read, Backends
<1>5. SteadyIsSeen' /\ KnownIsTold'
  BY <1>1, <1>2, <1>4 DEF SteadyIsSeen, KnownIsTold, PersistenceInv
<1>6. \A e \in Entries : Due(e)' = Due(e)
  BY <1>2, <1>4 DEF Due, Read
<1>7. ReportsArePaid'
  BY <1>2, <1>6 DEF ReportsArePaid, PersistenceInv
<1> QED BY <1>3, <1>5, <1>7 DEF PersistenceInv

(* A backend answers, or fails to. *)
LEMMA AskBackendStep ==
    ASSUME PersistenceInv, NEW b \in Backends, AskBackend(b) PROVE PersistenceInv'
<1>0. Reading
  BY DEF AskBackend, GoesWrong, PersistenceInv, SteadyIsSeen
<1>1. PersistenceTypeOK /\ MaxInstalls \in Nat \ {0} /\ MaxBadReads \in Nat
  BY PersistenceMonitorAssumption DEF PersistenceInv
<1>2. /\ b \in toAsk /\ toAsk' = toAsk \ {b}
      /\ UNCHANGED <<installed, installs, round, perKnown, perTold, perSeeded, steady, around>>
      /\ Present' = Present /\ Reading'
  BY <1>0 DEF AskBackend, GoesWrong, Present, Reading
<1>3. Of(b) \subseteq Present /\ Present \subseteq Entries /\ \A e \in Of(b) : BackendOf[e[1]] = b
  BY DEF Of, Present
<1>4. \A e \in Present : BackendOf[e[1]] = b => e \in Of(b)
  BY DEF Of
<1>5. /\ found \subseteq found' /\ misread \subseteq misread' /\ badReads \in Nat /\ badReads' \in Nat
      /\ \A e \in found' \ found :
             BackendOf[e[1]] = b /\ e \in Entries /\ (e \in Present \/ e[2] = None)
      /\ misread' \subseteq Places
      /\ \A e \in Of(b) : e \in found' \/ e[1] \in misread'
      /\ \/ found' = found \cup Of(b) /\ badReads' = badReads
         \/ badReads' = badReads + 1 /\ badReads' <= MaxBadReads
  <2>1. CASE found' = found \cup Of(b) /\ UNCHANGED <<misread, badReads>>
    BY <1>1, <1>3, <2>1 DEF PersistenceTypeOK
  <2>2. CASE GoesWrong(b)
    <3>1. badReads \in Nat /\ badReads' = badReads + 1 /\ badReads' <= MaxBadReads
      BY <1>1, <2>2 DEF GoesWrong, PersistenceTypeOK
    <3>2. \A e \in Of(b) : e[1] \in Places
      BY <1>3, EntryParts
    <3>3. PICK wrong \in SUBSET Of(b) : \E blank \in SUBSET wrong :
              /\ found' = found \cup (Of(b) \ wrong) \cup {<<e[1], None>> : e \in blank}
              /\ misread' = misread \cup {e[1] : e \in wrong}
      BY <2>2 DEF GoesWrong
    <3>4. PICK blank \in SUBSET wrong :
              /\ found' = found \cup (Of(b) \ wrong) \cup {<<e[1], None>> : e \in blank}
              /\ misread' = misread \cup {e[1] : e \in wrong}
      BY <3>3
    <3>5. ASSUME NEW e \in wrong
          PROVE  /\ <<e[1], None>> \in Entries /\ <<e[1], None>>[1] = e[1]
                 /\ <<e[1], None>>[2] = None /\ BackendOf[e[1]] = b
      BY <1>3, <3>2, EntryParts
    <3>6. ASSUME NEW d \in found', d \notin found
          PROVE  BackendOf[d[1]] = b /\ d \in Entries /\ (d \in Present \/ d[2] = None)
      <4>1. CASE d \in Of(b)
        BY <1>3, <4>1
      <4>2. CASE d \notin Of(b)
        <5>1. PICK e \in blank : d = <<e[1], None>>
          BY <3>4, <3>6, <4>2
        <5> QED BY <3>5, <5>1
      <4> QED BY <4>1, <4>2
    <3>7. misread \subseteq misread' /\ misread' \subseteq Places
      BY <1>1, <3>2, <3>4 DEF PersistenceTypeOK
    <3>8. found \subseteq found' /\ \A d \in Of(b) : d \in found' \/ d[1] \in misread'
      BY <3>4
    <3> QED BY <3>1, <3>6, <3>7, <3>8
  <2> QED BY <2>1, <2>2 DEF AskBackend
<1>6. PersistenceTypeOK'
  <2>1. found' \subseteq Entries
    BY <1>1, <1>5 DEF PersistenceTypeOK
  <2>2. badReads' \in 0..MaxBadReads
    BY <1>1, <1>5 DEF PersistenceTypeOK
  <2>3. misread' \subseteq Places
    BY <1>5
  <2> QED BY <1>1, <1>2, <2>1, <2>2, <2>3 DEF PersistenceTypeOK
<1>7. \A e : Read(e)' <=> Read(e) \/ BackendOf[e[1]] = b
  BY <1>0, <1>2 DEF Read
<1>8. \A e \in found : Read(e) /\ BackendOf[e[1]] # b
  BY <1>0, <1>2 DEF PersistenceInv, SteadyIsSeen, Read
<1>9. SteadyIsSeen'
  <2>1. ASSUME NEW e \in steady, Read(e)', e[1] \notin misread' PROVE e \in found'
    <3>1. e \in Present
      BY <1>0 DEF PersistenceInv, SteadyIsSeen
    <3> QED BY <1>0, <1>4, <1>5, <1>7, <2>1, <3>1 DEF PersistenceInv, SteadyIsSeen
  <2>2. ASSUME NEW e \in found' PROVE Read(e)' /\ (e \in around \/ e[2] = None)
    <3>1. CASE e \in found
      BY <1>0, <1>7, <1>8, <3>1 DEF PersistenceInv, SteadyIsSeen
    <3>2. CASE e \notin found
      <4>1. Present \subseteq around
        BY <1>0 DEF PersistenceInv, SteadyIsSeen, Reading
      <4> QED BY <1>5, <1>7, <3>2, <4>1
    <3> QED BY <3>1, <3>2
  <2> QED BY <1>2, <2>1, <2>2 DEF PersistenceInv, SteadyIsSeen, Reading
<1>10. KnownIsTold'
  BY <1>2 DEF PersistenceInv, KnownIsTold
<1>11. ReportsArePaid'
  <2> SUFFICES ASSUME NEW e \in Entries
               PROVE  /\ perTold'[e] <= installs'[e] + badReads'
                      /\ Due(e)' => perTold'[e] + 1 <= installs'[e] + badReads'
    BY DEF ReportsArePaid
  <2>1. perTold'[e] = perTold[e] /\ perTold[e] \in Nat /\ installs'[e] = installs[e]
        /\ badReads \in Nat /\ installs[e] \in Nat
    BY <1>1, <1>2, <1>5 DEF PersistenceTypeOK
  <2>2. /\ perTold[e] <= installs[e] + badReads
        /\ Due(e) => perTold[e] + 1 <= installs[e] + badReads
    BY DEF PersistenceInv, ReportsArePaid
  <2>3. CASE badReads' = badReads + 1
    BY <2>1, <2>2, <2>3
  <2>4. CASE found' = found \cup Of(b) /\ badReads' = badReads
    <3>1. CASE BackendOf[e[1]] = b
      <4>1. Read(e)' /\ ~Read(e) /\ e \notin found
        BY <1>2, <1>7, <1>8, <3>1 DEF Read
      <4>2. e \in found' <=> e \in Present
        BY <1>3, <1>4, <2>4, <3>1, <4>1
      <4>3. Due(e)' <=> Due(e)
        BY <1>2, <4>1, <4>2 DEF Due
      <4> QED BY <2>1, <2>2, <2>4, <4>3
    <3>2. CASE BackendOf[e[1]] # b
      <4>1. Read(e)' <=> Read(e)
        BY <1>7, <3>2
      <4>2. e \in found' <=> e \in found
        BY <1>3, <2>4, <3>2
      <4>3. Due(e)' <=> Due(e)
        BY <1>2, <4>1, <4>2 DEF Due
      <4> QED BY <2>1, <2>2, <2>4, <4>3
    <3> QED BY <3>1, <3>2
  <2> QED BY <1>5, <2>3, <2>4
<1> QED BY <1>6, <1>9, <1>10, <1>11 DEF PersistenceInv

(* A round ends: what was found is known now, and all of it has been told. *)
LEMMA RoundEnds ==
    ASSUME PersistenceInv, Reading, toAsk = {}, round' = "waiting", perKnown' = found,
           UNCHANGED <<installed, installs, steady, around, toAsk, found, misread, badReads>>,
           perSeeded' \subseteq Entries, perTold' \in [Entries -> Nat],
           KnownIsTold',
           \A e \in Entries :
               \/ perTold'[e] = perTold[e]
               \/ perTold'[e] = perTold[e] + 1 /\ e \in found /\ e \notin perKnown
    PROVE  PersistenceInv'
<1>1. PersistenceTypeOK /\ MaxInstalls \in Nat \ {0} /\ MaxBadReads \in Nat
  BY PersistenceMonitorAssumption DEF PersistenceInv
<1>2. \A e \in Entries : Read(e)
  BY EntryParts DEF Read
<1>3. Present' = Present /\ ~Reading' /\ found \subseteq Entries /\ steady \subseteq Entries
  BY <1>1 DEF Present, Reading, PersistenceTypeOK
<1>4. PersistenceTypeOK'
  BY <1>1, <1>3 DEF PersistenceTypeOK
<1>5. SteadyIsSeen'
  BY <1>2, <1>3 DEF PersistenceInv, SteadyIsSeen, Reading
<1>6. ReportsArePaid'
  <2> SUFFICES ASSUME NEW e \in Entries
               PROVE  /\ perTold'[e] <= installs'[e] + badReads'
                      /\ Due(e)' => perTold'[e] + 1 <= installs'[e] + badReads'
    BY DEF ReportsArePaid
  <2>1. /\ perTold[e] <= installs[e] + badReads
        /\ Due(e) => perTold[e] + 1 <= installs[e] + badReads
        /\ perTold[e] \in Nat /\ installs[e] \in Nat /\ badReads \in Nat
    BY <1>1 DEF PersistenceInv, ReportsArePaid, PersistenceTypeOK
  <2>2. Due(e) = IF e \in found THEN e \notin perKnown ELSE e \in Present
    BY <1>2 DEF Due
  <2>3. Due(e)' = (e \in Present /\ e \notin found)
    BY <1>3 DEF Due, Read
  <2>4. installs' = installs /\ badReads' = badReads
    OBVIOUS
  <2>5. CASE e \in found
    BY <2>1, <2>2, <2>3, <2>4, <2>5
  <2>6. CASE e \notin found
    <3>1. perTold'[e] = perTold[e]
      BY <2>6
    <3>2. Due(e)' => Due(e)
      BY <2>2, <2>3, <2>6
    <3> QED BY <2>1, <2>4, <3>1, <3>2
  <2> QED BY <2>5, <2>6
<1> QED BY <1>4, <1>5, <1>6 DEF PersistenceInv

(* The seed makes the first snapshot known and tells nothing. *)
LEMMA SeedEntriesStep == ASSUME PersistenceInv, SeedEntries PROVE PersistenceInv'
<1>1. PersistenceTypeOK
  BY DEF PersistenceInv
<1>2. /\ Reading /\ toAsk = {} /\ round' = "waiting" /\ perKnown' = found /\ perSeeded' = found
      /\ UNCHANGED <<installed, installs, steady, around, toAsk, found, misread, badReads>>
      /\ perTold' = perTold
  BY DEF SeedEntries, Reading
<1>3. perSeeded' \subseteq Entries /\ perTold' \in [Entries -> Nat]
  BY <1>1, <1>2 DEF PersistenceTypeOK
<1>4. KnownIsTold'
  BY <1>2 DEF KnownIsTold
<1> QED BY <1>2, <1>3, <1>4, RoundEnds

(* A poll tells what was not known. *)
LEMMA TellEntriesStep == ASSUME PersistenceInv, TellEntries PROVE PersistenceInv'
<1>1. PersistenceTypeOK
  BY DEF PersistenceInv
<1>2. /\ Reading /\ toAsk = {} /\ round' = "waiting" /\ perKnown' = found
      /\ UNCHANGED <<installed, installs, steady, around, toAsk, found, misread, badReads>>
      /\ perSeeded' = perSeeded
  BY DEF TellEntries, Reading, NowKnown
<1>3. \A e \in Entries :
          perTold'[e] = IF e \in found \ perKnown THEN perTold[e] + 1 ELSE perTold[e]
  BY DEF TellEntries
<1>4. perSeeded' \subseteq Entries
  BY <1>1, <1>2 DEF PersistenceTypeOK
<1>5. perTold' \in [Entries -> Nat]
  <2>1. \A e \in Entries : perTold[e] \in Nat
    BY <1>1 DEF PersistenceTypeOK
  <2> QED BY <2>1 DEF TellEntries
<1>6. KnownIsTold'
  <2> SUFFICES ASSUME NEW e \in found PROVE e \in perSeeded \/ perTold'[e] > 0
    BY <1>2 DEF KnownIsTold
  <2>1. e \in Entries /\ perTold[e] \in Nat
    BY <1>1 DEF PersistenceTypeOK
  <2> QED BY <1>3, <2>1 DEF KnownIsTold, PersistenceInv
<1>7. \A e \in Entries :
          \/ perTold'[e] = perTold[e]
          \/ perTold'[e] = perTold[e] + 1 /\ e \in found /\ e \notin perKnown
  BY <1>3
<1> QED BY <1>2, <1>4, <1>5, <1>6, <1>7, RoundEnds

(* PersistenceInv is inductive. *)
LEMMA PersistenceInvariance == PersistenceSpec => []PersistenceInv
<1>1. PersistenceInv /\ [PersistenceNext]_persistenceVars => PersistenceInv'
  <2> SUFFICES ASSUME PersistenceInv, [PersistenceNext]_persistenceVars PROVE PersistenceInv'
    OBVIOUS
  <2>1. ASSUME NEW p \in Places, NEW c \in Commands, Install(p, c) PROVE PersistenceInv'
    <3>1. c # None
      BY PersistenceMonitorAssumption
    <3> QED BY <2>1, <3>1, EntriesChange DEF Install
  <2>2. ASSUME NEW p \in Places, Remove(p) PROVE PersistenceInv'
    BY <2>2, EntriesChange DEF Remove
  <2>3. CASE UNCHANGED persistenceVars
    BY <2>3 DEF persistenceVars, roundVars, PersistenceInv, PersistenceTypeOK, SteadyIsSeen,
                KnownIsTold, ReportsArePaid, Reading, Read, Due, Present
  <2>4. ASSUME NEW p \in Places, Disable(p) PROVE PersistenceInv'
    BY <2>2, <2>3, <2>4 DEF Disable
  <2> QED BY <2>1, <2>2, <2>3, <2>4, BeginRoundStep, SeedEntriesStep, TellEntriesStep,
             AskBackendStep DEF PersistenceNext
<1> QED BY <1>1, PersistenceInitially, PTL DEF PersistenceSpec

(***************************************************************************)
(* Whatever is installed, changed and removed during the polls, whichever  *)
(* backends fail, for every number of them: an entry that stays is told,   *)
(* one that was away is forgotten, and none is told more often than it was *)
(* installed and reads went wrong.                                         *)
(***************************************************************************)
THEOREM EntriesAreTold == PersistenceSpec => []PersistenceIsTold
<1>1. PersistenceInv => PersistenceIsTold
  BY DEF PersistenceInv, SteadyIsSeen, KnownIsTold, ReportsArePaid, PersistenceIsTold
<1> QED BY <1>1, PersistenceInvariance, PTL
-----------------------------------------------------------------------------
(***************************************************************************)
(* The log monitor: while the records come in order, what its cursor has   *)
(* passed has been told.                                                   *)
(***************************************************************************)

\* What was told is behind the cursor, and the cursor stands at the start
\* or at a record.
CursorIsAhead(c) ==
    /\ startedAt <= since[c]
    /\ since[c] <= startedAt \/ \E i \in 1..Len(log[c]) : since[c] <= log[c][i]
    /\ \A i \in logTold[c] : log[c][i] <= since[c] /\ Second(log[c][i]) >= Second(startedAt)

\* The records since the start are newer than the start and all before them.
RecordsAscend(c) ==
    inOrder[c] => \A j \in first[c] + 1 .. Len(log[c]) :
        /\ startedAt < log[c][j]
        /\ \A i \in 1..j - 1 : log[c][i] < log[c][j]

PassedIsTold(c) ==
    inOrder[c] => \A i \in first[c] + 1 .. Len(log[c]) :
        log[c][i] <= since[c] => i \in logTold[c] \cup unparsed[c]

LastReadIsTold(c) ==
    inOrder[c] => first[c] + 1 .. logRead[c] \subseteq logTold[c] \cup unparsed[c]

LogTypes ==
    /\ now \in 0..MaxTime /\ startedAt \in 0..now
    /\ log \in [Channels -> Seq(0..MaxTime)]
    /\ since \in [Channels -> 0..MaxTime]
    /\ logRuns \in 0..MaxStarts /\ logOn \in BOOLEAN
    /\ first \in [Channels -> Nat] /\ logRead \in [Channels -> Nat]
    /\ inOrder \in [Channels -> BOOLEAN]
    /\ logTold \in [Channels -> SUBSET Nat] /\ unparsed \in [Channels -> SUBSET Nat]
    /\ readErrors \in 0..MaxReadErrors

LogBounds(c) ==
    /\ Len(log[c]) <= MaxRecords /\ first[c] <= Len(log[c]) /\ logRead[c] <= Len(log[c])
    /\ logTold[c] \cup unparsed[c] \subseteq 1..Len(log[c])

\* The inductive invariant.
LogInv ==
    /\ LogTypes
    /\ \A c \in Channels : LogBounds(c) /\ CursorIsAhead(c) /\ RecordsAscend(c) /\ PassedIsTold(c)
                           /\ LastReadIsTold(c)

(* What stays as it was, when the clock moves on or the monitor is stopped. *)
LEMMA ChannelsKeep ==
    ASSUME LogInv, LogTypes',
           UNCHANGED <<log, inOrder, since, startedAt, first, logTold, logRead, unparsed>>
    PROVE  LogInv'
BY DEF LogInv, LogBounds, CursorIsAhead, RecordsAscend, PassedIsTold, LastReadIsTold

(* Nothing has been written or told at first. *)
LEMMA LogInitially == LogInit => LogInv
<1> SUFFICES ASSUME LogInit PROVE LogInv
  OBVIOUS
<1>1. MaxTime \in Nat /\ MaxRecords \in Nat /\ MaxStarts \in Nat /\ MaxReadErrors \in Nat
  BY LogMonitorAssumption
<1>2. LogTypes
  <2>1. now = 0 /\ startedAt = 0 /\ logRuns = 0 /\ readErrors = 0 /\ logOn \in BOOLEAN
    BY DEF LogInit
  <2>2. log \in [Channels -> Seq(0..MaxTime)]
    BY DEF LogInit
  <2>3. since \in [Channels -> 0..MaxTime] /\ first \in [Channels -> Nat]
        /\ logRead \in [Channels -> Nat]
    BY <1>1 DEF LogInit
  <2>4. inOrder \in [Channels -> BOOLEAN]
    BY Zenon DEF LogInit
  <2>5. logTold \in [Channels -> SUBSET Nat] /\ unparsed \in [Channels -> SUBSET Nat]
    BY DEF LogInit
  <2> QED BY <1>1, <2>1, <2>2, <2>3, <2>4, <2>5 DEF LogTypes
<1>3. ASSUME NEW c \in Channels
      PROVE  LogBounds(c) /\ CursorIsAhead(c) /\ RecordsAscend(c) /\ PassedIsTold(c)
             /\ LastReadIsTold(c)
  <2>1. /\ log[c] = <<>> /\ since[c] = 0 /\ first[c] = 0 /\ logRead[c] = 0 /\ logTold[c] = {}
        /\ unparsed[c] = {} /\ startedAt = 0
    BY <1>3 DEF LogInit
  <2> QED BY <1>1, <2>1 DEF LogBounds, CursorIsAhead, RecordsAscend, PassedIsTold, LastReadIsTold
<1> QED BY <1>2, <1>3 DEF LogInv

(* A provider writes a record, in order or not. *)
LEMMA WriteRecordStep ==
    ASSUME LogInv, NEW c \in Channels, NEW t \in 0..now, WriteRecord(c, t) PROVE LogInv'
<1>1. LogTypes /\ MaxTime \in Nat /\ MaxRecords \in Nat
  BY LogMonitorAssumption DEF LogInv
<1>2. /\ now' = now /\ since' = since /\ logRuns' = logRuns /\ logOn' = logOn
      /\ startedAt' = startedAt /\ first' = first /\ logTold' = logTold /\ logRead' = logRead
      /\ unparsed' = unparsed /\ readErrors' = readErrors
  BY DEF WriteRecord, logMonitorVars
<1>3. log[c] \in Seq(0..MaxTime) /\ Len(log[c]) \in Nat /\ t \in 0..MaxTime
      /\ Len(log[c]) < MaxRecords
  BY <1>1 DEF LogTypes, WriteRecord
<1>4. /\ log' = [log EXCEPT ![c] = Append(log[c], t)]
      /\ Append(log[c], t) \in Seq(0..MaxTime)
      /\ \A d \in Channels \ {c} : log'[d] = log[d] /\ inOrder'[d] = inOrder[d]
      /\ log'[c] = Append(log[c], t)
  BY <1>1, <1>3 DEF WriteRecord, LogTypes
<1>5. inOrder'[c] => inOrder[c] /\ startedAt < t /\ \A i \in 1..Len(log[c]) : log[c][i] < t
  <2>1. inOrder'[c] = (inOrder[c] /\ t > startedAt /\ \A i \in DOMAIN log[c] : log[c][i] < t)
    BY <1>1 DEF WriteRecord, LogTypes
  <2>2. DOMAIN log[c] = 1..Len(log[c])
    BY <1>3
  <2>3. t > startedAt => startedAt < t
    BY <1>1, <1>3 DEF LogTypes
  <2> QED BY Zenon, <2>1, <2>2, <2>3
<1>6. LogTypes'
  <2>1. inOrder' \in [Channels -> BOOLEAN]
    BY Zenon, <1>1 DEF WriteRecord, LogTypes
  <2>2. log' \in [Channels -> Seq(0..MaxTime)]
    BY <1>1, <1>4 DEF LogTypes
  <2> QED BY <1>1, <1>2, <2>1, <2>2 DEF LogTypes
<1>7. /\ Len(log'[c]) = Len(log[c]) + 1 /\ log'[c][Len(log[c]) + 1] = t
      /\ \A i \in 1..Len(log[c]) : log'[c][i] = log[c][i]
  BY <1>3, <1>4
<1>8. ASSUME NEW d \in Channels
      PROVE  (LogBounds(d) /\ CursorIsAhead(d) /\ RecordsAscend(d) /\ PassedIsTold(d)
              /\ LastReadIsTold(d))'
  <2>1. LogBounds(d) /\ CursorIsAhead(d) /\ RecordsAscend(d) /\ PassedIsTold(d) /\ LastReadIsTold(d)
    BY DEF LogInv
  <2>2. CASE d # c
    <3>1. log'[d] = log[d] /\ inOrder'[d] = inOrder[d]
      BY <1>4, <2>2
    <3> QED BY <1>2, <2>1, <3>1 DEF LogBounds, CursorIsAhead, RecordsAscend, PassedIsTold, LastReadIsTold
  <2>3. CASE d = c
    <3>1. first[c] \in Nat /\ logRead[c] \in Nat /\ since[c] \in Nat /\ startedAt \in Nat
          /\ first[c] <= Len(log[c]) /\ \A i \in 1..Len(log[c]) : log[c][i] \in Nat
      BY <1>1, <1>3, <2>1, <2>3 DEF LogTypes, LogBounds
    <3>2. LogBounds(c)'
      <4>1. logTold[c] \cup unparsed[c] \subseteq 1..Len(log[c])
        BY <2>1, <2>3 DEF LogBounds
      <4>2. 1..Len(log[c]) \subseteq 1..Len(log'[c])
        BY <1>3, <1>7
      <4>3. (logTold[c] \cup unparsed[c])' \subseteq 1..Len(log'[c])
        BY <1>2, <4>1, <4>2
      <4>4. Len(log'[c]) <= MaxRecords /\ first'[c] <= Len(log'[c]) /\ logRead'[c] <= Len(log'[c])
        BY <1>1, <1>2, <1>3, <1>7, <2>1, <2>3, <3>1 DEF LogBounds
      <4> QED BY <4>3, <4>4 DEF LogBounds
    <3>3. CursorIsAhead(c)'
      <4>1. logTold[c] \subseteq 1..Len(log[c])
        BY <2>1, <2>3 DEF LogBounds
      <4> QED BY <1>2, <1>3, <1>7, <2>1, <2>3, <4>1 DEF CursorIsAhead
    <3>4. RecordsAscend(c)'
      <4> SUFFICES ASSUME inOrder'[c], NEW j \in first'[c] + 1 .. Len(log'[c])
                   PROVE  startedAt' < log'[c][j] /\ \A i \in 1..j - 1 : log'[c][i] < log'[c][j]
        BY DEF RecordsAscend
      <4>1. j \in first[c] + 1 .. Len(log[c]) \/ j = Len(log[c]) + 1
        BY <1>2, <1>3, <1>7, <3>1
      <4>2. CASE j \in first[c] + 1 .. Len(log[c])
        <5>1. startedAt < log[c][j] /\ \A i \in 1..j - 1 : log[c][i] < log[c][j]
          BY <1>5, <2>1, <2>3, <4>2 DEF RecordsAscend
        <5>2. j \in 1..Len(log[c]) /\ \A i \in 1..j - 1 : i \in 1..Len(log[c])
          BY <1>3, <3>1, <4>2
        <5> QED BY <1>2, <1>7, <5>1, <5>2
      <4>3. CASE j = Len(log[c]) + 1
        <5>1. 1..j - 1 = 1..Len(log[c])
          BY <1>3, <4>3
        <5> QED BY <1>2, <1>5, <1>7, <4>3, <5>1
      <4> QED BY <4>1, <4>2, <4>3
    <3>5. PassedIsTold(c)'
      <4>1. inOrder'[c] => since[c] < t
        BY <1>3, <1>5, <2>1, <2>3, <3>1 DEF CursorIsAhead
      <4> SUFFICES ASSUME inOrder'[c], NEW i \in first[c] + 1 .. Len(log'[c]),
                          log'[c][i] <= since[c]
                   PROVE  i \in logTold[c] \cup unparsed[c]
        BY <1>2 DEF PassedIsTold
      <4>2. i \in first[c] + 1 .. Len(log[c]) \/ i = Len(log[c]) + 1
        BY <1>3, <1>7, <3>1
      <4>3. i # Len(log[c]) + 1
        BY <1>3, <1>7, <3>1, <4>1
      <4>4. i \in 1..Len(log[c])
        BY <1>3, <3>1, <4>2, <4>3
      <4> QED BY <1>5, <1>7, <2>1, <2>3, <4>2, <4>3, <4>4 DEF PassedIsTold
    <3>6. LastReadIsTold(c)'
      BY <1>2, <1>5, <2>1, <2>3 DEF LastReadIsTold
    <3> QED BY <2>3, <3>2, <3>3, <3>4, <3>5, <3>6
  <2> QED BY <2>2, <2>3
<1> QED BY <1>6, <1>8 DEF LogInv

(* The monitor starts, and its cursors with it. *)
LEMMA StartLogStep == ASSUME LogInv, StartLog PROVE LogInv'
<1>1. LogTypes /\ MaxTime \in Nat /\ MaxRecords \in Nat /\ MaxStarts \in Nat
  BY LogMonitorAssumption DEF LogInv
<1>2. /\ log' = log /\ now' = now /\ readErrors' = readErrors /\ startedAt' = now
      /\ logOn' = TRUE /\ logRuns' = logRuns + 1 /\ logRuns < MaxStarts
      /\ since' = [c \in Channels |-> now]
      /\ first' = [c \in Channels |-> Len(log[c])] /\ logRead' = first'
      /\ logTold' = [c \in Channels |-> {}] /\ unparsed' = [c \in Channels |-> {}]
  BY DEF StartLog, StartCursor
<1>3. \A c \in Channels : Len(log[c]) \in Nat
  BY <1>1 DEF LogTypes
<1>4. LogTypes'
  <2>1. inOrder' \in [Channels -> BOOLEAN]
    BY Zenon DEF StartLog
  <2>2. first' \in [Channels -> Nat] /\ logRead' \in [Channels -> Nat]
    BY <1>2, <1>3
  <2>3. since' \in [Channels -> 0..MaxTime]
    BY <1>1, <1>2 DEF LogTypes
  <2> QED BY <1>1, <1>2, <2>1, <2>2, <2>3 DEF LogTypes
<1>5. ASSUME NEW c \in Channels
      PROVE  (LogBounds(c) /\ CursorIsAhead(c) /\ RecordsAscend(c) /\ PassedIsTold(c)
              /\ LastReadIsTold(c))'
  <2>1. /\ log'[c] = log[c] /\ since'[c] = now /\ first'[c] = Len(log[c])
        /\ logRead'[c] = Len(log[c]) /\ logTold'[c] = {} /\ unparsed'[c] = {}
    BY <1>2
  <2>2. now \in Nat /\ Len(log[c]) \in Nat /\ Len(log[c]) <= MaxRecords
    BY <1>1, <1>3 DEF LogTypes, LogInv, LogBounds
  <2> QED BY <1>2, <2>1, <2>2 DEF LogBounds, CursorIsAhead, RecordsAscend, PassedIsTold, LastReadIsTold
<1> QED BY <1>4, <1>5 DEF LogInv

(* A non-empty set of natural numbers has a least one. *)
LEMMA LeastNatural ==
    ASSUME NEW S \in SUBSET Nat, S # {}
    PROVE  \E m \in S : \A n \in S : m <= n
<1> DEFINE R == OpToRel(<, Nat)
<1>1. IsWellFoundedOn(R, Nat)
  BY NatLessThanWellFounded
<1>2. \A m, n \in S : n < m => <<n, m>> \in R
  BY DEF OpToRel
<1> HIDE DEF R
<1>3. PICK m \in S : \A n \in S : ~(<<n, m>> \in R)
  BY <1>1, WFMin
<1>4. \A n \in S : ~(n < m)
  BY <1>2, <1>3, Zenon
<1>5. m \in Nat /\ \A n \in S : n \in Nat
  OBVIOUS
<1> QED BY <1>4, <1>5

(* Of finitely many times there is a latest one. *)
LEMMA LatestIsOne ==
    ASSUME NEW N \in Nat, NEW S \in SUBSET (0..N), S # {}
    PROVE  Max(S) \in S /\ \A x \in S : x <= Max(S)
<1> DEFINE B == {N - x : x \in S}
<1>1. B \in SUBSET Nat /\ B # {}
  OBVIOUS
<1> HIDE DEF B
<1>2. PICK m \in B : \A n \in B : m <= n
  BY <1>1, LeastNatural
<1>3. PICK x \in S : m = N - x
  BY DEF B
<1>4. \A y \in S : x <= y => x = y
  <2> SUFFICES ASSUME NEW y \in S, x <= y PROVE x = y
    OBVIOUS
  <2>1. m <= N - y
    BY <1>2 DEF B
  <2> QED BY <1>3, <2>1
<1>5. \A y \in S : x >= y
  BY <1>4
<1>6. Max(S) \in S /\ \A y \in S : Max(S) >= y
  BY <1>5 DEF Max
<1> QED BY <1>6

(* What is newer than the second of the cursor, and what is behind it. *)
LEMMA Seconds ==
    ASSUME NEW t \in Nat, NEW u \in Nat
    PROVE  /\ Second(u) * TicksPerSecond <= u /\ Second(u) \in Nat
           /\ Second(u) * TicksPerSecond \in Nat
           /\ t > Second(u) * TicksPerSecond => Second(t) >= Second(u)
           /\ t <= u => Second(t) <= Second(u)
<1>1. TicksPerSecond \in Nat \ {0}
  BY LogMonitorAssumption
<1> QED BY <1>1 DEF Second

(***************************************************************************)
(* One channel is read: all of it, or up to a record at which the query    *)
(* failed, or all but a record that did not parse.                         *)
(***************************************************************************)
LEMMA PollChannelStep == ASSUME LogInv, NEW c \in Channels, PollChannel(c) PROVE LogInv'
<1>1. LogTypes /\ MaxTime \in Nat /\ MaxReadErrors \in Nat
  BY LogMonitorAssumption DEF LogInv
<1>2. UNCHANGED <<now, log, inOrder, logRuns, logOn, startedAt, first>>
  BY DEF PollChannel
<1>3. PICK last \in 0..Len(log[c]), read \in SUBSET Newer(c) :
          /\ ReadChannel(c, last, read)
          /\ logTold' = [logTold EXCEPT ![c] = @ \cup read]
          /\ since' = [since EXCEPT ![c] = Latest(c, read)]
          /\ logRead' = [logRead EXCEPT ![c] = IF last = Len(log[c]) THEN last ELSE @]
  BY DEF PollChannel
<1>4. /\ log[c] \in Seq(0..MaxTime) /\ Len(log[c]) \in Nat /\ since[c] \in 0..MaxTime
      /\ logTold[c] \subseteq Nat /\ unparsed[c] \subseteq Nat
      /\ startedAt \in Nat /\ first[c] \in Nat /\ logRead[c] \in Nat
  BY <1>1 DEF LogTypes
<1>5. DOMAIN log[c] = 1..Len(log[c]) /\ \A i \in 1..Len(log[c]) : log[c][i] \in 0..MaxTime
  <2>1. DOMAIN log[c] = 1..Len(log[c])
    BY <1>4, LenProperties
  <2>2. \A i \in 1..Len(log[c]) : log[c][i] \in 0..MaxTime
    BY <1>4, ElementOfSeq
  <2> QED BY <2>1, <2>2
<1>6. Newer(c) = {i \in 1..Len(log[c]) : log[c][i] > Second(since[c]) * TicksPerSecond}
  BY <1>5 DEF Newer
<1>7. /\ unparsed' \in [Channels -> SUBSET Nat] /\ readErrors' \in 0..MaxReadErrors
      /\ unparsed[c] \subseteq unparsed'[c] /\ unparsed'[c] \subseteq unparsed[c] \cup Newer(c)
      /\ \A d \in Channels \ {c} : unparsed'[d] = unparsed[d]
      /\ \A i \in Newer(c) : i <= last => i \in read \cup unparsed'[c]
  <2> DEFINE asked == {i \in Newer(c) : i <= last}
  <2>1. ReadError => readErrors' \in 0..MaxReadErrors
    BY <1>1 DEF ReadError, LogTypes
  <2>2. CASE read = asked /\ UNCHANGED unparsed /\ readErrors' \in 0..MaxReadErrors
    BY <1>1, <2>2 DEF LogTypes
  <2>3. ASSUME NEW i \in asked, read = asked \ {i}, unparsed' = [unparsed EXCEPT ![c] = @ \cup {i}],
               ReadError
        PROVE  /\ unparsed' \in [Channels -> SUBSET Nat] /\ readErrors' \in 0..MaxReadErrors
               /\ unparsed[c] \subseteq unparsed'[c] /\ unparsed'[c] \subseteq unparsed[c] \cup Newer(c)
               /\ \A d \in Channels \ {c} : unparsed'[d] = unparsed[d]
               /\ \A j \in Newer(c) : j <= last => j \in read \cup unparsed'[c]
    <3>1. unparsed'[c] = unparsed[c] \cup {i} /\ i \in Nat /\ i \in Newer(c)
      BY <1>1, <1>6, <2>3 DEF LogTypes
    <3>2. unparsed' \in [Channels -> SUBSET Nat]
      BY <1>1, <1>4, <2>3, <3>1 DEF LogTypes
    <3>3. \A d \in Channels \ {c} : unparsed'[d] = unparsed[d]
      BY <1>1, <2>3 DEF LogTypes
    <3>4. \A j \in Newer(c) : j <= last => j \in read \cup unparsed'[c]
      BY <2>3, <3>1
    <3> QED BY <2>1, <2>3, <3>1, <3>2, <3>3, <3>4
  <2>4. readErrors' = readErrors => readErrors' \in 0..MaxReadErrors
    BY <1>1 DEF LogTypes
  <2> QED BY <1>3, <2>1, <2>2, <2>3, <2>4 DEF ReadChannel
<1> DEFINE S == {since[c]} \cup {log[c][i] : i \in read}
<1>8. /\ since'[c] \in 0..MaxTime /\ since[c] <= since'[c]
      /\ \A i \in read : log[c][i] <= since'[c]
      /\ since'[c] = since[c] \/ \E m \in read : since'[c] = log[c][m]
  <2>1. S \in SUBSET (0..MaxTime) /\ S # {}
    BY <1>4, <1>5, <1>6
  <2>2. since'[c] = Max(S)
    BY <1>1, <1>3 DEF Latest, LogTypes
  <2>3. since[c] \in S /\ \A i \in read : log[c][i] \in S
    OBVIOUS
  <2>4. Max(S) \in S /\ \A x \in S : x <= Max(S)
    <3> HIDE DEF S
    <3> QED BY <1>1, <2>1, LatestIsOne
  <2>5. Max(S) = since[c] \/ \E m \in read : Max(S) = log[c][m]
    BY <2>4
  <2> HIDE DEF S
  <2> QED BY <2>1, <2>2, <2>3, <2>4, <2>5
<1> HIDE DEF S
<1>9. /\ logTold'[c] = logTold[c] \cup read
      /\ logRead'[c] = IF last = Len(log[c]) THEN last ELSE logRead[c]
      /\ \A d \in Channels \ {c} :
             logTold'[d] = logTold[d] /\ since'[d] = since[d] /\ logRead'[d] = logRead[d]
  BY <1>1, <1>3 DEF LogTypes
<1>10. LogTypes'
  <2>1. since' \in [Channels -> 0..MaxTime]
    BY <1>1, <1>3, <1>8 DEF LogTypes
  <2>2. logTold' \in [Channels -> SUBSET Nat]
    <3>1. read \subseteq Nat
      BY <1>6
    <3>2. logTold[c] \cup read \in SUBSET Nat
      BY <1>4, <3>1
    <3> QED BY <1>1, <1>3, <3>2 DEF LogTypes
  <2>3. logRead' \in [Channels -> Nat]
    BY <1>1, <1>3, <1>4 DEF LogTypes
  <2> QED BY <1>1, <1>2, <1>7, <2>1, <2>2, <2>3 DEF LogTypes
<1>11. /\ LogBounds(c) /\ CursorIsAhead(c) /\ RecordsAscend(c) /\ PassedIsTold(c)
       /\ LastReadIsTold(c)
  BY DEF LogInv
<1>12. LogBounds(c)'
  <2>1. logTold'[c] \cup unparsed'[c] \subseteq 1..Len(log[c])
    BY <1>6, <1>7, <1>9, <1>11 DEF LogBounds
  <2>2. logRead'[c] <= Len(log[c])
    BY <1>4, <1>9, <1>11 DEF LogBounds
  <2> QED BY <1>2, <1>11, <2>1, <2>2 DEF LogBounds
<1>13. CursorIsAhead(c)'
  <2>1. startedAt' <= since'[c]
    BY <1>2, <1>4, <1>8, <1>11 DEF CursorIsAhead
  <2>2. since'[c] <= startedAt' \/ \E i \in 1..Len(log'[c]) : since'[c] <= log'[c][i]
    <3>1. \A m \in read : m \in 1..Len(log[c]) /\ log[c][m] <= log[c][m]
      BY <1>5, <1>6
    <3> QED BY <1>2, <1>8, <1>11, <3>1 DEF CursorIsAhead
  <2>3. ASSUME NEW i \in logTold'[c]
        PROVE  log[c][i] <= since'[c] /\ Second(log[c][i]) >= Second(startedAt)
    <3>1. i \in 1..Len(log[c])
      BY <1>2, <1>12 DEF LogBounds
    <3>2. log[c][i] \in Nat /\ since[c] \in Nat /\ since'[c] \in Nat
      BY <1>1, <1>4, <1>5, <1>8, <3>1
    <3>3. CASE i \in logTold[c]
      BY <1>8, <1>11, <3>2, <3>3 DEF CursorIsAhead
    <3>4. CASE i \in read
      <4>1. Second(log[c][i]) >= Second(since[c])
        BY <1>6, <3>2, <3>4, Seconds
      <4>2. Second(since[c]) >= Second(startedAt)
        BY <1>4, <1>11, <3>2, Seconds DEF CursorIsAhead
      <4>3. Second(log[c][i]) \in Nat /\ Second(since[c]) \in Nat /\ Second(startedAt) \in Nat
        BY <1>4, <3>2, Seconds
      <4> QED BY <1>8, <3>4, <4>1, <4>2, <4>3
    <3> QED BY <1>9, <3>3, <3>4
  <2> QED BY <1>2, <2>1, <2>2, <2>3 DEF CursorIsAhead
<1>14. RecordsAscend(c)'
  BY <1>2, <1>11 DEF RecordsAscend
<1>15. ASSUME inOrder[c], NEW i \in first[c] + 1 .. Len(log[c]),
              log[c][i] <= since'[c] \/ last = Len(log[c])
       PROVE  i \in logTold'[c] \cup unparsed'[c]
  <2>1. i \in 1..Len(log[c]) /\ log[c][i] \in Nat /\ since[c] \in Nat
    <3>1. i \in 1..Len(log[c])
      BY <1>4
    <3>2. log[c][i] \in 0..MaxTime
      BY <1>5, <3>1
    <3> QED BY <1>1, <1>4, <3>1, <3>2
  <2>2. CASE log[c][i] <= since[c]
    BY <1>7, <1>9, <1>11, <1>15, <2>2 DEF PassedIsTold
  <2>3. CASE log[c][i] > since[c]
    <3>1. i \in Newer(c)
      <4>1. Second(since[c]) * TicksPerSecond <= since[c] /\ Second(since[c]) * TicksPerSecond \in Nat
        BY <2>1, Seconds
      <4> QED BY <1>6, <2>1, <2>3, <4>1
    <3>2. i <= last
      <4>1. CASE last = Len(log[c])
        BY <2>1, <4>1
      <4>2. CASE log[c][i] <= since'[c] /\ last # Len(log[c])
        <5>1. PICK m \in read : since'[c] = log[c][m]
          BY <1>8, <2>1, <2>3, <4>2
        <5>2. m \in 1..Len(log[c]) /\ log[c][m] \in Nat /\ log[c][i] <= log[c][m]
          BY <1>1, <1>5, <1>6, <4>2, <5>1
        <5>3. m <= last
          BY <1>3, <4>2 DEF ReadChannel
        <5>4. ~(m < i)
          <6> SUFFICES ASSUME m < i PROVE FALSE
            OBVIOUS
          <6>1. m \in 1..i - 1
            BY <2>1, <5>2
          <6>2. log[c][m] < log[c][i]
            BY <1>11, <1>15, <6>1 DEF RecordsAscend
          <6> QED BY <2>1, <5>2, <6>2
        <5> QED BY <2>1, <5>2, <5>3, <5>4
      <4> QED BY <1>15, <4>1, <4>2
    <3> QED BY <1>7, <1>9, <3>1, <3>2
  <2> QED BY <2>1, <2>2, <2>3
<1>16. PassedIsTold(c)'
  BY <1>2, <1>15 DEF PassedIsTold
<1>17. LastReadIsTold(c)'
  <2>1. CASE last = Len(log[c])
    BY <1>2, <1>9, <1>15, <2>1 DEF LastReadIsTold
  <2>2. CASE last # Len(log[c])
    BY <1>2, <1>7, <1>9, <1>11, <2>2 DEF LastReadIsTold
  <2> QED BY <2>1, <2>2
<1>18. ASSUME NEW d \in Channels, d # c
       PROVE  (LogBounds(d) /\ CursorIsAhead(d) /\ RecordsAscend(d) /\ PassedIsTold(d)
               /\ LastReadIsTold(d))'
  <2>1. logTold'[d] = logTold[d] /\ since'[d] = since[d] /\ logRead'[d] = logRead[d]
        /\ unparsed'[d] = unparsed[d]
    BY <1>7, <1>9, <1>18
  <2> QED BY <1>2, <2>1 DEF LogInv, LogBounds, CursorIsAhead, RecordsAscend, PassedIsTold,
                            LastReadIsTold
<1> QED BY <1>10, <1>12, <1>13, <1>14, <1>16, <1>17, <1>18 DEF LogInv

(* LogInv is inductive. *)
LEMMA LogInvariance == LogSpec => []LogInv
<1>1. LogInv /\ [LogNext]_logVars => LogInv'
  <2> SUFFICES ASSUME LogInv, [LogNext]_logVars PROVE LogInv'
    OBVIOUS
  <2>1. CASE Clock
    <3>1. LogTypes'
      BY <2>1, LogMonitorAssumption DEF Clock, LogInv, LogTypes, logMonitorVars
    <3> QED BY <2>1, <3>1, ChannelsKeep DEF Clock, logMonitorVars
  <2>2. CASE StopLog
    <3>1. LogTypes'
      BY <2>2 DEF StopLog, LogInv, LogTypes
    <3> QED BY <2>2, <3>1, ChannelsKeep DEF StopLog
  <2>3. CASE UNCHANGED logVars
    <3>1. LogTypes'
      BY <2>3 DEF logVars, logMonitorVars, LogInv, LogTypes
    <3> QED BY <2>3, <3>1, ChannelsKeep DEF logVars, logMonitorVars
  <2> QED BY <2>1, <2>2, <2>3, StartLogStep, PollChannelStep, WriteRecordStep DEF LogNext
<1> QED BY <1>1, LogInitially, PTL DEF LogSpec

(***************************************************************************)
(* Whatever the channels hold, for any clock and any number of failed and  *)
(* half-way queries and of starts: a full read leaves nothing untold that  *)
(* was written in order since the start, no history is replayed, and only  *)
(* records of the cursor's own second can be told again.                   *)
(***************************************************************************)
THEOREM ChannelsAreTold == LogSpec => []LogIsComplete
<1>1. LogInv => LogIsComplete
  <2> SUFFICES ASSUME LogInv, NEW c \in Channels
               PROVE  /\ inOrder[c] => first[c] + 1 .. logRead[c] \subseteq logTold[c] \cup unparsed[c]
                      /\ \A i \in logTold[c] : Second(log[c][i]) >= Second(startedAt)
                      /\ \A i \in Newer(c) \cap logTold[c] : Second(log[c][i]) = Second(since[c])
    BY DEF LogIsComplete
  <2>1. LogBounds(c) /\ CursorIsAhead(c) /\ LastReadIsTold(c) /\ LogTypes
    BY DEF LogInv
  <2>2. ASSUME NEW i \in Newer(c) \cap logTold[c] PROVE Second(log[c][i]) = Second(since[c])
    <3>1. log[c] \in Seq(0..MaxTime) /\ i \in 1..Len(log[c]) /\ since[c] \in Nat
      BY <2>1 DEF LogTypes, LogBounds
    <3>2. log[c][i] \in Nat /\ log[c][i] > Second(since[c]) * TicksPerSecond
          /\ log[c][i] <= since[c]
      <4>1. log[c][i] \in 0..MaxTime
        BY <3>1, ElementOfSeq
      <4> QED BY <2>1, <4>1 DEF Newer, CursorIsAhead
    <3>3. Second(log[c][i]) >= Second(since[c]) /\ Second(log[c][i]) <= Second(since[c])
          /\ Second(log[c][i]) \in Nat /\ Second(since[c]) \in Nat
      BY <3>1, <3>2, Seconds
    <3> QED BY <3>3
  <2> QED BY <2>1, <2>2 DEF CursorIsAhead, LastReadIsTold
<1> QED BY <1>1, LogInvariance, PTL
-----------------------------------------------------------------------------
(***************************************************************************)
(* The four monitors share no state: each behaves beside the others as it  *)
(* does alone.                                                             *)
(***************************************************************************)
LEMMA PartsOfMonitors ==
    Spec => ProcessSpec /\ NetworkSpec /\ PersistenceSpec /\ LogSpec
<1>1. Init => ProcessInit /\ NetworkInit /\ PersistenceInit /\ LogInit
  BY DEF Init
<1>2. [Next]_vars => /\ [ProcessNext]_processVars
                     /\ [NetworkNext]_networkVars
                     /\ [PersistenceNext]_persistenceVars
                     /\ [LogNext]_logVars
  BY DEF Next, vars
<1> QED BY <1>1, <1>2, PTL DEF Spec, ProcessSpec, NetworkSpec, PersistenceSpec, LogSpec

(* The types of the four monitors (TypeOK of each, in the whole). *)
THEOREM MonitorsTypesHold == Spec => []MonitorsTypeOK
<1>1. LivesInv /\ NetworkInv /\ PersistenceInv => ProcessTypeOK /\ NetworkTypeOK /\ PersistenceTypeOK
  BY DEF LivesInv, NetworkInv, PersistenceInv
<1>2. LogInv => LogTypeOK
  <2> SUFFICES ASSUME LogInv PROVE LogTypeOK
    OBVIOUS
  <2>1. LogTypes /\ MaxTime \in Nat /\ MaxRecords \in Nat
    BY LogMonitorAssumption DEF LogInv
  <2>2. ASSUME NEW c \in Channels
        PROVE  /\ first[c] \in 0..MaxRecords /\ logRead[c] \in 0..MaxRecords
               /\ logTold[c] \cup unparsed[c] \subseteq DOMAIN log[c]
    <3>1. LogBounds(c) /\ log[c] \in Seq(0..MaxTime) /\ first[c] \in Nat /\ logRead[c] \in Nat
      BY <2>1 DEF LogInv, LogTypes
    <3>2. DOMAIN log[c] = 1..Len(log[c]) /\ Len(log[c]) \in Nat
      BY <3>1, LenProperties
    <3> QED BY <2>1, <3>1, <3>2 DEF LogBounds
  <2>3. {first, logRead} \subseteq [Channels -> 0..MaxRecords]
    BY <2>1, <2>2 DEF LogTypes
  <2>4. {now, startedAt} \subseteq 0..MaxTime
    BY <2>1 DEF LogTypes
  <2> QED BY <2>1, <2>2, <2>3, <2>4 DEF LogTypes, LogTypeOK
<1> QED BY <1>1, <1>2, PartsOfMonitors, LivesInvariance, NetworkInvariance, PersistenceInvariance,
           LogInvariance, PTL DEF MonitorsTypeOK

(***************************************************************************)
(* What is proved of each monitor, of the whole that the run checks.       *)
(***************************************************************************)
THEOREM MonitorsTellTheWorld ==
    Spec => [](LivesAreTold /\ ToldPerOpening /\ CleanStopKeepsAll /\ PersistenceIsTold
                 /\ LogIsComplete)
BY PartsOfMonitors, LivesAreReported, OneReportPerOpening, NothingLostOnStop, EntriesAreTold,
   ChannelsAreTold, PTL
=============================================================================
