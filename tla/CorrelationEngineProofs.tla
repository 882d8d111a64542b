------------------------ MODULE CorrelationEngineProofs ------------------------
(***************************************************************************)
(* What the matching of scenarios returns, for every scenario, every set   *)
(* of events and every map of processes.  Both loops are recursive         *)
(* functions; what they compute is proved from the least-number principle, *)
(* which the library has as a fact about sets.                             *)
(***************************************************************************)
EXTENDS MCCorrelationEngine, FiniteSetTheorems, WellFoundedInduction, TLAPS

(* A nonempty set of naturals has a least element. *)
LEMMA LeastNatural ==
    ASSUME NEW S \in SUBSET Nat, S # {}
    PROVE  \E m \in S : \A n \in S : m <= n
<1> DEFINE R == OpToRel(<, Nat)
<1>1. IsWellFoundedOn(R, Nat)
  BY NatLessThanWellFounded
<1>2. \A m, n \in S : n < m => <<n, m>> \in R
  BY DEF OpToRel
<1> HIDE DEF R
<1>3. PICK m \in S : \A n \in S : ~(<<n, m>> \in R)
  BY <1>1, WFMin
<1>4. \A n \in S : ~(n < m)
  BY <1>2, <1>3, Zenon
<1>5. m \in Nat /\ \A n \in S : n \in Nat
  OBVIOUS
<1> QED BY <1>4, <1>5

(* What holds at 0 and goes on to the next number holds up to N. *)
LEMMA UpTo ==
    ASSUME NEW N \in Nat, NEW S \in SUBSET Nat, 0 \in S,
           \A k \in S : k < N => k + 1 \in S
    PROVE  0..N \subseteq S
<1> SUFFICES ASSUME (0..N) \ S # {} PROVE FALSE
  OBVIOUS
<1> DEFINE B == (0..N) \ S
<1>1. PICK m \in B : \A n \in B : m <= n
  <2>1. B \in SUBSET Nat /\ B # {}
    OBVIOUS
  <2> HIDE DEF B
  <2> QED BY <2>1, LeastNatural
<1>2. m \in Nat /\ m # 0 /\ m - 1 \in 0..N /\ m - 1 < m
  OBVIOUS
<1>3. m - 1 \in S
  BY <1>1, <1>2
<1>4. m \in S
  BY <1>2, <1>3
<1> QED BY <1>4

\* A loop over 1..N with the body D, which maps states of S to states of S.
Body(N, S) == [S \X (1..N) -> S]

IsRun(g, N, S, c, D) ==
    g \in [0..N -> S] /\ g[0] = c /\ \A k \in 1..N : g[k] = D[<<g[k - 1], k>>]

(* Such a loop has a sequence of states. *)
LEMMA LoopRuns ==
    ASSUME NEW N \in Nat, NEW S, NEW c \in S, NEW D \in Body(N, S)
    PROVE  \E g : IsRun(g, N, S, c, D)
<1> USE DEF Body
<1> DEFINE Run(n, g) == /\ g \in [0..n -> S] /\ g[0] = c
                        /\ \A k \in 1..n : g[k] = D[<<g[k - 1], k>>]
           T == {n \in Nat : n <= N => \E g : Run(n, g)}
<1>1. 0 \in T
  <2>1. Run(0, [k \in 0..0 |-> c])
    OBVIOUS
  <2> QED BY <2>1
<1>2. ASSUME NEW n \in T, n < N PROVE n + 1 \in T
  <2>1. n \in Nat
    OBVIOUS
  <2>2. PICK g : Run(n, g)
    BY <1>2
  <2> DEFINE h == [k \in 0..(n + 1) |-> IF k <= n THEN g[k] ELSE D[<<g[n], n + 1>>]]
  <2>3. g[n] \in S /\ D[<<g[n], n + 1>>] \in S
    <3>1. g[n] \in S
      BY <2>1, <2>2
    <3> QED BY <2>1, <3>1, <1>2
  <2>4. h \in [0..(n + 1) -> S] /\ h[0] = c
    BY <2>1, <2>2, <2>3
  <2>5. ASSUME NEW k \in 1..(n + 1) PROVE h[k] = D[<<h[k - 1], k>>]
    <3>1. CASE k <= n
      BY <2>1, <2>2, <3>1
    <3>2. CASE k = n + 1
      <4>1. h[k] = D[<<g[n], n + 1>>]
        BY <2>1, <3>2
      <4>2. h[k - 1] = g[n]
        BY <2>1, <3>2
      <4> QED BY <3>2, <4>1, <4>2, Zenon
    <3> QED BY <2>1, <3>1, <3>2
  <2>6. Run(n + 1, h)
    BY <2>4, <2>5
  <2>7. \E f : Run(n + 1, f)
    <3> HIDE DEF Run, h
    <3> QED BY <2>6
  <2> HIDE DEF Run
  <2> QED BY <2>1, <2>7
<1>3. 0..N \subseteq T
  <2> HIDE DEF T
  <2>1. T \in SUBSET Nat
    BY DEF T
  <2> QED BY <1>1, <1>2, <2>1, UpTo
<1>4. N \in T
  <2> HIDE DEF T
  <2> QED BY <1>3
<1>5. \E g : Run(N, g)
  <2> HIDE DEF Run
  <2> QED BY <1>4
<1> QED BY <1>5 DEF IsRun
-----------------------------------------------------------------------------
(* A set of rows as the table has them: ids are unique. *)
IsLog(events) ==
    /\ \A e \in events : e.id \in Nat /\ e.ts \in Nat
    /\ \A e, f \in events : e.id = f.id => e = f

(* Among some rows there is an earliest one. *)
LEMMA EarliestIsFirst ==
    ASSUME NEW S, IsLog(S), S # {}
    PROVE  Earliest(S) \in S /\ \A f \in S : Earliest(S).ts <= f.ts
<1> USE DEF IsLog
<1> DEFINE Times == {e.ts : e \in S}
<1>1. PICK t \in Times : \A u \in Times : t <= u
  <2>1. Times \in SUBSET Nat /\ Times # {}
    OBVIOUS
  <2> HIDE DEF Times
  <2> QED BY <2>1, LeastNatural
<1> DEFINE Ids == {e.id : e \in {f \in S : f.ts = t}}
<1>2. PICK i \in Ids : \A j \in Ids : i <= j
  <2>1. Ids \in SUBSET Nat /\ Ids # {}
    OBVIOUS
  <2> HIDE DEF Ids
  <2> QED BY <2>1, LeastNatural
<1>3. PICK e \in S : e.ts = t /\ e.id = i
  BY <1>2
<1>4. \A f \in S \ {e} : Before(e, f)
  <2> SUFFICES ASSUME NEW f \in S \ {e} PROVE Before(e, f)
    OBVIOUS
  <2>1. f.ts \in Times /\ e.ts <= f.ts
    BY <1>1, <1>3
  <2>2. CASE f.ts = e.ts
    <3>1. f.id \in Ids
      BY <2>2, <1>3
    <3>2. e.id <= f.id /\ e.id # f.id
      BY <3>1, <1>2, <1>3
    <3> QED BY <2>2, <3>2 DEF Before
  <2> QED BY <2>1, <2>2 DEF Before
<1>5. Earliest(S) \in S /\ \A f \in S \ {Earliest(S)} : Before(Earliest(S), f)
  BY <1>4 DEF Earliest
<1> QED BY <1>5 DEF Before
-----------------------------------------------------------------------------
(* What the loop over the steps holds. *)
Roots(events) == {NoPid} \cup {e.pid : e \in events}

Held(events) == [found : BOOLEAN, chain : Seq(events), root : Roots(events)]

Begun == [found |-> TRUE, chain |-> <<>>, root |-> NoPid]

\* A search is over some steps and rows with unique ids.
Searchable(scenario, events) ==
    IsLog(events) /\ \E T : scenario.steps \in Seq(T)

(* The candidates for a step are rows that no earlier step has taken. *)
LEMMA CandidatesAreRows ==
    ASSUME NEW events, IsLog(events), NEW m, NEW step, NEW parents,
           NEW S, S = Candidates(m, step, events, parents), S # {}
    PROVE  /\ Earliest(S) \in events
           /\ Earliest(S).id \notin ChainIds(m.chain)
           /\ m.chain # <<>> => Earliest(S).ts >= m.chain[Len(m.chain)].ts
           /\ StepMatches(step, Earliest(S), m.root, parents)
           /\ \A f \in S : Earliest(S).ts <= f.ts
<1>1. S \subseteq events
  BY DEF Candidates
<1>2. IsLog(S)
  BY <1>1 DEF IsLog
<1>3. Earliest(S) \in S /\ \A f \in S : Earliest(S).ts <= f.ts
  BY <1>2, EarliestIsFirst
<1> QED BY <1>3 DEF Candidates

(* A step that finds no candidate gives up; another extends the chain. *)
LEMMA TakeStepIs ==
    ASSUME NEW events, IsLog(events), NEW m \in Held(events), NEW step, NEW parents,
           NEW S, S = Candidates(m, step, events, parents),
           NEW after, after = TakeStep(m, step, events, parents)
    PROVE  /\ after \in Held(events)
           /\ ~m.found \/ S = {} => ~after.found
           /\ m.found /\ S # {} =>
                  /\ after.found
                  /\ after.chain = Append(m.chain, Earliest(S))
                  /\ after.root = IF step.lineage /\ m.root = NoPid
                                    THEN Earliest(S).pid ELSE m.root
<1>1. CASE ~m.found \/ S = {}
  <2>1. after = [m EXCEPT !.found = FALSE]
    BY <1>1 DEF TakeStep
  <2> QED BY <1>1, <2>1 DEF Held
<1>2. CASE m.found /\ S # {}
  <2>1. after = [found |-> TRUE, chain |-> Append(m.chain, Earliest(S)),
                 root |-> IF step.lineage /\ m.root = NoPid THEN Earliest(S).pid ELSE m.root]
    BY <1>2 DEF TakeStep
  <2>2. Earliest(S) \in events
    BY <1>2, CandidatesAreRows
  <2>3. Append(m.chain, Earliest(S)) \in Seq(events) /\ m.root \in Roots(events)
    BY <2>2 DEF Held
  <2>4. Earliest(S).pid \in Roots(events)
    BY <2>2 DEF Roots
  <2> QED BY <1>2, <2>1, <2>3, <2>4 DEF Held
<1> QED BY <1>1, <1>2

(* Search is the sequence of what the loop holds. *)
LEMMA SearchRuns ==
    ASSUME NEW scenario, NEW events, Searchable(scenario, events), NEW parents,
           NEW n, n = Len(scenario.steps),
           NEW g, g = Search(scenario, events, parents)
    PROVE  /\ n \in Nat
           /\ g[0] = Begun
           /\ \A k \in 0..n : g[k] \in Held(events)
           /\ \A k \in 1..n : g[k] = TakeStep(g[k - 1], scenario.steps[k], events, parents)
<1> DEFINE H == Held(events)
           D == [sk \in H \X (1..n) |-> TakeStep(sk[1], scenario.steps[sk[2]], events, parents)]
<1>1. n \in Nat /\ IsLog(events)
  BY DEF Searchable
<1>2. Begun \in H
  <2>1. <<>> \in Seq(events)
    OBVIOUS
  <2>2. NoPid \in Roots(events)
    BY DEF Roots
  <2> QED BY <2>1, <2>2 DEF Begun, Held
<1>3. \A m \in H, k \in 1..n : TakeStep(m, scenario.steps[k], events, parents) \in H
  BY <1>1, TakeStepIs
<1>11. D \in Body(n, H)
  <2> HIDE DEF H
  <2> QED BY <1>3 DEF Body
<1>4. \A m \in H, k \in 1..n : D[<<m, k>>] = TakeStep(m, scenario.steps[k], events, parents)
  <2> HIDE DEF H
  <2> QED OBVIOUS
<1>12. PICK h : IsRun(h, n, H, Begun, D)
  <2> HIDE DEF H, D
  <2> QED BY <1>1, <1>2, <1>11, LoopRuns
<1>5. h \in [0..n -> H] /\ h[0] = Begun /\ \A k \in 1..n : h[k] = D[<<h[k - 1], k>>]
  BY <1>12 DEF IsRun
<1>6. ASSUME NEW k \in 0..n
      PROVE  h[k] = IF k = 0 THEN Begun
                    ELSE TakeStep(h[k - 1], scenario.steps[k], events, parents)
  <2> HIDE DEF H, D
  <2>1. CASE k = 0
    BY <1>5, <2>1
  <2>2. CASE k # 0
    <3>1. k \in 1..n /\ k - 1 \in 0..n
      BY <1>1, <2>2
    <3>2. h[k - 1] \in H
      BY <1>5, <3>1
    <3> QED BY <1>4, <1>5, <2>2, <3>1, <3>2
  <2> QED BY <2>1, <2>2
<1>7. h = [k \in 0..n |-> IF k = 0 THEN Begun
                          ELSE TakeStep(h[k - 1], scenario.steps[k], events, parents)]
  <2> HIDE DEF H, D
  <2> QED BY <1>5, <1>6
<1>8. g = [k \in 0..n |-> IF k = 0 THEN Begun
                          ELSE TakeStep(g[k - 1], scenario.steps[k], events, parents)]
  BY <1>7, Zenon DEF Search, Begun
<1>9. g[0] = Begun /\ \A k \in 1..n :
          g[k] = TakeStep(g[k - 1], scenario.steps[k], events, parents)
  BY <1>1, <1>8
<1>10. \A k \in 0..n : g[k] \in H
  <2> DEFINE T == {k \in Nat : g[k] \in H}
  <2>1. 0 \in T
    BY <1>2, <1>9
  <2>2. ASSUME NEW k \in T, k < n PROVE k + 1 \in T
    <3>1. k \in Nat /\ k + 1 \in 1..n /\ (k + 1) - 1 = k /\ g[k] \in H
      BY <1>1, <2>2
    <3>2. g[k + 1] = TakeStep(g[k], scenario.steps[k + 1], events, parents)
      BY <1>9, <3>1
    <3> QED BY <1>3, <3>1, <3>2
  <2>3. T \in SUBSET Nat
    OBVIOUS
  <2>4. 0..n \subseteq T
    <3> HIDE DEF T
    <3> QED BY <1>1, <2>1, <2>2, <2>3, UpTo
  <2> QED BY <2>4
<1> QED BY <1>1, <1>9, <1>10
-----------------------------------------------------------------------------
(* The walk to the parents is the sequence that its name says. *)
LEMMA ForebearRuns ==
    ASSUME NEW pid, NEW parents, NEW up, up = Forebear(pid, parents)
    PROVE  /\ up[0] = pid
           /\ \A k \in 1..(MaxAncestryDepth - 1) : up[k] = ParentOf(up[k - 1], parents)
<1> DEFINE n == MaxAncestryDepth - 1
           S == {pid, NoPid} \cup {parents[p] : p \in DOMAIN parents}
           D == [sk \in S \X (1..n) |-> ParentOf(sk[1], parents)]
<1>1. n \in Nat /\ pid \in S
  BY CorrelationEngineAssumption
<1>2. \A p : ParentOf(p, parents) \in S
  BY DEF ParentOf
<1>3. D \in Body(n, S) /\ \A p \in S, k \in 1..n : D[<<p, k>>] = ParentOf(p, parents)
  <2> HIDE DEF S, n
  <2> QED BY <1>2 DEF Body
<1>4. PICK h : IsRun(h, n, S, pid, D)
  <2> HIDE DEF S, n, D
  <2> QED BY <1>1, <1>3, LoopRuns
<1>5. h = [k \in 0..n |-> IF k = 0 THEN pid ELSE ParentOf(h[k - 1], parents)]
  <2> HIDE DEF S, n, D
  <2>1. h \in [0..n -> S] /\ h[0] = pid
    BY <1>4 DEF IsRun
  <2>2. ASSUME NEW k \in 0..n, k # 0 PROVE h[k] = ParentOf(h[k - 1], parents)
    <3>1. k \in 1..n /\ k - 1 \in 0..n
      BY <1>1, <2>2
    <3>2. h[k] = D[<<h[k - 1], k>>] /\ h[k - 1] \in S
      BY <1>4, <2>1, <3>1 DEF IsRun
    <3> QED BY <1>3, <3>1, <3>2
  <2> QED BY <2>1, <2>2
<1>6. up = [k \in 0..n |-> IF k = 0 THEN pid ELSE ParentOf(up[k - 1], parents)]
  BY <1>5, Zenon DEF Forebear
<1> QED BY <1>1, <1>6

(* A descendant reaches its forebear through the parents alone. *)
LEMMA DescendantReaches ==
    ASSUME NEW pid, NEW root, root # NoPid, NEW parents, NoPid \notin DOMAIN parents,
           IsDescendant(pid, root, parents)
    PROVE  Reaches(pid, root, parents)
<1> DEFINE up == Forebear(pid, parents)
<1>1. PICK n \in 0..(MaxAncestryDepth - 1) : up[n] = root
  BY DEF IsDescendant
<1>2. n \in Nat /\ up[0] = pid /\ \A k \in 1..n : up[k] = ParentOf(up[k - 1], parents)
  <2> HIDE DEF up
  <2>1. \A k \in 1..n : k \in 1..(MaxAncestryDepth - 1)
    BY CorrelationEngineAssumption
  <2>2. up[0] = pid /\ \A k \in 1..(MaxAncestryDepth - 1) : up[k] = ParentOf(up[k - 1], parents)
    BY ForebearRuns DEF up
  <2> QED BY <2>1, <2>2, CorrelationEngineAssumption
<1> HIDE DEF up
<1>3. ASSUME NEW k \in 1..n, up[k - 1] \notin DOMAIN parents PROVE FALSE
  <2> DEFINE T == {i \in Nat : k + i <= n => up[k + i] = NoPid}
  <2>1. 0 \in T
    BY <1>2, <1>3 DEF ParentOf
  <2>2. ASSUME NEW i \in T, i < n - k PROVE i + 1 \in T
    <3>1. i \in Nat /\ k + i <= n /\ k + (i + 1) \in 1..n /\ (k + (i + 1)) - 1 = k + i
      BY <1>2, <2>2
    <3>2. up[k + i] = NoPid
      BY <3>1
    <3>3. up[k + (i + 1)] = ParentOf(NoPid, parents)
      BY <1>2, <3>1, <3>2
    <3>4. up[k + (i + 1)] = NoPid
      BY <3>3 DEF ParentOf
    <3> QED BY <3>1, <3>4
  <2>3. T \in SUBSET Nat /\ n - k \in Nat
    BY <1>2
  <2>4. n - k \in T
    <3>1. 0..(n - k) \subseteq T
      <4> HIDE DEF T
      <4> QED BY <2>1, <2>2, <2>3, UpTo
    <3> HIDE DEF T
    <3> QED BY <2>3, <3>1
  <2>5. up[n] = NoPid
    BY <1>2, <2>3, <2>4
  <2> QED BY <1>1, <2>5
<1>4. \A k \in 1..n : up[k] = parents[up[k - 1]]
  BY <1>2, <1>3 DEF ParentOf
<1> DEFINE Known == DOMAIN parents \cup {pid, root}
           path == [k \in 0..n |-> up[k]]
<1>5. path \in [0..n -> Known]
  <2> SUFFICES ASSUME NEW k \in 0..n PROVE up[k] \in Known
    OBVIOUS
  <2>1. CASE k = n
    BY <1>1, <2>1
  <2>2. CASE k # n
    <3>1. k + 1 \in 1..n /\ (k + 1) - 1 = k
      BY <1>2, <2>2
    <3> QED BY <1>3, <3>1
  <2> QED BY <2>1, <2>2
<1>6. path[0] = pid /\ path[n] = root
  BY <1>1, <1>2
<1>7. \A k \in 1..n : path[k - 1] \in DOMAIN parents /\ parents[path[k - 1]] = path[k]
  <2> SUFFICES ASSUME NEW k \in 1..n
               PROVE  path[k - 1] \in DOMAIN parents /\ parents[path[k - 1]] = path[k]
    OBVIOUS
  <2>1. k \in 0..n /\ k - 1 \in 0..n
    BY <1>2
  <2> QED BY <1>3, <1>4, <2>1
<1> HIDE DEF path, Known
<1>8. \E p \in [0..n -> Known] : /\ p[0] = pid /\ p[n] = root
                                 /\ \A k \in 1..n : p[k - 1] \in DOMAIN parents
                                                    /\ parents[p[k - 1]] = p[k]
  BY <1>5, <1>6, <1>7
<1> QED BY <1>8 DEF Reaches, Known
-----------------------------------------------------------------------------
\* What the first k steps have found, while each has found something.
Ordered(chain, k) ==
    \A i, j \in 1..k : i < j => chain[i].id # chain[j].id /\ chain[i].ts <= chain[j].ts

Anchored(m, k, steps, parents) ==
    /\ \A i \in 1..k : steps[i].lineage =>
           /\ m.chain[i].pid # NoPid /\ m.root # NoPid
           /\ IsDescendant(m.chain[i].pid, m.root, parents)
    /\ m.root # NoPid => \E a \in 1..k :
           /\ steps[a].lineage /\ m.root = m.chain[a].pid
           /\ \A j \in 1..(a - 1) : ~steps[j].lineage

PartialChain(m, k, steps, parents) ==
    /\ Len(m.chain) = k
    /\ \A i \in 1..k : m.chain[i].kind \in steps[i].kinds
    /\ Ordered(m.chain, k)
    /\ Anchored(m, k, steps, parents)

(* A step keeps what the steps before it have found. *)
LEMMA StepKeepsChain ==
    ASSUME NEW events, IsLog(events), NEW m \in Held(events), NEW k \in Nat, NEW steps,
           NEW parents, m.found => PartialChain(m, k, steps, parents),
           NEW after, after = TakeStep(m, steps[k + 1], events, parents), after.found
    PROVE  PartialChain(after, k + 1, steps, parents)
<1> DEFINE step == steps[k + 1]
           S == Candidates(m, step, events, parents)
           e == Earliest(S)
<1>1. after \in Held(events) /\ m.found /\ S # {}
  BY TakeStepIs
<1>2. /\ after.chain = Append(m.chain, e)
      /\ after.root = IF step.lineage /\ m.root = NoPid THEN e.pid ELSE m.root
  BY <1>1, TakeStepIs
<1>3. PartialChain(m, k, steps, parents) /\ m.chain \in Seq(events) /\ Len(m.chain) = k
  BY <1>1 DEF PartialChain, Held
<1>4. /\ e \in events /\ e.id \notin ChainIds(m.chain)
      /\ m.chain # <<>> => e.ts >= m.chain[Len(m.chain)].ts
      /\ StepMatches(step, e, m.root, parents)
  BY <1>1, CandidatesAreRows
<1> HIDE DEF e, S
<1>5. /\ Len(after.chain) = k + 1 /\ after.chain[k + 1] = e
      /\ \A i \in 1..k : after.chain[i] = m.chain[i] /\ m.chain[i] \in events
  BY <1>2, <1>3, <1>4
<1>6. \A i \in 1..(k + 1) : after.chain[i].kind \in steps[i].kinds
  BY <1>3, <1>4, <1>5 DEF PartialChain, StepMatches
<1>7. Ordered(after.chain, k + 1)
  <2> SUFFICES ASSUME NEW i \in 1..(k + 1), NEW j \in 1..(k + 1), i < j
               PROVE  /\ after.chain[i].id # after.chain[j].id
                      /\ after.chain[i].ts <= after.chain[j].ts
    BY DEF Ordered
  <2>1. CASE j <= k
    <3>1. i \in 1..k /\ j \in 1..k
      BY <2>1
    <3>2. after.chain[i] = m.chain[i] /\ after.chain[j] = m.chain[j]
      BY <1>5, <3>1
    <3>3. Ordered(m.chain, k)
      BY <1>3 DEF PartialChain
    <3>4. m.chain[i].id # m.chain[j].id /\ m.chain[i].ts <= m.chain[j].ts
      BY <3>1, <3>3 DEF Ordered
    <3> QED BY <3>2, <3>4
  <2>2. CASE j = k + 1
    <3>1. i \in 1..k /\ k \in 1..k /\ m.chain # <<>>
      BY <1>3, <2>2
    <3>2. m.chain[i].id \in ChainIds(m.chain)
      BY <1>3, <3>1 DEF ChainIds
    <3>3. m.chain[i].ts <= m.chain[k].ts
      BY <1>3, <1>5, <3>1 DEF PartialChain, Ordered, IsLog
    <3>4. m.chain[i].ts \in Nat /\ m.chain[k].ts \in Nat /\ e.ts \in Nat
      BY <1>4, <1>5, <3>1 DEF IsLog
    <3>5. after.chain[i] = m.chain[i] /\ after.chain[j] = e
      BY <1>5, <2>2, <3>1
    <3>6. m.chain[k].ts <= e.ts
      BY <1>3, <1>4, <3>1, <3>4
    <3> QED BY <1>4, <3>2, <3>3, <3>4, <3>5, <3>6
  <2> QED BY <2>1, <2>2
<1>8. Anchored(after, k + 1, steps, parents)
  <2>1. Anchored(m, k, steps, parents)
    BY <1>3 DEF PartialChain
  <2>2. step.lineage => e.pid # NoPid /\ (m.root = NoPid \/ IsDescendant(e.pid, m.root, parents))
    BY <1>4 DEF StepMatches
  <2>3. IsDescendant(e.pid, e.pid, parents)
    BY ForebearRuns, CorrelationEngineAssumption DEF IsDescendant
  <2>4. CASE step.lineage /\ m.root = NoPid
    <3>1. after.root = e.pid /\ \A i \in 1..k : ~steps[i].lineage
      BY <1>2, <2>1, <2>4 DEF Anchored
    <3>2. \A i \in 1..(k + 1) : steps[i].lineage => i = k + 1
      BY <3>1
    <3>3. k + 1 \in 1..(k + 1) /\ \A j \in 1..((k + 1) - 1) : ~steps[j].lineage
      BY <3>1
    <3> QED BY <1>5, <2>2, <2>3, <2>4, <3>1, <3>2, <3>3 DEF Anchored
  <2>5. CASE ~(step.lineage /\ m.root = NoPid)
    <3>1. after.root = m.root
      BY <1>2, <2>5
    <3>2. ASSUME NEW i \in 1..(k + 1), steps[i].lineage
          PROVE  /\ after.chain[i].pid # NoPid /\ after.root # NoPid
                 /\ IsDescendant(after.chain[i].pid, after.root, parents)
      <4>1. CASE i = k + 1
        BY <1>5, <2>2, <2>5, <3>1, <3>2, <4>1
      <4>2. CASE i \in 1..k
        BY <1>5, <2>1, <3>1, <3>2, <4>2 DEF Anchored
      <4> QED BY <4>1, <4>2
    <3>3. ASSUME after.root # NoPid
          PROVE  \E a \in 1..(k + 1) : /\ steps[a].lineage /\ after.root = after.chain[a].pid
                                       /\ \A j \in 1..(a - 1) : ~steps[j].lineage
      <4>1. PICK a \in 1..k : /\ steps[a].lineage /\ m.root = m.chain[a].pid
                              /\ \A j \in 1..(a - 1) : ~steps[j].lineage
        BY <2>1, <3>1, <3>3 DEF Anchored
      <4>2. a \in 1..(k + 1)
        OBVIOUS
      <4>3. after.root = after.chain[a].pid
        BY <1>5, <3>1, <4>1
      <4> QED BY <4>1, <4>2, <4>3
    <3> QED BY <3>2, <3>3 DEF Anchored
  <2> QED BY <2>4, <2>5
<1> QED BY <1>5, <1>6, <1>7, <1>8 DEF PartialChain

(* The loop over the steps holds a partial chain as long as all have found. *)
LEMMA SearchKeepsChain ==
    ASSUME NEW scenario, NEW events, Searchable(scenario, events), NEW parents,
           NEW n, n = Len(scenario.steps),
           NEW g, g = Search(scenario, events, parents), g[n].found
    PROVE  /\ PartialChain(g[n], n, scenario.steps, parents)
           /\ g[n] \in Held(events) /\ n \in Nat
<1>1. /\ n \in Nat /\ g[0] = Begun
      /\ \A k \in 0..n : g[k] \in Held(events)
      /\ \A k \in 1..n : g[k] = TakeStep(g[k - 1], scenario.steps[k], events, parents)
  BY SearchRuns
<1>2. IsLog(events)
  BY DEF Searchable
<1> DEFINE T == {k \in Nat : k <= n /\ g[k].found =>
                                 PartialChain(g[k], k, scenario.steps, parents)}
<1>3. 0 \in T
  BY <1>1 DEF Begun, PartialChain, Ordered, Anchored
<1>4. ASSUME NEW k \in T, k < n PROVE k + 1 \in T
  <2>1. /\ k \in Nat /\ k \in 0..n /\ k + 1 \in 1..n /\ (k + 1) - 1 = k
        /\ g[k].found => PartialChain(g[k], k, scenario.steps, parents)
    BY <1>1, <1>4
  <2>2. /\ g[k] \in Held(events)
        /\ g[k + 1] = TakeStep(g[k], scenario.steps[k + 1], events, parents)
    BY <1>1, <2>1
  <2>3. g[k + 1].found => PartialChain(g[k + 1], k + 1, scenario.steps, parents)
    BY <1>2, <2>1, <2>2, StepKeepsChain
  <2> QED BY <2>1, <2>3
<1>5. n \in T
  <2>1. T \in SUBSET Nat
    OBVIOUS
  <2>2. 0..n \subseteq T
    <3> HIDE DEF T
    <3> QED BY <1>1, <1>3, <1>4, <2>1, UpTo
  <2> HIDE DEF T
  <2> QED BY <1>1, <2>2
<1> QED BY <1>1, <1>5
-----------------------------------------------------------------------------
(* The anchor is the pid of the first event that a lineage step found. *)
LEMMA AnchorIs ==
    ASSUME NEW scenario, NEW chain, NEW n \in Nat, n = Len(scenario.steps),
           NEW a \in 1..n, scenario.steps[a].lineage,
           \A j \in 1..(a - 1) : ~scenario.steps[j].lineage
    PROVE  AnchorOf(scenario, chain) = chain[a].pid
<1> DEFINE L == {k \in 1..Len(scenario.steps) : scenario.steps[k].lineage}
           least == CHOOSE k \in L : \A j \in L : k <= j
<1>1. a \in L /\ \A j \in L : a <= j
  OBVIOUS
<1>2. L \subseteq Nat
  OBVIOUS
<1>3. least \in L /\ \A j \in L : least <= j
  <2> HIDE DEF L
  <2> QED BY <1>1
<1>4. least = a
  <2> HIDE DEF L, least
  <2>1. least <= a /\ a <= least /\ least \in Nat
    BY <1>1, <1>2, <1>3
  <2> QED BY <2>1
<1>5. L # {} /\ AnchorOf(scenario, chain) = chain[least].pid
  BY <1>1 DEF AnchorOf
<1> QED BY <1>4, <1>5

\* A scenario as rules_loader.py accepts it: one step at least.
IsScenario(scenario) ==
    \E T : scenario.steps \in Seq(T) /\ scenario.steps # <<>>

(***************************************************************************)
(* What _find_scenario_match returns is a chain of the scenario: distinct  *)
(* events in the order of time, of the kinds its steps ask for, within its *)
(* window, every lineage step a descendant of the first one's process.     *)
(***************************************************************************)
THEOREM MatchIsChain ==
    ASSUME NEW scenario, IsScenario(scenario), NEW events, IsLog(events),
           NEW parents, NoPid \notin DOMAIN parents,
           NEW chain, chain = FindScenarioMatch(scenario, events, parents), chain # <<>>
    PROVE  chain \in Seq(events) /\ IsChain(scenario, chain, events, parents)
<1> DEFINE n == Len(scenario.steps)
           g == Search(scenario, events, parents)
<1>1. Searchable(scenario, events) /\ n \in Nat /\ n # 0
  BY DEF IsScenario, Searchable
<1>2. g[n].found /\ chain = g[n].chain /\ chain[n].ts - chain[1].ts <= scenario.window
  BY DEF FindScenarioMatch
<1>3. PartialChain(g[n], n, scenario.steps, parents) /\ g[n] \in Held(events)
  BY <1>1, <1>2, SearchKeepsChain
<1> HIDE DEF g
<1>4. /\ Len(chain) = n /\ chain \in Seq(events) /\ Ordered(chain, n)
      /\ \A i \in 1..n : chain[i] \in events /\ chain[i].kind \in scenario.steps[i].kinds
  BY <1>2, <1>3 DEF PartialChain, Held
<1>5. ASSUME NEW i \in 1..n, scenario.steps[i].lineage
      PROVE  chain[i].pid # NoPid /\ Reaches(chain[i].pid, AnchorOf(scenario, chain), parents)
  <2>1. /\ chain[i].pid # NoPid /\ g[n].root # NoPid
        /\ IsDescendant(chain[i].pid, g[n].root, parents)
    BY <1>2, <1>3, <1>5 DEF PartialChain, Anchored
  <2>2. PICK a \in 1..n : /\ scenario.steps[a].lineage /\ g[n].root = chain[a].pid
                          /\ \A j \in 1..(a - 1) : ~scenario.steps[j].lineage
    BY <1>2, <1>3, <2>1 DEF PartialChain, Anchored
  <2>3. AnchorOf(scenario, chain) = g[n].root
    BY <1>1, <2>2, AnchorIs
  <2> QED BY <2>1, <2>3, DescendantReaches
<1> QED BY <1>2, <1>4, <1>5 DEF IsChain, Ordered
-----------------------------------------------------------------------------
(* What the loop over the scenarios holds. *)
AllScenarios(scenarios) ==
    /\ \E T : scenarios \in Seq(T)
    /\ \A k \in 1..Len(scenarios) : IsScenario(scenarios[k])

Reported(events) == [scenario : Nat, chain : Seq(events)]

\* Each is a chain of its scenario, and no two share an event.
SoundMatches(found, scenarios, events, parents) ==
    /\ \A i \in 1..Len(found) :
           /\ found[i].scenario \in 1..Len(scenarios) /\ found[i].chain # <<>>
           /\ IsChain(scenarios[found[i].scenario], found[i].chain, events, parents)
    /\ \A i, j \in 1..Len(found) :
           i # j => ChainIds(found[i].chain) \cap ChainIds(found[j].chain) = {}

(* The ids of a chain are those of its events. *)
LEMMA ChainIdsAre ==
    ASSUME NEW events, NEW chain \in Seq(events), NEW id \in ChainIds(chain)
    PROVE  \E e \in events : e.id = id
BY DEF ChainIds

(* One more match is a chain of events that no match before has taken. *)
LEMMA AddMatchIsSound ==
    ASSUME NEW scenarios, AllScenarios(scenarios), NEW k \in 1..Len(scenarios),
           NEW events, IsLog(events), NEW parents, NoPid \notin DOMAIN parents,
           NEW found \in Seq(Reported(events)),
           NEW after, after = AddMatch(found, k, scenarios[k], events, parents)
    PROVE  /\ after \in Seq(Reported(events))
           /\ SoundMatches(found, scenarios, events, parents) =>
                  SoundMatches(after, scenarios, events, parents)
<1> DEFINE rest == {e \in events : e.id \notin MatchedIds(found)}
           chain == FindScenarioMatch(scenarios[k], rest, parents)
<1>1. CASE chain = <<>>
  <2>1. after = found
    BY <1>1 DEF AddMatch
  <2> QED BY <2>1
<1>2. CASE chain # <<>>
  <2>1. after = Append(found, [scenario |-> k, chain |-> chain])
    BY <1>2 DEF AddMatch
  <2>2. IsLog(rest) /\ IsScenario(scenarios[k])
    BY DEF IsLog, AllScenarios
  <2>3. chain \in Seq(rest) /\ IsChain(scenarios[k], chain, rest, parents)
    <3> HIDE DEF rest
    <3> QED BY <1>2, <2>2, MatchIsChain
  <2>4. chain \in Seq(events)
    BY <2>3
  <2>5. IsChain(scenarios[k], chain, events, parents)
    <3>1. rest \subseteq events
      OBVIOUS
    <3> HIDE DEF chain, rest
    <3> QED BY <2>3, <3>1 DEF IsChain
  <2>6. \A id \in ChainIds(chain) : id \notin MatchedIds(found)
    <3>1. \A id \in ChainIds(chain) : \E e \in rest : e.id = id
      <4> HIDE DEF chain, rest
      <4> QED BY <2>3, ChainIdsAre
    <3> HIDE DEF chain
    <3> QED BY <3>1
  <2> HIDE DEF chain, rest
  <2>7. k \in Nat /\ [scenario |-> k, chain |-> chain] \in Reported(events)
    BY <2>4 DEF Reported
  <2>8. /\ after \in Seq(Reported(events)) /\ Len(after) = Len(found) + 1
        /\ after[Len(found) + 1] = [scenario |-> k, chain |-> chain]
        /\ \A i \in 1..Len(found) : after[i] = found[i]
    BY <2>1, <2>7
  <2>9. \A i \in 1..Len(found) : ChainIds(found[i].chain) \cap ChainIds(chain) = {}
    BY <2>6 DEF MatchedIds
  <2>10. ASSUME SoundMatches(found, scenarios, events, parents)
         PROVE  SoundMatches(after, scenarios, events, parents)
    <3>1. ASSUME NEW i \in 1..Len(after)
          PROVE  /\ after[i].scenario \in 1..Len(scenarios) /\ after[i].chain # <<>>
                 /\ IsChain(scenarios[after[i].scenario], after[i].chain, events, parents)
      <4>1. CASE i \in 1..Len(found)
        <5>1. after[i] = found[i]
          BY <2>8, <4>1
        <5> QED BY <2>10, <4>1, <5>1 DEF SoundMatches
      <4>2. CASE i = Len(found) + 1
        <5>1. after[i].scenario = k /\ after[i].chain = chain
          BY <2>8, <4>2
        <5> QED BY <1>2, <2>5, <5>1
      <4> QED BY <2>8, <4>1, <4>2
    <3>2. ASSUME NEW i \in 1..Len(after), NEW j \in 1..Len(after), i # j
          PROVE  ChainIds(after[i].chain) \cap ChainIds(after[j].chain) = {}
      <4>1. CASE i \in 1..Len(found) /\ j \in 1..Len(found)
        <5>1. after[i] = found[i] /\ after[j] = found[j]
          BY <2>8, <4>1
        <5> QED BY <2>10, <3>2, <4>1, <5>1 DEF SoundMatches
      <4>2. CASE i \in 1..Len(found) /\ j = Len(found) + 1
        <5>1. after[i] = found[i] /\ after[j].chain = chain
          BY <2>8, <4>2
        <5> QED BY <2>9, <4>2, <5>1
      <4>3. CASE i = Len(found) + 1 /\ j \in 1..Len(found)
        <5>1. after[j] = found[j] /\ after[i].chain = chain
          BY <2>8, <4>3
        <5> QED BY <2>9, <4>3, <5>1
      <4> QED BY <2>8, <3>2, <4>1, <4>2, <4>3
    <3> QED BY <3>1, <3>2 DEF SoundMatches
  <2> QED BY <2>8, <2>10
<1> QED BY <1>1, <1>2

(* Matched is the sequence of what that loop holds. *)
LEMMA MatchedRuns ==
    ASSUME NEW scenarios, AllScenarios(scenarios), NEW events, IsLog(events),
           NEW parents, NoPid \notin DOMAIN parents,
           NEW n, n = Len(scenarios), NEW g, g = Matched(scenarios, events, parents)
    PROVE  /\ n \in Nat /\ g[0] = <<>>
           /\ \A k \in 0..n : g[k] \in Seq(Reported(events))
           /\ \A k \in 1..n : g[k] = AddMatch(g[k - 1], k, scenarios[k], events, parents)
<1> DEFINE H == Seq(Reported(events))
           D == [sk \in H \X (1..n) |-> AddMatch(sk[1], sk[2], scenarios[sk[2]], events, parents)]
<1>1. n \in Nat
  BY DEF AllScenarios
<1>2. <<>> \in H
  OBVIOUS
<1>3. \A m \in H, k \in 1..n : AddMatch(m, k, scenarios[k], events, parents) \in H
  BY <1>1, AddMatchIsSound
<1>4. D \in Body(n, H)
  <2> HIDE DEF H
  <2> QED BY <1>3 DEF Body
<1>5. \A m \in H, k \in 1..n : D[<<m, k>>] = AddMatch(m, k, scenarios[k], events, parents)
  <2> HIDE DEF H
  <2> QED OBVIOUS
<1>6. PICK h : IsRun(h, n, H, <<>>, D)
  <2> HIDE DEF H, D
  <2> QED BY <1>1, <1>2, <1>4, LoopRuns
<1>7. h = [k \in 0..n |-> IF k = 0 THEN <<>>
                          ELSE AddMatch(h[k - 1], k, scenarios[k], events, parents)]
  <2> HIDE DEF H, D
  <2>1. h \in [0..n -> H] /\ h[0] = <<>>
    BY <1>6 DEF IsRun
  <2>2. ASSUME NEW k \in 0..n, k # 0
        PROVE  h[k] = AddMatch(h[k - 1], k, scenarios[k], events, parents)
    <3>1. k \in 1..n /\ k - 1 \in 0..n
      BY <1>1, <2>2
    <3>2. h[k] = D[<<h[k - 1], k>>] /\ h[k - 1] \in H
      BY <1>6, <2>1, <3>1 DEF IsRun
    <3> QED BY <1>5, <3>1, <3>2
  <2> QED BY <2>1, <2>2
<1>8. g = [k \in 0..n |-> IF k = 0 THEN <<>>
                          ELSE AddMatch(g[k - 1], k, scenarios[k], events, parents)]
  BY <1>7, Zenon DEF Matched
<1>9. g[0] = <<>> /\ \A k \in 1..n :
          g[k] = AddMatch(g[k - 1], k, scenarios[k], events, parents)
  BY <1>1, <1>8
<1>10. \A k \in 0..n : g[k] \in H
  <2> HIDE DEF H
  <2> DEFINE T == {k \in Nat : g[k] \in H}
  <2>1. 0 \in T
    BY <1>2, <1>9
  <2>2. ASSUME NEW k \in T, k < n PROVE k + 1 \in T
    <3>1. k \in Nat /\ k + 1 \in 1..n /\ (k + 1) - 1 = k /\ g[k] \in H
      BY <1>1, <2>2
    <3>2. g[k + 1] = AddMatch(g[k], k + 1, scenarios[k + 1], events, parents)
      BY <1>9, <3>1
    <3> QED BY <1>3, <3>1, <3>2
  <2>3. T \in SUBSET Nat
    OBVIOUS
  <2>4. 0..n \subseteq T
    <3> HIDE DEF T
    <3> QED BY <1>1, <2>1, <2>2, <2>3, UpTo
  <2> QED BY <2>4
<1> QED BY <1>1, <1>9, <1>10

(***************************************************************************)
(* What find_scenario_matches returns, for any scenarios, events and map   *)
(* of processes: chains of their scenarios among the events that are not   *)
(* used already, no event in two of them.                                  *)
(***************************************************************************)
THEOREM MatchesAreChainsOfTheRest ==
    ASSUME NEW scenarios, AllScenarios(scenarios), NEW events, IsLog(events), NEW already,
           NEW parents, NoPid \notin DOMAIN parents,
           NEW found, found = FindScenarioMatches(scenarios, events, already, parents)
    PROVE  /\ found \in Seq(Reported(events))
           /\ SoundMatches(found, scenarios, events, parents)
           /\ \A i \in 1..Len(found) : ChainIds(found[i].chain) \cap already = {}
<1> DEFINE rest == {e \in events : e.id \notin already}
           n == Len(scenarios)
           g == Matched(scenarios, rest, parents)
<1>1. IsLog(rest) /\ found = g[n] /\ rest \subseteq events
  BY DEF IsLog, FindScenarioMatches
<1>2. /\ n \in Nat /\ g[0] = <<>>
      /\ \A k \in 0..n : g[k] \in Seq(Reported(rest))
      /\ \A k \in 1..n : g[k] = AddMatch(g[k - 1], k, scenarios[k], rest, parents)
  <2> HIDE DEF rest
  <2> QED BY <1>1, MatchedRuns
<1> HIDE DEF g
<1> DEFINE T == {k \in Nat : k <= n => SoundMatches(g[k], scenarios, rest, parents)}
<1>3. 0 \in T
  BY <1>2 DEF SoundMatches
<1>4. ASSUME NEW k \in T, k < n PROVE k + 1 \in T
  <2>1. /\ k \in Nat /\ k \in 0..n /\ k + 1 \in 1..n /\ (k + 1) - 1 = k
        /\ SoundMatches(g[k], scenarios, rest, parents)
    BY <1>2, <1>4
  <2>2. g[k + 1] = AddMatch(g[k], k + 1, scenarios[k + 1], rest, parents)
    BY <1>2, <2>1
  <2>3. SoundMatches(g[k + 1], scenarios, rest, parents)
    <3> HIDE DEF rest
    <3> QED BY <1>1, <1>2, <2>1, <2>2, AddMatchIsSound
  <2> QED BY <2>1, <2>3
<1>5. SoundMatches(found, scenarios, rest, parents)
  <2>1. T \in SUBSET Nat
    OBVIOUS
  <2>2. 0..n \subseteq T
    <3> HIDE DEF T
    <3> QED BY <1>2, <1>3, <1>4, <2>1, UpTo
  <2>3. n \in T
    <3> HIDE DEF T
    <3> QED BY <1>2, <2>2
  <2> QED BY <1>1, <1>2, <2>3
<1>6. found \in Seq(Reported(rest))
  BY <1>1, <1>2
<1>7. found \in Seq(Reported(events))
  <2>1. Reported(rest) \subseteq Reported(events)
    BY <1>1 DEF Reported
  <2> HIDE DEF rest
  <2> QED BY <1>6, <2>1
<1>8. SoundMatches(found, scenarios, events, parents)
  <2> HIDE DEF rest
  <2>1. ASSUME NEW s, NEW c, IsChain(s, c, rest, parents) PROVE IsChain(s, c, events, parents)
    BY <1>1, <2>1 DEF IsChain
  <2> QED BY <1>5, <2>1 DEF SoundMatches
<1>9. ASSUME NEW i \in 1..Len(found) PROVE ChainIds(found[i].chain) \cap already = {}
  <2>1. found[i].chain \in Seq(rest)
    <3> HIDE DEF rest
    <3>1. found[i] \in Reported(rest)
      BY <1>6
    <3> QED BY <3>1 DEF Reported
  <2>2. \A id \in ChainIds(found[i].chain) : \E e \in rest : e.id = id
    <3> HIDE DEF rest
    <3> QED BY <2>1, ChainIdsAre
  <2> QED BY <2>2
<1> QED BY <1>7, <1>8, <1>9
-----------------------------------------------------------------------------
\* No step asks for lineage.
IsPlain(scenario) == \A k \in 1..Len(scenario.steps) : ~scenario.steps[k].lineage

\* No two rows at the same instant, none further from another than the window.
Apart(events) == \A e, f \in events : e.ts = f.ts => e = f
Fits(events, window) == \A e, f \in events : e.ts - f.ts <= window

\* n rows of the kinds the steps ask for, one after the other.
IsWay(c, n, steps, events) ==
    /\ \A i \in 1..n : c[i] \in events /\ c[i].kind \in steps[i].kinds
    /\ Ordered(c, n)

\* The search after k steps: no later than the way c.
IsEarly(m, k, steps, parents, c) ==
    m.found /\ PartialChain(m, k, steps, parents) /\ (k # 0 => m.chain[k].ts <= c[k].ts)

(* After k steps the search is no later than any chain that exists. *)
LEMMA GreedIsEarly ==
    ASSUME NEW events, IsLog(events), NEW n \in Nat, NEW steps, NEW parents,
           Apart(events), NEW c, IsWay(c, n, steps, events),
           NEW k \in Nat, k < n, ~steps[k + 1].lineage,
           NEW m \in Held(events), IsEarly(m, k, steps, parents, c),
           NEW after, after = TakeStep(m, steps[k + 1], events, parents)
    PROVE  IsEarly(after, k + 1, steps, parents, c)
<1> USE DEF Apart, IsWay, IsEarly
<1> DEFINE step == steps[k + 1]
           S == Candidates(m, step, events, parents)
           late == c[k + 1]
<1>1. /\ k + 1 \in 1..n /\ late \in events /\ late.kind \in step.kinds
      /\ m.chain \in Seq(events) /\ Len(m.chain) = k
      /\ \A i \in 1..k : m.chain[i] \in events
  BY DEF PartialChain, Held
<1>2. ASSUME NEW i \in 1..k PROVE m.chain[i].ts <= late.ts /\ m.chain[i].id # late.id
  <2>1. k \in 1..n /\ k \in 1..k /\ k < k + 1 /\ k + 1 \in 1..n
    OBVIOUS
  <2>2. /\ c[k] \in events /\ m.chain[k] \in events /\ m.chain[i] \in events
        /\ c[k].ts <= late.ts /\ c[k].id # late.id
    BY <1>1, <2>1 DEF Ordered
  <2>3. m.chain[i].ts <= m.chain[k].ts
    <3>1. CASE i = k
      BY <2>2, <3>1 DEF IsLog
    <3>2. CASE i < k
      BY <2>1, <3>2 DEF PartialChain, Ordered
    <3> QED BY <3>1, <3>2
  <2>4. c[k].ts # late.ts
    BY <1>1, <2>2
  <2>5. m.chain[i].ts < late.ts
    <3>1. /\ m.chain[i].ts \in Nat /\ m.chain[k].ts \in Nat /\ c[k].ts \in Nat /\ late.ts \in Nat
      BY <1>1, <2>2 DEF IsLog
    <3>2. k # 0
      OBVIOUS
    <3> HIDE DEF late
    <3> QED BY <2>2, <2>3, <2>4, <3>1, <3>2
  <2>6. m.chain[i].id = late.id => m.chain[i] = late
    BY <1>1, <2>2 DEF IsLog
  <2>7. m.chain[i].ts \in Nat /\ late.ts \in Nat
    BY <1>1, <2>2 DEF IsLog
  <2> HIDE DEF late
  <2> QED BY <2>5, <2>6, <2>7
<1>3. late \in S
  <2> HIDE DEF late
  <2>1. late.id \notin ChainIds(m.chain)
    BY <1>1, <1>2 DEF ChainIds
  <2>2. m.chain # <<>> => late.ts >= m.chain[Len(m.chain)].ts
    <3> SUFFICES ASSUME m.chain # <<>> PROVE late.ts >= m.chain[k].ts
      BY <1>1
    <3>1. k \in 1..k /\ m.chain[k] \in events
      BY <1>1
    <3>2. late.ts \in Nat /\ m.chain[k].ts \in Nat
      BY <1>1, <3>1 DEF IsLog
    <3> QED BY <1>2, <3>1, <3>2
  <2> QED BY <1>1, <2>1, <2>2 DEF Candidates, StepMatches
<1>4. after.found /\ after.chain = Append(m.chain, Earliest(S))
  BY <1>3, TakeStepIs
<1>5. Earliest(S).ts <= late.ts /\ Earliest(S) \in events
  BY <1>3, CandidatesAreRows
<1> HIDE DEF S, late
<1>6. after.chain[k + 1] = Earliest(S)
  BY <1>1, <1>4, <1>5
<1>7. PartialChain(after, k + 1, steps, parents)
  BY <1>4, StepKeepsChain
<1> QED BY <1>4, <1>5, <1>6, <1>7 DEF late

(***************************************************************************)
(* Where greed is enough: without lineage, over rows that no instant       *)
(* shares and that all fit in the window, _find_scenario_match finds a     *)
(* chain of the scenario whenever there is one.                            *)
(***************************************************************************)
THEOREM GreedFindsPlainChains ==
    ASSUME NEW scenario, IsScenario(scenario), IsPlain(scenario),
           NEW events, IsLog(events), Apart(events), Fits(events, scenario.window),
           NEW parents, NEW c, IsChain(scenario, c, events, parents)
    PROVE  FindScenarioMatch(scenario, events, parents) # <<>>
<1> DEFINE n == Len(scenario.steps)
           g == Search(scenario, events, parents)
<1>1. /\ Searchable(scenario, events) /\ n \in Nat /\ n # 0 /\ n = Len(scenario.steps)
      /\ g = Search(scenario, events, parents)
  BY DEF IsScenario, Searchable
<1> HIDE DEF g, n
<1>2. /\ g[0] = Begun
      /\ \A k \in 0..n : g[k] \in Held(events)
      /\ \A k \in 1..n : g[k] = TakeStep(g[k - 1], scenario.steps[k], events, parents)
  BY <1>1, SearchRuns
<1>3. IsWay(c, n, scenario.steps, events)
  BY <1>1 DEF IsChain, Ordered, IsWay
<1> DEFINE T == {k \in Nat : k <= n => IsEarly(g[k], k, scenario.steps, parents, c)}
<1>4. 0 \in T
  BY <1>2 DEF IsEarly, Begun, PartialChain, Ordered, Anchored
<1>5. ASSUME NEW k \in T, k < n PROVE k + 1 \in T
  <2>1. /\ k \in Nat /\ k \in 0..n /\ k + 1 \in 1..n /\ (k + 1) - 1 = k
        /\ IsEarly(g[k], k, scenario.steps, parents, c)
    BY <1>1, <1>5
  <2>2. /\ g[k] \in Held(events) /\ ~scenario.steps[k + 1].lineage
        /\ g[k + 1] = TakeStep(g[k], scenario.steps[k + 1], events, parents)
    BY <1>1, <1>2, <2>1 DEF IsPlain
  <2>3. IsEarly(g[k + 1], k + 1, scenario.steps, parents, c)
    <3> HIDE DEF T
    <3> QED BY <1>1, <1>3, <1>5, <2>1, <2>2, GreedIsEarly
  <2> QED BY <2>1, <2>3
<1>6. IsEarly(g[n], n, scenario.steps, parents, c)
  <2>1. T \in SUBSET Nat
    OBVIOUS
  <2>2. 0..n \subseteq T
    <3> HIDE DEF T
    <3> QED BY <1>1, <1>4, <1>5, <2>1, UpTo
  <2>3. n \in T
    <3> HIDE DEF T
    <3> QED BY <1>1, <2>2
  <2> QED BY <1>1, <2>3
<1>7. g[n].found /\ g[n].chain \in Seq(events) /\ Len(g[n].chain) = n
  BY <1>1, <1>2, <1>6 DEF IsEarly, PartialChain, Held
<1>8. g[n].chain[n].ts - g[n].chain[1].ts <= scenario.window
  <2>1. g[n].chain[n] \in events /\ g[n].chain[1] \in events
    BY <1>1, <1>7
  <2> QED BY <2>1 DEF Fits
<1>9. FindScenarioMatch(scenario, events, parents) = g[n].chain
  BY <1>1, <1>7, <1>8 DEF FindScenarioMatch
<1> QED BY <1>1, <1>7, <1>9
-----------------------------------------------------------------------------
\* A log as rows are inserted, and a map of processes as the monitor keeps one.
LogOK ==
    /\ IsLog(log) /\ IsFiniteSet(log)
    /\ \A e \in log : e.id <= Cardinality(log) /\ e.ts <= MaxTs
    /\ NoPid \notin DOMAIN ancestry

(* Every inserted row has an id of its own. *)
LEMMA LogIsOK == LogSpec => []LogOK
<1>1. LogInit => LogOK
  <2> SUFFICES ASSUME LogInit PROVE LogOK
    OBVIOUS
  <2>1. IsLog(log) /\ IsFiniteSet(log) /\ \A e \in log : FALSE
    BY FS_EmptySet DEF LogInit, IsLog
  <2>2. NoPid \notin DOMAIN ancestry
    BY LogAssumption DEF LogInit, Ancestries
  <2> QED BY <2>1, <2>2 DEF LogOK
<1>2. LogOK /\ [Insert]_<<log, ancestry>> => LogOK'
  <2> SUFFICES ASSUME LogOK, [Insert]_<<log, ancestry>> PROVE LogOK'
    OBVIOUS
  <2>1. CASE UNCHANGED <<log, ancestry>>
    BY <2>1 DEF LogOK, IsLog
  <2>2. CASE Insert
    <3> DEFINE id == Cardinality(log) + 1
    <3>1. PICK e \in Events, ts \in 0..MaxTs :
              log' = log \cup {[id |-> id, kind |-> e.kind, pid |-> e.pid, ts |-> ts]}
      BY <2>2 DEF Insert
    <3> DEFINE row == [id |-> id, kind |-> e.kind, pid |-> e.pid, ts |-> ts]
    <3>2. Cardinality(log) \in Nat /\ IsFiniteSet(log)
      BY FS_CardinalityType DEF LogOK
    <3>3. row.id = id /\ row.ts = ts /\ row \notin log
      BY <3>2 DEF LogOK, IsLog
    <3>4. IsFiniteSet(log \cup {row}) /\ Cardinality(log \cup {row}) = Cardinality(log) + 1
      <4> HIDE DEF row
      <4> QED BY <3>2, <3>3, FS_AddElement
    <3> HIDE DEF row
    <3>5. log' = log \cup {row}
      BY <3>1 DEF row
    <3>6. ts \in Nat /\ ts <= MaxTs
      BY LogAssumption
    <3>7. \A f \in log' : f.id <= Cardinality(log') /\ f.ts <= MaxTs
      <4> SUFFICES ASSUME NEW f \in log' PROVE f.id <= Cardinality(log') /\ f.ts <= MaxTs
        OBVIOUS
      <4>1. Cardinality(log') = Cardinality(log) + 1
        BY <3>4, <3>5, Zenon
      <4>2. CASE f \in log
        <5>1. f.id \in Nat /\ f.id <= Cardinality(log) /\ f.ts <= MaxTs
          BY <4>2 DEF LogOK, IsLog
        <5> QED BY <3>2, <4>1, <5>1
      <4>3. CASE f = row
        BY <3>2, <3>3, <3>6, <4>1, <4>3
      <4> QED BY <3>5, <4>2, <4>3
    <3>8. IsLog(log')
      <4>1. \A f \in log : f.id \in Nat /\ f.ts \in Nat /\ f.id # row.id
        BY <3>2, <3>3 DEF LogOK, IsLog
      <4>2. row.id \in Nat /\ row.ts \in Nat
        BY <3>2, <3>3, <3>6
      <4> QED BY <3>5, <4>1, <4>2 DEF LogOK, IsLog
    <3>9. NoPid \notin DOMAIN ancestry'
      BY <2>2 DEF Insert, LogOK
    <3> QED BY <3>4, <3>5, <3>7, <3>8, <3>9, Zenon DEF LogOK
  <2> QED BY <2>1, <2>2
<1> QED BY <1>1, <1>2, PTL DEF LogSpec

(* The scenarios of the instance are scenarios. *)
LEMMA SamplesAreScenarios ==
    /\ AllScenarios(Samples) /\ Len(Samples) = 3
    /\ IsScenario(Plain) /\ IsPlain(Plain) /\ Plain.window = MaxTs
<1>1. ASSUME NEW s, NEW a, NEW b, s.steps = <<a, b>> PROVE IsScenario(s)
  <2>1. s.steps \in Seq({a, b}) /\ s.steps # <<>>
    BY <1>1
  <2> QED BY <2>1 DEF IsScenario
<1>2. ASSUME NEW s, NEW a, NEW b, NEW c, s.steps = <<a, b, c>> PROVE IsScenario(s)
  <2>1. s.steps \in Seq({a, b, c}) /\ s.steps # <<>>
    BY <1>2
  <2> QED BY <2>1 DEF IsScenario
<1>3. /\ Narrow.steps = <<StepOf({"doc"}, FALSE), StepOf({"net"}, FALSE)>>
      /\ Plain.steps = <<StepOf({"run", "doc"}, FALSE), StepOf({"run", "net"}, FALSE)>>
  BY DEF Narrow, Plain
<1>4. Lineage.steps = <<StepOf({"run"}, FALSE), StepOf({"doc"}, TRUE), StepOf({"net"}, TRUE)>>
  BY DEF Lineage
<1>5. IsScenario(Lineage) /\ IsScenario(Narrow) /\ IsScenario(Plain)
  BY <1>1, <1>2, <1>3, <1>4
<1>6. Samples \in Seq({Lineage, Narrow, Plain}) /\ Len(Samples) = 3
  BY DEF Samples
<1>7. AllScenarios(Samples)
  <2>1. \A k \in 1..Len(Samples) : Samples[k] \in {Lineage, Narrow, Plain}
    BY <1>6
  <2> QED BY <1>5, <1>6, <2>1 DEF AllScenarios
<1>8. IsPlain(Plain) /\ Plain.window = MaxTs
  BY DEF IsPlain, Plain, StepOf
<1> QED BY <1>5, <1>6, <1>7, <1>8

(***************************************************************************)
(* Whatever the log and the map of processes: what is matched is a chain   *)
(* of its scenario, and no event is matched twice, in one call or the next.*)
(***************************************************************************)
THEOREM MatchesStaySound == LogSpec => []MatchesAreSound
<1>1. LogOK => MatchesAreChains
  <2> SUFFICES ASSUME LogOK, NEW i \in 1..Len(Samples),
                      FindScenarioMatch(Samples[i], log, ancestry) # <<>>
               PROVE  IsChain(Samples[i], FindScenarioMatch(Samples[i], log, ancestry), log, ancestry)
    BY DEF MatchesAreChains
  <2>1. IsScenario(Samples[i]) /\ IsLog(log) /\ NoPid \notin DOMAIN ancestry
    BY SamplesAreScenarios DEF AllScenarios, LogOK
  <2> QED BY <2>1, MatchIsChain
<1>2. LogOK => MatchesAreDisjoint
  <2> SUFFICES ASSUME LogOK PROVE MatchesAreDisjoint
    OBVIOUS
  <2> DEFINE first == Found({})
             second == Found(MatchedIds(first))
  <2>1. IsLog(log) /\ NoPid \notin DOMAIN ancestry /\ AllScenarios(Samples)
    BY SamplesAreScenarios DEF LogOK
  <2>2. SoundMatches(first, Samples, log, ancestry)
    BY <2>1, MatchesAreChainsOfTheRest DEF Found
  <2> HIDE DEF first
  <2>3. \A i \in 1..Len(second) : ChainIds(second[i].chain) \cap MatchedIds(first) = {}
    BY <2>1, MatchesAreChainsOfTheRest DEF Found
  <2> HIDE DEF second
  <2>4. MatchedIds(first) \cap MatchedIds(second) = {}
    <3> DEFINE used == MatchedIds(first)
    <3> HIDE DEF used
    <3>1. \A i \in 1..Len(second) : ChainIds(second[i].chain) \cap used = {}
      BY <2>3 DEF used
    <3>2. used \cap MatchedIds(second) = {}
      BY <3>1 DEF MatchedIds
    <3> QED BY <3>2 DEF used
  <2> QED BY <2>2, <2>4 DEF MatchesAreDisjoint, SoundMatches, first, second
<1>3. LogOK => MatchesAreSound
  BY <1>1, <1>2 DEF MatchesAreSound
<1> QED BY LogIsOK, <1>3, PTL

(***************************************************************************)
(* Whatever the log: the plain scenario's chain is found where there is    *)
(* one and no two events share an instant.                                 *)
(***************************************************************************)
THEOREM PlainChainsStayFound == LogSpec => []PlainChainsAreFound
<1>1. LogOK => PlainChainsAreFound
  <2> SUFFICES ASSUME LogOK, \A e, f \in log : e.ts = f.ts => e = f,
                      NEW c \in Chains(Plain), IsChain(Plain, c, log, ancestry)
               PROVE  FindScenarioMatch(Plain, log, ancestry) # <<>>
    BY DEF PlainChainsAreFound
  <2>1. IsLog(log) /\ Apart(log)
    BY DEF LogOK, Apart
  <2>2. Fits(log, Plain.window)
    <3> SUFFICES ASSUME NEW e \in log, NEW f \in log PROVE e.ts - f.ts <= MaxTs
      BY SamplesAreScenarios DEF Fits
    <3>1. e.ts \in Nat /\ f.ts \in Nat /\ e.ts <= MaxTs /\ MaxTs \in Nat
      BY LogAssumption DEF LogOK, IsLog
    <3> QED BY <3>1
  <2> QED BY <2>1, <2>2, SamplesAreScenarios, GreedFindsPlainChains
<1> QED BY LogIsOK, <1>1, PTL
=============================================================================
