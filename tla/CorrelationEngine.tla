-------------------------- MODULE CorrelationEngine --------------------------
(***************************************************************************)
(* detection/correlation_engine.py: the matching of scenarios (ordered     *)
(* steps within a time window) against a set of events.                    *)
(*                                                                         *)
(* An event is a record with the fields id, kind, pid and ts.  Its kind    *)
(* stands for the event type and process name that a step's event_types    *)
(* and process_contains look at; a step is the set of kinds it accepts and *)
(* its require_lineage flag.  A scenario is [steps, window].               *)
(***************************************************************************)
EXTENDS Naturals, Sequences

CONSTANTS
    NoPid,            \* an event without a process id, a process without a parent
    MaxAncestryDepth  \* _MAX_ANCESTRY_DEPTH

ASSUME CorrelationEngineAssumption == MaxAncestryDepth \in Nat \ {0}

(***************************************************************************)
(* The walk from child to parent.  ancestry is a function from some pids   *)
(* to their parents (dict[int, int | None]).  The set of pids already seen *)
(* only cuts a cycle short: a cycle that has not met the root in its first *)
(* round never does.                                                       *)
(***************************************************************************)
ParentOf(pid, ancestry) == IF pid \in DOMAIN ancestry THEN ancestry[pid] ELSE NoPid

Forebear(pid, ancestry) ==
    LET up[k \in 0..(MaxAncestryDepth - 1)] ==
            IF k = 0 THEN pid ELSE ParentOf(up[k - 1], ancestry)
    IN  up

IsDescendant(pid, root, ancestry) ==
    \E k \in 0..(MaxAncestryDepth - 1) : Forebear(pid, ancestry)[k] = root

StepMatches(step, event, root, ancestry) ==
    /\ event.kind \in step.kinds
    /\ step.lineage => /\ event.pid # NoPid
                       /\ root = NoPid \/ IsDescendant(event.pid, root, ancestry)

\* The order of the sorted event list: by timestamp, then as read (by id).
Before(e, f) == e.ts < f.ts \/ (e.ts = f.ts /\ e.id < f.id)

Earliest(S) == CHOOSE e \in S : \A f \in S \ {e} : Before(e, f)

ChainIds(chain) == {chain[i].id : i \in 1..Len(chain)}

\* Fault: an event may satisfy two steps (used_ids dropped).
CandidatesReused(m, step, events, ancestry) ==
    {e \in events :
        /\ m.chain # <<>> => e.ts >= m.chain[Len(m.chain)].ts
        /\ StepMatches(step, e, m.root, ancestry)}

(***************************************************************************)
(* One round of the loop over the steps.  m is [found, chain, root]: the   *)
(* events matched so far and the pid that anchors the lineage.  The step   *)
(* takes the earliest unused event not before the previous one.            *)
(***************************************************************************)
Candidates(m, step, events, ancestry) ==
    {e \in events :
        /\ e.id \notin ChainIds(m.chain)
        /\ m.chain # <<>> => e.ts >= m.chain[Len(m.chain)].ts
        /\ StepMatches(step, e, m.root, ancestry)}

\* Fault: an earlier event may satisfy a later step's search: latest first.
TakeStepLatest(m, step, events, ancestry) ==
    LET S == Candidates(m, step, events, ancestry)
        e == CHOOSE e \in S : \A f \in S \ {e} : Before(f, e)
    IN  IF ~m.found \/ S = {} THEN [m EXCEPT !.found = FALSE]
        ELSE [found |-> TRUE,
              chain |-> Append(m.chain, e),
              root  |-> IF step.lineage /\ m.root = NoPid THEN e.pid ELSE m.root]

TakeStep(m, step, events, ancestry) ==
    LET S == Candidates(m, step, events, ancestry)
        e == Earliest(S)
    IN  IF ~m.found \/ S = {} THEN [m EXCEPT !.found = FALSE]
        ELSE [found |-> TRUE,
              chain |-> Append(m.chain, e),
              root  |-> IF step.lineage /\ m.root = NoPid THEN e.pid ELSE m.root]

\* The loop over the steps: m[k] is what it holds after the first k.
Search(scenario, events, ancestry) ==
    LET m[k \in 0..Len(scenario.steps)] ==
            IF k = 0 THEN [found |-> TRUE, chain |-> <<>>, root |-> NoPid]
            ELSE TakeStep(m[k - 1], scenario.steps[k], events, ancestry)
    IN  m

(***************************************************************************)
(* _find_scenario_match: the chain, or <<>> for None.  The window is       *)
(* looked at only once, when every step has its event.                     *)
(***************************************************************************)
FindScenarioMatch(scenario, events, ancestry) ==
    LET n == Len(scenario.steps)
        last == Search(scenario, events, ancestry)[n]
    IN  IF last.found /\ last.chain[n].ts - last.chain[1].ts <= scenario.window
        THEN last.chain ELSE <<>>

MatchedIds(found) == UNION {ChainIds(found[i].chain) : i \in 1..Len(found)}

\* The match of scenario k, if there is one, after those found before it.
AddMatch(found, k, scenario, available, ancestry) ==
    LET chain == FindScenarioMatch(
                     scenario, {e \in available : e.id \notin MatchedIds(found)}, ancestry)
    IN  IF chain = <<>> THEN found ELSE Append(found, [scenario |-> k, chain |-> chain])

\* The loop over the scenarios: m[k] is the list after the first k.
Matched(scenarios, available, ancestry) ==
    LET m[k \in 0..Len(scenarios)] ==
            IF k = 0 THEN <<>> ELSE AddMatch(m[k - 1], k, scenarios[k], available, ancestry)
    IN  m

(***************************************************************************)
(* find_scenario_matches: the matches in the order of the scenarios, each  *)
(* [scenario (its index), chain].  Events of earlier matches are out.      *)
(***************************************************************************)
FindScenarioMatches(scenarios, events, already, ancestry) ==
    Matched(scenarios, {e \in events : e.id \notin already}, ancestry)[Len(scenarios)]

-----------------------------------------------------------------------------
(* What a chain of a scenario is, without saying how it is found. *)

\* The pid of the event that satisfies the first lineage step.
AnchorOf(scenario, chain) ==
    LET L == {k \in 1..Len(scenario.steps) : scenario.steps[k].lineage}
    IN  IF L = {} THEN NoPid ELSE chain[CHOOSE k \in L : \A j \in L : k <= j].pid

\* "itself, or reachable by walking child -> parent": the closure of ancestry.
Reaches(pid, root, ancestry) ==
    \E n \in 0..(MaxAncestryDepth - 1) : \E p \in [0..n -> DOMAIN ancestry \cup {pid, root}] :
        /\ p[0] = pid /\ p[n] = root
        /\ \A k \in 1..n : p[k - 1] \in DOMAIN ancestry /\ ancestry[p[k - 1]] = p[k]

IsChain(scenario, chain, events, ancestry) ==
    LET steps == scenario.steps
        n == Len(steps)
    IN  /\ Len(chain) = n
        /\ \A i \in 1..n : chain[i] \in events /\ chain[i].kind \in steps[i].kinds
        /\ \A i, j \in 1..n : i < j => /\ chain[i].id # chain[j].id
                                       /\ chain[i].ts <= chain[j].ts
        /\ \A i \in 1..n : steps[i].lineage =>
               /\ chain[i].pid # NoPid
               /\ Reaches(chain[i].pid, AnchorOf(scenario, chain), ancestry)
        /\ chain[n].ts - chain[1].ts <= scenario.window
=============================================================================
